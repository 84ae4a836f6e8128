# A TLA+ verification of n00b's threading core and lock-free containers

n00b is a language runtime in C: threads with a stop-the-world lock, its own
locks and condition variables, a moving garbage collector, lock-free data
structures (hatrack), an I/O event loop, a virtual machine and a compiler. This
directory holds TLA+ models of the parts everything else stands on: the
threading core `src/mt`, and hatrack, the library of lock-free hash tables,
queues, stacks and arrays with its memory manager. TLC checks them on small
instances; TLAPS proves the safety properties of the locks, of the
stop-the-world protocol, of the memory manager, of the linked-list stack and of
one lock-free table for every value of the constants.

Paths below are relative to the repository's root, and those of hatrack to
`src/hatrack`. `tla/` also has `PROJECT.json`, which lists components, runs,
mutants, findings, hazards, theorems, and for every definition the lines it
models.

## 1. Inventory

| Component | State | Operations | What makes it hard | Modelled in |
|---|---|---|---|---|
| Lock accounting `src/mt/lock_accounting.nc` | per lock: owner/nesting word, links; per thread: head of held-lock list | init, acquire, release | locks released in any order; read by the exit handler | LockAccounting |
| Mutex `src/mt/mutex.nc` | futex word, `should_wake` | init, lock, try_lock, unlock | spin and slow path, nesting, two words that change in two steps | Mutex, ReentrantLock (abstract) |
| Futex layer `include/mt/futex.h` | none | wait, wait for value, timed wait, wake | waits poll; a wait with timeout 0 returns at once | guards of the lock modules |
| Read/write lock `src/mt/rwlock.nc` | word: writer bit and reader count; per thread: read records | init, write_lock, read_lock, unlock | drain of readers, upgrade and downgrade, a CAS loop with `continue` | RWLock |
| Read records `src/mt/rwlock.nc`, `thread.nc` | per thread: `read_locks`, `log_alloc_cache` | add, find, drop, walk at exit | the walk changes the list it follows | ReadRecords |
| Stop the world `src/mt/gil.nc` | `n00b_gil`, `stw_nesting`, each thread's `self_lock`, `stw_heap` | stop, restart, check-in, suspend, resume, start, scratch allocation | marks set one by one beside running, launching and ending threads; nested and competing stops | GIL |
| Threads `src/mt/thread.nc`, `thread_tsi.nc` | thread list, next slot, thread state | spawn, launch, exit, cancel | launch races spawner and stopper; slot reuse; cancel inside a stop | GIL (launch, exit), Mutex and ReadRecords (exit), MMM (thread ids) |
| Condition variables `src/mt/condition.nc` | lock, `wait_queue` (count and bit), `notify_done`, `num_to_wake` | init, set_callback, lock, unlock, wait, notify | handshake without the lock, several notifiers, timeouts, a plain counter shared by waiters | Condition |
| Memory reclamation `support/mmm.c` | epoch, reservations, thread ids and their free list, retire lists | register, start and end of an operation, alloc, commit and help, retire, scan, clean up | frees beside readers that announce themselves by a plain store | MMM |
| Hash tables `hash/*.c` | stores of buckets, item count, help counter | get, put, replace, add, remove, view, migration | every thread that meets a migration carries it out; wait-free tables ask each other for help; writers that lose a race answer as if overwritten | Hat and one module per table |
| Dictionary and set `hash/dict.c`, `set.c` | pairs of key and value; two views | get, put, replace, add, remove, cas, items; set algebra | who retires a pair when writers race; the ends of two sorted views | HatDict |
| Queues `queue/queue.c`, `q64.c`, `hq.c`, `capq.c` | segments or a store of cells, indices, epochs | enqueue, dequeue, len, view, top, cap | dequeuers overtake enqueuers and spoil their cells; growth | SegQueue, HQ, CapQ |
| Rings `queue/hatring.c`, `logring.c` | cells with epochs; log entries and views | enqueue, dequeue, view | full rings overwrite; a view helped by everybody | HatRing, LogRing |
| Stacks `queue/stack.c`, `llstack.c` | cells and a head with an epoch; a linked list | push, pop, peek, view | a slow push whose cell was popped; reuse of nodes | HatStack, LLStack |
| Arrays `array/flexarray.c` | store of cells, length | get, set, grow, shrink, view | writes beside growth | FlexArray |
| Lock API, heap, collector | - | - | dispatch; raw memory | not modelled |
| Data types, I/O, runtime, compiler, VM, text, util, debug, cmd, ncpp, crypto | - | - | sequential code or system calls | not modelled |

How they interact. The lock kinds call the accounting operators while they have,
by their own protocol, sole use of the lock's word. A condition variable is a
mutex with two more words. A thread that exits (`n00b_post_thread_cleanup`)
walks the lists that the accounting and the read records keep, and gives its MMM
thread id back. Every slow path of a lock brackets its wait with
`n00b_thread_suspend` and `n00b_thread_resume`, and every resume, futex wait and
allocation checks in with the GIL. The containers of hatrack run between
`mmm_start_*_op` and `mmm_end_op` and hand what they unlink to `mmm_retire`;
crown carries the dictionaries, woolhat the sets, hatring the log ring.

What makes each part correct is stated as its properties in section 4.

## 2. Modules

    LockAccounting ---- Mutex          ReentrantLock <--(refined by)-- Mutex
          |   |           \---------- MutexProofs ---- LockAccountingProofs
          |   \-------- RWLock ------ RWLockProofs --/
    ReadRecords ------- ReadRecordsProofs
    GIL --------------- GILProofs
    Condition --------- ConditionProofs
    MMM --------------- MMMProofs
    Linearizer -- Hat --+-- LockHat      duncecap, swimcap, refhat
                        |      \-------- NewsHat, TopHat
                        +-- CellHat ---- OldHat, Tiara
                        +-- RecordHat -- HiHat, HiHatA, WitchHat, Crown
                        |      \-------- HistoryHat -- LoHat, LoHatA, WoolHat, BallCap
                        +-- HatDict      dict, set
                        +-- MCHats       (instances of them all)
    Linearizer -- Fifo -+-- SegQueue (queue, q64), HatRing -- LogRing
                        +-- HQ, CapQ, HatStack, FlexArray
                        +-- LLStack ---- ContainerProofs (with an instance of HiHat)
                        +-- MCQueues     (instances of them all)

A step of a module is one access to a word that other threads can see (a
fetch-or, a CAS, a load that is acted on later, a store). Code between two such
accesses that only touches the thread's own state is part of one of the two
steps. Debug logs and names are left out. The models of `src/mt` are of the
`N00B_DEBUG` build, the repository's default; without it line 126 of
`lock_accounting.nc`, the store of the owner, is compiled out and no lock can be
unlocked. Memory is sequentially consistent, except in MMM: the code uses C11
atomics in their default order for every shared word of the models except
`stw_nesting`, `num_to_wake` and the reservations of MMM, which are plain.

**LockAccounting.** `data`, `nextLock`, `prevLock`, `exclusive` are the fields
`data`, `next_thread_lock`, `prev_thread_lock` of a lock and
`tsi->exclusive_locks`. `AcquireAccounting` and the trio `Unnest`,
`UnlinkHeld`, `Misuse` are `n00b_lock_acquire_accounting` and
`n00b_lock_release_accounting`. Each is one step, because only the thread that
has the lock writes these. `fatal` records that an assert failed, or that the
caller unlocked what it does not own; either aborts the process.

**Mutex.** `Spin` is a round of `spin_phase`; `BeginWait`, `Poll`, `Grab`,
`EndWait`, `Account` are the slow path of lock and try_lock (`timed` tells which:
a try_lock may leave its wait without having seen 0, and ignores that). An
unlock is `Unlock` (accounting), `ClearFutex`, `CheckCleared`. `ExitThread` and
`ExitRelease` are the first loop of `n00b_release_locks_on_thread_exit`. The
system calls to wake are left out: a waiter polls the word
(`n00b_futex_wait_for_value` has no wait in it), so it never depends on one.

**RWLock.** `word` is the futex word, `reads[t][l]` the nesting level of t's
read record. The slow path of `n00b_rw_read_lock` is `ReadSlow`, `ReadLoop`,
`ReadRead`, `ReadCas`. In a C `do ... while`, `continue` jumps to the loop
condition, which here is the CAS; so after waiting for the bit to clear, the
reader stores a `desired` that was computed on an earlier round or never. An
unassigned `desired` is any word. `garbled[l]` records that such a CAS stored
something other than one more reader in a word without the bit.

**ReadRecords.** One thread; `records` and `cache` are its two lists, as
sequences: a record that is lost shows, a slip in setting `prev_entry` and
`next_entry` (rwlock.nc:294-307) does not. `share` is its part of each lock's
reader count. `ExitStep` is a round of the second loop of
`n00b_release_locks_on_thread_exit`, with `cursor` for its `log`: a record whose
last level is given back has moved to the front of the cache when `next_entry`
is read.

**GIL.** A thread is its slot in `n00b_global_thread_list`, used once; slot 1 is
the main thread. `bits` is `self_lock`. `Contend`, `Recheck`, `Cas`, `Mark`
and `MarkBit`, `Stopped` are `n00b_stop_the_world`; `Restart`, `Unmark` and
`UnmarkBit`, `Release`, `Abandon`, `AbandonClear` are `n00b_restart_the_world`
with `mheap_abandon`. In both loops the read of a slot and of its `tsi`
(`ReadSlot`) is one step and the change of `self_lock` another; an exiting
thread gives up its slot (`Exit`) and unmaps its `tsi` (`Unmap`) in two steps as
well, so that a stopper may find the memory gone. `Spawn`, `Await` are the
spawner's side of a launch (`Await` merges the load of the slot with what is
read through it), `Publish`, `InstallTsi`, `LoadInit`, `StoreInit`,
`LaunchCheckin` the child's. `fatal` is how the process died: an abort in
restart, a null `tsi` in spawn, a fault on scratch pages or on thread state that
were unmapped. `party` (the other threads that were past their launch when the
GIL was taken), `takenOver` and `relit` (the threads whose launch stored an old copy
of their bits, with the GIL bit in it) are history variables that only the
properties read. `N00B_SUSPEND` is left out: it is set only in
builds with `N00B_DLOG_GIL`, and only a log reads it.

**Condition.** The lock is an owner: `n00b_condition_lock` never nests, and
MutexProofs shows that a mutex is a reentrant lock. `num_to_wake--` is a load
and a store (`Load`, `Store`), as it is a plain field that several waiters
decrement at once; it wraps like the code's, so that -1, the `max` of a
notify_all, counts down from the top (`Maxes` are the values callers pass). A wait with a timeout reads the word (`Expire`) before it
counts itself out (`TimeOut`), and a notification may begin in between. The
predicate is any answer, so the values passed are left out.
`N00B_CV_NOTIFY_IN_PROGRESS` and `N00B_GIL` are the same bit (0x40000000), which
is why the notifier's mask leaves the count alone.

**ReentrantLock.** The abstract specification of a mutex: a holder and a depth
per lock, taken, taken again, given back a level at a time. Mutex implements it
under `holder` = the thread inside, `depth` = the nesting level, or the futex
word while the data word names nobody.

**MMM.** `epoch`, `nexttid`, `freeTids`, `reservations` are `mmm_epoch`,
`mmm_nexttid`, `mmm_free_tids`, `mmm_reservations`; a thread's `list` is its
`retire_list`, `ctr` its `retire_ctr`. `rec` is what was allocated, with the
epochs of its header, the address it was given and a count of frees. `malloc`
may give out any address that no record in use has, so a pointer is compared by
address (`Addr`) and followed to what is there now (`Mem`): a list can see ABA.
The client is one bucket of a table:
a writer replaces the newest record and retires the old one, a linearized reader
walks back to the record of its epoch. `NewTid`, `LoadHead`, `ReadBelow`,
`PopTid`, `ClearSlot` are `mmm_thread_acquire`; `Begin`, `Reserve`, `ReadEpoch` the two
starts of an operation; `SeeEpoch`, `NewEpoch`, `StoreEpoch` the commit and the
help with one; `Link`, `SwapRoot`, `LoseRoot` a put; `BeginScan`, `ScanSlot` (one
slot a step), `FreeOld` are `mmm_empty`; `Leave`, `LeaveScan`, `NewNode`,
`GiveTid`, `RetryGive` are `mmm_thread_release`. With `Delayed` the plain store of a reservation may
become visible later
(`Flush`).

**Linearizer.** Answers of concurrent calls are explained by a sequential
object. `lin`, a history variable of the container modules, is the set of ways
to have executed the answered calls, and some of the running ones, one after the
other; it is narrowed at each answer, and `Linearizable` says that one is left.
`Closure` adds what can be reached by executing running calls; it is the last of
the `Layers`, each of which is the `Spread` of the one before by one more call.
A hatrack writer that loses a compare-and-swap answers as if it had been
overwritten at once, and hands its own item back to be freed; `Yields` is that
answer, and only a call that really lost to a change of its key may give it.

**Hat and the tables.** A key is its hash value. `heap` is the stores allocated
so far (`hv` the hash values of the buckets, `rec` the records, `used`, `next`,
`retired`), `top` the table's own fields, `th` what each thread does: `pc` is the
place in the function, the other fields its local variables. A probe is taken at
its last read: a reserved bucket never changes its hash value, so what a probe
passed stays passed. The writers of lohat, lohat-a and woolhat stop one bucket
short of a round (`i < last_slot`), gets and migrations do not (`WriterStops`).
WoolHat has four history fields: `over` and `under` count the miscounts of a
removal by others, `leaked` is the records it forgets, `crossed` says that two
removes got in each other's way (section 6). The family of a table is by what one compare-and-swap can
change: RecordHat has the record of a bucket (hihat, hihat-a, witchhat, crown)
with the migration that all of them share; HistoryHat a chain of records with
epochs (lohat, lohat-a, woolhat, ballcap), whose views are snapshots; CellHat
hash value and record in one swap (oldhat, tiara); LockHat the tables whose
writers lock (duncecap, swimcap, and refhat, which is alone); NewsHat and
BallCap lock each bucket. TopHat is the move of a table from its single-threaded
to its multi-threaded implementation, which is reduced to a dictionary with
atomic operations. HatDict has the
pairs of `dict.c` over a crown reduced to a record per key, and, as operators,
the loops of `set.c` over two sorted views. A cas that retires a null pointer ends
its caller in "fault".

**Fifo and the queues.** The same state for containers that hold a sequence;
`heap` is their segments, rings, nodes or stores. SegQueue is `queue.c` and
`q64.c`: a cell is claimed by fetch-and-add, a dequeuer that comes first spoils
it, help is a step count; an index beyond the segment is "fault", where the thread
stays, so that TLC would report a deadlock. `hq.c`, `capq.c`, `stack.c` and `flexarray.c` migrate
alike: cells are marked moving, a store is linked, the items are copied, the cells
are marked moved, the store is installed; each by whoever comes. What they share
of that is in Fifo (`LinkStore`, `InstallStore`, `RetireStore`, and `ClaimStore`
and `ReadView` for their views; `late` notes a view that claims a store already
retired). HatRing's cells carry the epoch of the last claim. LogRing has the
entries, their `info` words and the views that everybody helps, which reserve,
measure and copy an entry in separate steps; a message and its length are the
same value, so that a copy with another message's length shows as `Garbled`. A
strict view is trimmed as the code does it (`Trimmed`), with the wrap of its
index (`Overruns`, "fault"). CapQ's top keeps the size of the store it began
with, as the code does.

The sequential objects (`Line` in Fifo) are strict: a put into a full ring drops
the oldest item, a top answers the first one, a strict view answers what is there.
Where the code promises less, or keeps less (section 6), a workload names another
call: "lap" is a put beside overlapping puts, after which any one item may be
gone, "glance" a lax view and "glean" a strict view beside puts, whose answers are
not compared.

## 3. Runs

| Run | Instance | Properties | States |
|---|---|---|---|
| mutex | 2 threads, 2 locks, 3 calls each, nesting 2, 2 spins | TypeOK, MutualExclusion, FutexMeansInside, WaitersCounted, ListLinked, ExitReleasesAll, ImplementsReentrantLock, ExitCompletes, WaiterServed | 167,708 |
| rwlock | 3 threads, 1 lock, 2 calls each, nesting 2 | TypeOK, WordAgrees, WriterExcludesReaders, WriterServed | 90,707 |
| read_records | 1 thread, 3 locks, 6 calls, nesting 2 | TypeOK, ShareIsRecorded, RecordsReused, ExitEnds | 2,673 |
| gil | 3 slots, 3 stops in all, nesting 2 | TypeOK, MarkedWhileStopped, UnmarkedAfter, NestingCounts, WaitsEnd | 582,169 |
| gil_stop | 3 slots | WorldIsStopped, violated: section 6 | - |
| condition | 3 threads, 3 calls each, max 1 or -1 (3 in a word of two bits) | TypeOK, QueueCounts, SleepersHoldNoLock, ProgressHasNotifier | 3,868,000 |
| condition_notify | 2 threads, 1 call each, max 1 | NotifyReturns, violated: section 6 | - |
| mmm | two writers, or a writer and a reader, or a writer and two that come and go; 2 ids | NoUseAfterFree, FreedOnce, ReadsItsEpoch, SlotsApart, LeavesInTheEnd | 94,717 |
| mmm_fence | a writer and a reader, `Delayed` | NoUseAfterFree, violated: section 6 | - |
| hats | 15 tables, the dictionary and the set operations, 2 or 3 threads, 1 to 3 calls each, first store one insertion short of a migration | HatsLinearizable, CountAtRest, RetiredOnce, KeysUnique, SetAlgebra | 576,628 |
| crown_map | crown, two keys of one home, two helpers | Linearizable, violated: section 6 | - |
| queues | 9 containers, 2 or 3 threads, stores and segments of 2 to 8 cells | Linearizable, LenAtRest, MemorySafe, ViewsWhole | 720,015 |

Bounds and why they are enough. Two threads and two locks give the mutex every
pair of steps on one lock, lists of length two in both orders of release, and
the callers' deadlock; longer lists and more threads are covered by the proofs.
Three threads give the read/write lock a writer, a reader and a third party of
either kind, so that two writers race with a reader inside; the word is 3 bits
wide (`WBit = 4`), enough for three readers. Three locks give the read list a
middle. Three slots give the GIL two competing stoppers beside a bystander or a
thread in launch, and three stops a nested one; WaitsEnd rests on the bound on
stops: with no end of them, the word need never be free for long enough. Three threads give the condition
variable two waiters and a notifier, or two notifiers and a waiter. With
`RetireFreq = 1` every retirement of MMM scans, and with two ids a third thread
must take a freed one. The tables begin with stores of 4 or 8 buckets, so that
the first insertion of a workload migrates while the other threads write to a
key of the old store, or help; `RetryThreshold` is 1 or 2, so that help is asked
for; and two threads are enough for one bucket to be copied, and one store to be
installed, by two helpers. Queues begin with one item less than a segment or
store holds, rings are overrun by four items in room for two; the log ring has
four entries, and three messages after the two of its preload write one of them
again beside a view.

Every constant that only bounds TLC (`MaxCalls`, `MaxNesting`, `MaxStops`,
`MaxOps`, `MaxRecords`, `MaxStores`, `MaxBlocks`) is named and used in
a guard. `CHECK_DEADLOCK FALSE` stands where the system really may stop: readers
that upgrade against each other (rwlock), a process that died or a spawner that
waits for a child that has gone (gil), waiters with nobody to notify them
(condition). In mutex, mmm, hats and queues the legitimate end is an explicit
stutter (`Ended`, `Rest`), so that a deadlock there would be reported; `Rest` also
allows the end of a strict log-ring view in "fault" (section 6). The rwlock run
has a constraint (`Ungarbled`): a state with a garbled word is checked but not followed, as
what the code does with such a word is arbitrary; its properties are stated for
words that are not garbled. In MCQueues the three instances of the stack share
one next-state relation, which reads neither the workload nor the preload.

Workloads. The tables and queues are checked over chosen calls, not over all:
each brings writers to one key, cell or store at the moment it moves. They leave
out, table by table, what section 6 says the code gets wrong, so that the rest
of the table is still checked:

* tophat has two writers (a third loses its write);
* witchhat has no view and no get of an absent key beside a migration;
* hihat-a has no two inserters of one key beside a migration;
* crown has no two keys of one home (that is crown_map) and no view beside a
  migration; woolhat has no remove beside a migration; oldhat no remove before
  one; hq migrates alone;
* woolhat has up to three writers of one key, so that a remove asks for help and
  is served by a put, an add, a replace or another remove; its answers are checked
  until two removes cross, its count and its records after what `over`, `under`
  and `leaked` note;
* queue and q64 double a segment with one enqueuer only (with two, one writes
  beyond a segment);
* a top of capq has no round of the cells within it that ends in a migration;
* hatring and the log ring have no two enqueuers of a full ring, nor two dequeuers,
  outside "lap"; strict views of the log ring are alone or beside a dequeue; beside
  puts they are "glean". Two enqueuers with a view, or three messages with a view
  and a dequeuer, are beyond TLC's reach; `view_id`, which enqueuers leave unset,
  is 0;
* the dictionary has no replace of an absent key and no two cas of one key;
* CountAtRest leaves out oldhat, tiara and tophat, LenAtRest capq, whose counts
  the code does not keep;
* at most one thread takes from the list of free ids in the casts of mmm, and the
  properties of MMM are stated while no second one must (`OneTaker`): with two, a
  freed node comes to be the head of the list.

Fairness. The operating system runs every thread that can run (weak fairness of
each thread's next step within a call). Callers give back what they hold: in
mutex because calls are bounded and a thread then unlocks or exits; in rwlock by
weak fairness of `Release`; in gil a stopper restarts the world. In mmm all
threads keep running, so that the operations a leaving thread waits for end; a
plain store becomes visible in the end. No order among contenders is assumed
anywhere, as no lock queues its waiters. Nothing that a user chooses (to lock,
to wait, to notify, to spawn, to stop) is fair. The runs hats and queues state
safety only: workloads are finite, and that every call returns is not claimed
for tables that are lock-free and not wait-free.

Each property of a passing run has a mutant in the module that holds the
mutated definition (`Grab_Unchecked`, `Drain_AnyOne`, ...), named for the slip
it makes; TLC finds the property violated with it.

## 4. Properties

Mutex: never two threads inside, by whichever path (MutualExclusion); the word
set exactly while someone is inside, across the two-step entry and exit
(FutexMeansInside); `should_wake` counts the slow path (WaitersCounted); the
held-lock list is well linked (ListLinked); a thread that has exited is inside
nothing (ExitReleasesAll) and the exit loop ends (ExitCompletes); who asks gets
the lock unless the callers deadlocked (WaiterServed); the refinement
(ImplementsReentrantLock).

RWLock: one holder of the bit, and the word is bit plus number of readers
(WordAgrees); the writer works alone (WriterExcludesReaders); a writer with the
bit is served once its readers go (WriterServed).

ReadRecords: a share exactly while there is a record (ShareIsRecorded); records
are reused (RecordsReused); the exit walk ends (ExitEnds).

GIL, while no stop was taken over: while the world is stopped every thread that
was past its launch when the GIL was taken is marked (MarkedWhileStopped;
one in its launch checks the GIL word itself before it runs); when the GIL is free
no listed thread is, except one whose own launch stored the bit back
(UnmarkedAfter); the one counter is
the stopper's (NestingCounts); every wait on the GIL ends (WaitsEnd).

Condition: `wait_queue` counts the waiters (QueueCounts); sleepers are without
the lock (SleepersHoldNoLock); the bit has a notifier (ProgressHasNotifier). That a
wait that timed out returns without the lock (condition.nc:133) is for its caller
to know; nothing is stated of it.

MMM, as long as one thread at most had to take from the list of free ids: nobody
holds a record that was freed or given out again (NoUseAfterFree), nothing is freed twice
(FreedOnce), a linearized reader finds the newest record of its epoch whoever
commits it (ReadsItsEpoch), no two threads share an id (SlotsApart), a thread
that leaves gets away (LeavesInTheEnd). n00b's own build sets
`HATRACK_DONT_DEALLOC` (meson.build:37), with which retiring does nothing; what
is said of retiring and freeing concerns the library's default.

Tables: the answers are those of a sequential dictionary, with views as
snapshots or, for the tables that promise none, as one get per key
(HatsLinearizable); `item_count` is right once the calls are over (CountAtRest); a
replaced store, an overwritten record and a replaced pair are retired once, never
while in use, and once the calls are over each has been (RetiredOnce); no key has
two buckets (KeysUnique). For woolhat the first three are stated up to what its
removal by others gets wrong.
SetAlgebra compares the loops of `set.c` with set algebra over all pairs of
views of three hash values, in every order of insertion: union (with its
order by epoch), intersection, equality, superset, proper subset and
disjointness exactly, difference and symmetric difference up to the end of the
other view.

Queues: the answers are those of a sequential queue, ring, stack or array
(Linearizable); `len` is right at rest (LenAtRest); no block is retired twice but a
store that a view claimed too late, and no item goes both to the drop handler and
to a dequeuer (MemorySafe); views of the log ring are not torn, though its entries
are written again beside them (ViewsWhole). That nodes of llstack are not freed
and pushed again under a pop is MMM's promise (NoUseAfterFree), not modelled twice.

## 5. Proofs

Each proof module has the same plan: an inductive invariant (`IInv`, in MMMProofs
`Inv`), one lemma per action that the step keeps it, one that it holds always, and
the theorems read off from it. TLC checked every `IInv` on the instances of section 3 first.

**Mutex** (MutexProofs, with the lemmas on the accounting operators in
LockAccountingProofs), for any finite set of threads, any locks, any spin limit
and any number of calls, from `AccountingAssumption` and `MutexAssumption` (the
null pointer is no lock, the no-owner mark no thread, bounds are naturals):
TypeCorrect, Exclusion, FutexAgrees, HeldListLinked, OwnerAssertHolds,
ExitComplete, WaitersExact, and Refinement (`Spec => ImplementsReentrantLock`).
MutualExclusion is not inductive: that an unlocking thread may store 0 rests on
the word being set for it alone (FutexMeansInside), and that a thread which won
the word becomes owner without displacing one rests on the data word being
vacant then (DataVacant). ListLinked is not inductive either: unlinking skips
its stores when prev and next are the same lock, and that they are not, unless
both are null, follows only because the list has no cycle. `Acyclic` says so by a
natural rank that falls along `next_thread_lock`; that avoids a recursive
definition of the list. ExitComplete needs that a thread with an empty list owns
nothing: of the locks it owns, the one of highest rank can have no predecessor and
is the head (`OwnerHasList`, by the least-number principle). The refinement has one
lemma for each kind of step: a fetch-or that wins is Acquire, the store that
clears is Free, one level more or less is Reacquire or Release, everything else a
stutter.

**Condition** (ConditionProofs), for any finite set of threads: TypeCorrect,
Counted, SleepersLockless and BitHasNotifier from `Typed` (TypeOK without the
range of `wait_queue`), QueueCounts, `Lockless` (waiters are without the lock from
enqueuing to return, notifiers from waiting on) and ProgressHasNotifier. The range
of `wait_queue` follows from the count.

**RWLock** (RWLockProofs), for any finite set of threads fewer than `WBit`
(2^31 or so in the code): TypeCorrect, WordCorrect, WriterAlone, HeldListLinked.
WriterExcludesReaders is strengthened to `Alone`: a writer that has drained but
not yet entered its name excludes readers too, because none can pass the bit. The
word is only kept by the count being below the bit, so that adding and taking
away a reader never carries into it. All of it is stated per lock and until a
stray value was stored in its word (`garbled`); the bookkeeping lists (`Bookkept`)
are right even then.

**ReadRecords** (ReadRecordsProofs), for any finite set of locks: TypeCorrect,
ShareRecorded, RecordsBounded. That a release drops the right record rests on
`OneRecord`, and that the handler's stray walk does no harm to the lists on
`CursorThere`: wherever it strays, it is at a place of one of them.

**GIL** (GILProofs), for any number of slots, stops and levels: TypeCorrect,
StopMarks, RestartUnmarks, NestingExact. The marks are set and cleared in loops, so
the invariant says how far the loop has come (`LoopAt`), and it must be known that
no thread of the party stores an old copy of its bits back (`PartyLaunched`), and
that there is one stopper (`OneStopper`). RestartUnmarks is about every listed
thread, the launching ones too: who still has the bit when the GIL is free is in
`relit`. It holds until a stop is taken over
(`takenOver`); `Steady` is what is left then.

**MMM** (MMMProofs), for any set of threads, any number of ids, records and
operations, and any frequency of scans, with memory that is given out again. All
theorems have two conditions: reservations are visible before the loads that
follow them (`~Delayed`), and at most one thread has found the ids used up
(`OneTaker`). The invariant `Inv` has five layers.

* `Shaped`: what a thread's place in the code says of its locals.
* `Owned`: every record belongs to one thread, to the bucket or to the list of free
  ids, and has not been freed; every id is owned by one thread or in one node. The
  list of free ids is some set of nodes closed under `next`, which needs no
  recursion and says enough of the stack: no two nodes have one successor. From it
  NoDoubleFree and TidsUnique.
* `Ordered`: of the chain of records only the newest may be uncommitted, no epoch
  lies between a record's and its successor's, and whoever is about to store an
  epoch has drawn one that is higher than all that are stored. From it
  LinearizedRead: all that is newer than what a reader holds is newer than its
  epoch, and so will be what is committed later.
* `Reclaimed`, when stores are not delayed: a record that a thread holds, or can
  come to on its way back to its epoch, is `Safe`: if it is in a retire list, then
  it was retired no earlier than the thread's reservation, and a scan of that list
  that is under way either has not come to the thread's slot, and will, or has an
  epoch no newer than the reservation as its lowest. Retire lists are in the
  order of retirement (`Sorted`), so freeing everything from the first old cell on
  frees old cells only. From it NoDangling.
* `Reuse`: of the records at one address only the newest has not been freed.

The code compares addresses; the first four layers speak of records. The two agree
as long as what a thread compares is in use: then what is at its address is itself
(`InUse`). So every step is shown to be a step of a copy of the action that names
records instead (`...ById`, `StepsById`), and the layers are kept by those. This is
also why all four theorems need `~Delayed`: once a record in use can be freed, an
address may mean another record; mmm_fence shows the first step of that. `OneTaker`
is needed because `mmm_thread_acquire` reads `head` and `head->next` without a
reservation (mmm.c:182-187): two takers free the head under each other, and after
reuse a freed node is on the list, or one id with two threads. The step that is easy to get wrong is the
first store of an epoch in the newest record: only then may an older reader walk
past it, to the record below. That one is safe because its writer, who will retire
it, has yet to do so (`RootWriter`).

**Containers** (ContainerProofs, for llstack and hihat). A fact about all values
of a recursive function (the layers of the linearizer, the puts that fill the
first store) is proved by the least number that would refute it (`LeastNumber`,
`UpTo`), since the library's induction is out of the provers' reach.

llstack, for any finite set of threads, any calls and any items in the beginning
(`FifoAssumption`): StackLinearizable and StackRetiresOnce from `StackInv`.
Linearizable says only that some explanation is left, which is no inductive fact.
The invariant names one that is: `Taken` executes every call where the code does,
a push or a pop at its successful swap, a pop of an empty stack at its read of
the head, and is always in the closure of `lin` (`Explained`). That needs that the
closure is closed under executing one more running call, that answering one
keeps every explanation that had executed it with that answer, and that the
object of `Taken` is the chain of nodes from the head down, which is without
repetition. A popper's swap is right although it compares only the head: a node's
`next` is never written once it was pushed, and a node that was popped is not the
head again. From this the second theorem: whoever swaps a node out of the chain
is the only one to retire it.

hihat, for any keys, threads and calls, any sizes, and any first pairs that have
room in the first store: HiHatKeysUnique, HiHatStoresRetiredOnce and HiHatWrittenOnce, from
`Hi!HatConstants`, which is the assumption of Hat (`HatAssumption`) said of the
instance; TLC evaluates it in MCHats (`HiConstants`). KeysUnique is not inductive:
an insertion takes the first free bucket of its probe, and nothing in the property
says that the key is not further on. The strengthening is `Probed`: on the way from
a key's home to its bucket every bucket belongs to another key. It rests on
arithmetic (the round of a probe passes each bucket once, modulo the size) and, for
the first store, on a pigeonhole argument: its keys are no more than its buckets,
so each of the first puts finds one. StoresRetiredOnce needs the chain of stores: every store but the last is
linked to the next one, at most one comes after the current store, a thread works
in the current store or an earlier one and copies to the one that follows it, and
a store is retired exactly when it was left behind, or will be by the thread that
left it. HiHatWrittenOnce is the action property behind both: the hash value of a
reserved bucket and a link are written once, and the current store never goes
back. It is also what entitles the model to take a probe at its last read.

Only model-checked:

* Liveness (WaiterServed, ExitCompletes, WriterServed, ExitEnds, WaitsEnd,
  LeavesInTheEnd): liveness under fairness and ENABLED are out of the prover's
  reach.
* Linearizable and HatsLinearizable of the other containers. In llstack every call takes effect at a
  step of its own; in hihat, and wherever threads help or copy, the step is
  another thread's, or lies in the past once the answer is known, and a view of
  hihat is several calls.
* KeysUnique and RetiredOnce of the other tables. The argument for hihat fits the
  tables of RecordHat, but each INSTANCE has its own copies of the definitions, so
  every lemma would be restated.
* RetiredOnce for records and pairs; CountAtRest, LenAtRest and ViewsWhole; of
  MemorySafe, what is not about llstack.
* SetAlgebra: the loops march through their whole input.

## 6. Where the code and what it says of itself disagree

Findings in `PROJECT.json` quote the line that says otherwise. Four are runs that
TLC ends with a counterexample:

* gil_stop: a stop returns without waiting for anybody, against gil.nc:25-34.
* condition_notify: `num_to_wake--` is tested before the decrement
  (condition.nc:162), so a notify with max = 1 and one waiter never returns, against
  condition.h:19-20 and condition.nc:256-257.
* mmm_fence: the reservation is a plain store (mmm.c:417, 427) without the fence
  that mmm.h:432-433 relies on.
* crown_map: the neighbor map is set after the hash value, and helpers do not wait
  for it (crown.c:1711-1725): a get may miss a key, against crown.c:1581-1584.

Four are shown by TLC with a property of the module put in place of the
invariants of a passing run:

* `ClearedStaysClear` (Mutex): `assert(!atomic_read(&mutex->futex))`
  (mutex.nc:164) after the word was given up; another thread may have it.
* `BitKeepsReadersOut` (RWLock): `continue` in `n00b_rw_read_lock`
  (rwlock.nc:213) lets a new reader in beside the writer, against rwlock.nc:66-68.
* `ExitReleasesReads` (ReadRecords): the exit handler (thread.nc:68-73) loses its
  place in the list and leaves read locks held, against tsi.h:27-28.
* `StopperOwnsGil` (GIL): `expected` is not reset after a failed CAS (gil.nc:86,
  96), so a stop can be taken over, against gil.nc:11-12 and the assert at 103.

The others were met while translating, and the workloads or the statement of a
property stay clear of them: hq loses or reorders items in a migration after a
wrap (hq.c:660); set difference and symmetric difference drop what lies above the
other view (set.c:605, 844; SetAlgebra states what is left); a dictionary cas
that finds another value frees an unassigned pointer (dict.c:428), and one that
expects a pair where there is none retires a null pointer (461); a third
tophat writer loses its write (tophat.c:466); an oldhat migration brings removed
keys back (oldhat.c:1397); a log ring's dequeuer may read the length of an older
message (logring.c:222). TLC showed the following ones on instances beyond the
runs' (except hatring.c:411 and logring.c:142, which are plain from the text); the
model keeps the code's behaviour:

* woolhat.c:846: a replace that serves a request to remove neither commits,
  retires nor counts out; 1036: an add that does so counts its item in; 1242,
  1245-1250: two removes claim one removal; 1204: a request on a deletion record is
  not ignored, a put there is not counted and a racing put or add is lost.
* stack.c:544 (and hq.c:536): a view claims a store that a migration has retired,
  reads it unprotected and retires it again.
* thread.nc:135: a launching thread stores the GIL bit back after the restart
  cleared it; gil.nc:125, 183: a stop or restart writes to thread state that
  an exiting thread has unmapped (thread.nc:101-111).
* mmm.c:187: two takers of free ids, once memory is reused.
* capq.c:546: top goes on with the size of the old store, looks in the wrong cell
  and may spoil it; 503: top answers an item dequeued before the call.
* hatring.c:193: overlapping enqueuers push out a younger item; 411: the bound on
  a view's items is never reached, it may write beyond its cells.
* logring.c:276: a dequeue takes a view's reservation off the entry; 388: a strict
  view without a gap, of a ring that is not full, wraps its index, frees all it has
  and runs off its cells; 554: `cell_skipped` is never set; 142: too few entries for
  a ring larger than `HATRACK_THREADS_MAX`.
* queue.c:184 (q64 alike): an enqueuer keeps the size of its first segment; in a
  later, smaller one it writes out of bounds, a larger one it leaves too early, and
  dequeuers stay there for good.

Further observations for a reader of the code, without a line of it that says
otherwise:

* witchhat.c:289, 363, 882: the MOVED flag is written in octal and overlaps the
  epoch mask, so an empty bucket that was moved counts as an item in a view or a
  get during a migration.
* hihat-a.c:860: a helper may copy an empty record into the new store as an
  initialised one, beside the inserter of that key.
* crown.c:598-608, 646 against 1749-1753: a view and a migration may both retire a
  store. woolhat.c:1191-1213: a remove may take the freeze off a bucket.
* dict.c:339: replace calls `crown_store_put`; for an absent key it inserts, frees
  what it inserted and answers false. set.c:449, 461: `is_superset` reads one past
  the view.
* lohat.c:571-576: a get answers "not found" for an uncommitted removal, which
  Linearizable accepts. oldhat.c:982-988: add does not count. tiara.c:372-379,
  565, 631-632 likewise.
* flexarray.c:318, 326: shrink never shrinks; 280-296: a grow beside a grow may be
  lost; 559-567: a set is lost when the marking of a migration, a read and an or,
  straddles it.
* stack.c:462-473: a pop that loses cell 0 to a migration answers "empty";
  507-515: peek may read outside the array.
* queue.c:198, 327: `len` may be read below zero. hatring.c:74-87: `hatring_init`
  leaves the size 0.
* logring.c:500: `view_help` returns without `mmm_end_op`; 674-677: a release that
  fails is ignored.

## 7. Limits, and what is left

Not modelled in the modules above: cancellation (`N00B_THREAD_CANCEL`,
`n00b_thread_to_cancel`); reservation and reuse of thread slots; the
suspend/resume brackets inside the locks (GIL has suspend and resume as actions
of their own, but is not composed with a lock); values passed through a condition
variable; memory orders weaker than sequential consistency, apart from MMM's
reservations; a stopper that spawns, and check-ins of a stopper whose stop was
taken over. Of hatrack: the delete and cleanup functions, which run when nobody
else uses the container; `woolhat_view_epoch`; the sort of a view; the one-key
operations of `set.c`, which pass on to woolhat; `flexarray_add`, which shares a
live store; `zeroarray.c`; `vector.c`, whose helper for set is inverted
(vector.c:1075) and whose view is disabled; `arr64.c`, which does not compile;
`gcdict.c`, which is not part of the build; counters and debug output.

Not modelled as components: the heap and the collector (raw addresses, a
conservative scan: what they do depends on the layout of memory); the lock API
(dispatch); the data types over the containers, types, text, compiler and virtual
machine (sequential data transformation); I/O, processes and start-up (system
calls); vendored code.

What can still be proved:

1. KeysUnique and RetiredOnce for hihat-a, witchhat and crown, along the argument
   for hihat, and for the tables that lock a bucket.
2. CountAtRest for hihat: the count is the number of live buckets, plus what the
   threads between their swap and their count still owe.
3. MemorySafe for HatRing, whose cells have one owner at a time, and the action
   properties behind it: epochs and versions only grow.
4. Linearizable for the containers in which each call has a step of its own:
   the tables whose writers lock, and hatring.
