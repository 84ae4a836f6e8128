--------------------------------- MODULE MMM ---------------------------------
(***************************************************************************)
(* The memory manager of the lock-free containers.  An operation reserves  *)
(* the epoch it starts in; a record that is unlinked is retired with the   *)
(* epoch of that moment, and freed once no reservation is that old.        *)
(*                                                                         *)
(* The client is one bucket of a linearized table: a pointer to the newest *)
(* of a chain of records.  A writer puts a record in front and retires the *)
(* one it replaced; a reader wants the record of the epoch it began in.    *)
(*                                                                         *)
(* The slots of the reservations array are plain memory.  With Delayed a   *)
(* store to a slot may become visible after the loads that follow it, as   *)
(* on the processors the library is built for; without it the thread waits *)
(* until its store is visible.                                             *)
(*                                                                         *)
(* A pointer is the number of the record it was obtained for.  Memory that *)
(* is freed may be given out again: two records then have one address.  A  *)
(* compare-and-swap compares addresses, and who follows a pointer finds    *)
(* the last record allocated there.                                        *)
(***************************************************************************)
EXTENDS Integers, Sequences, FiniteSets, FiniteSetsExt

CONSTANTS
  Threads,
  Casts,        \* the sets of threads that run together
  MaxTids,      \* HATRACK_THREADS_MAX
  RetireFreq,   \* HATRACK_RETIRE_FREQ: a thread scans when it retired so many
  Writers,      \* the threads that write
  Readers,      \* the threads that read
  MaxOps,       \* bound: operations of one thread
  MaxRecords,   \* bound: records allocated
  Delayed       \* may the thread go on before its store is visible?

ASSUME MMMAssumption ==
  /\ MaxTids \in Nat \ {0}
  /\ RetireFreq \in Nat \ {0}
  /\ MaxOps \in Nat
  /\ Writers \subseteq Threads /\ Readers \subseteq Threads
  /\ \A cast \in Casts : cast \subseteq Threads
  /\ MaxRecords \in Nat \ {0}
  /\ Delayed \in BOOLEAN

VARIABLES
  epoch,         \* mmm_epoch
  nexttid,       \* mmm_nexttid
  reservations,  \* mmm_reservations; 0 before its first owner has set it
  rec,           \* the records allocated so far, in order, with their headers
  freeTids,      \* mmm_free_tids: the first node, or 0
  root,          \* the client's bucket: its newest record
  th             \* what each thread is doing

vars == <<epoch, nexttid, reservations, rec, freeTids, root, th>>

Unreserved == 10 * (MaxRecords + MaxOps)   \* HATRACK_EPOCH_UNRESERVED and HATRACK_EPOCH_MAX
NotPending == 0                            \* no value that is stored in a slot

\* mmm_alloc: a record nobody knows of.  next is the record it replaces (for a free
\* tid the node below it); write and retire are its epochs, 0 when not set.
Fresh(next, tid, addr) ==
  [next |-> next, tid |-> tid, write |-> 0, retire |-> 0, freed |-> 0, addr |-> addr]

\* The addresses malloc may answer: memory never used before, or freed since.
Addresses ==
  (1..(Len(rec) + 1)) \ {rec[x].addr : x \in {y \in DOMAIN rec : rec[y].freed = 0}}

Addr(x) == IF x = 0 THEN 0 ELSE rec[x].addr

\* What is in the memory that pointer x points to.
Mem(x) == Max({y \in DOMAIN rec : rec[y].addr = rec[x].addr})

\* mmm_thread_t, and the local variables of the functions the thread is in.
Thread ==
  [pc |-> "new", tid |-> 0, list |-> <<>>, ctr |-> 0, pending |-> NotPending,
   ops |-> 0, op |-> "none", at |-> 0, saw |-> 0, hold |-> 0, below |-> 0, own |-> 0, victim |-> 0,
   i |-> 0, last |-> 0, lowest |-> Unreserved, back |-> "none", then |-> "none"]

Init ==
  /\ epoch = 2 /\ nexttid = 0 /\ freeTids = 0 /\ root = 1
  /\ reservations = [n \in 0..(MaxTids - 1) |-> 0]
  /\ rec = <<[Fresh(0, 0, 1) EXCEPT !.write = 2]>>
  /\ \E cast \in Casts : th = [t \in Threads |-> IF t \in cast THEN Thread ELSE [Thread EXCEPT !.pc = "gone"]]
-----------------------------------------------------------------------------
\* May thread t go on?  A read-modify-write always waits for the thread's store.
Drained(t) == th[t].pending = NotPending
At(t, pc) == th[t].pc = pc /\ (Delayed \/ Drained(t))
Set(t, new) == th' = [th EXCEPT ![t] = new]
Goto(t, pc) == Set(t, [th[t] EXCEPT !.pc = pc])

\* A plain store to the thread's own slot, and the moment it becomes visible.
Store(t, value, new) == Set(t, [new EXCEPT !.pending = value])

Flush(t) ==
  /\ ~Drained(t)
  /\ reservations' = [reservations EXCEPT ![th[t].tid] = th[t].pending]
  /\ Set(t, [th[t] EXCEPT !.pending = NotPending])
  /\ UNCHANGED <<epoch, nexttid, rec, freeTids, root>>

\* What thread t reads in a slot.
Slot(t, n) == IF n = th[t].tid /\ ~Drained(t) THEN th[t].pending ELSE reservations[n]
-----------------------------------------------------------------------------
(* mmm_thread_acquire: a new tid, or when they are used up one that was    *)
(* given back.  Without one the process ends.                              *)

\* Mutant: the next tid is read, and stored one step later.
NewTid_ReadThenStore(t) ==
  /\ \/ /\ At(t, "new")
        /\ Set(t, [th[t] EXCEPT !.pc = "count", !.tid = nexttid])
        /\ UNCHANGED nexttid
     \/ /\ At(t, "count")
        /\ nexttid' = th[t].tid + 1
        /\ Goto(t, IF th[t].tid < MaxTids THEN "slot" ELSE "head")
  /\ UNCHANGED <<epoch, reservations, rec, freeTids, root>>

NewTid(t) ==
  /\ At(t, "new")
  /\ nexttid' = nexttid + 1
  /\ \/ nexttid < MaxTids /\ Set(t, [th[t] EXCEPT !.pc = "slot", !.tid = nexttid])
     \/ nexttid >= MaxTids /\ Goto(t, "head")
  /\ UNCHANGED <<epoch, reservations, rec, freeTids, root>>

\* head is loaded, at first and whenever the swap fails
LoadHead(t) ==
  /\ At(t, "head") \/ (At(t, "take") /\ Drained(t) /\ Addr(freeTids) # Addr(th[t].hold))
  /\ Set(t, [th[t] EXCEPT !.pc = IF freeTids = 0 THEN "panic" ELSE "pop", !.hold = freeTids])
  /\ UNCHANGED <<epoch, nexttid, reservations, rec, freeTids, root>>

\* head->next, read without a reservation ...
ReadBelow(t) ==
  /\ At(t, "pop")
  /\ Set(t, [th[t] EXCEPT !.pc = "take", !.below = rec[Mem(th[t].hold)].next])
  /\ UNCHANGED <<epoch, nexttid, reservations, rec, freeTids, root>>

\* ... becomes the new head, if the head has the old address.
PopTid(t) ==
  /\ At(t, "take") /\ Drained(t) /\ Addr(freeTids) = Addr(th[t].hold)
  /\ freeTids' = th[t].below
  /\ Set(t, [th[t] EXCEPT !.pc = "retire", !.hold = 0, !.below = 0, !.victim = freeTids,
                          !.tid = rec[freeTids].tid, !.back = "slot"])
  /\ UNCHANGED <<epoch, nexttid, reservations, rec, root>>

ClearSlot(t) ==
  /\ At(t, "slot")
  /\ Store(t, Unreserved, [th[t] EXCEPT !.pc = "ready"])
  /\ UNCHANGED <<epoch, nexttid, reservations, rec, freeTids, root>>

Acquire(t) == NewTid(t) \/ LoadHead(t) \/ ReadBelow(t) \/ PopTid(t) \/ ClearSlot(t)
-----------------------------------------------------------------------------
(* mmm_start_basic_op (for writers), mmm_start_linearized_op (for readers) *)

Begin(t) ==
  /\ At(t, "ready") /\ th[t].ops < MaxOps
  /\ \E op \in {"read", "write"} :
       /\ t \in IF op = "read" THEN Readers ELSE Writers
       /\ Set(t, [th[t] EXCEPT !.pc = "reserve", !.op = op, !.ops = @ + 1, !.saw = epoch])
  /\ UNCHANGED <<epoch, nexttid, reservations, rec, freeTids, root>>

Reserve(t) ==
  /\ At(t, "reserve")
  /\ Store(t, th[t].saw, [th[t] EXCEPT !.pc = IF th[t].op = "read" THEN "again" ELSE "root"])
  /\ UNCHANGED <<epoch, nexttid, reservations, rec, freeTids, root>>

ReadEpoch(t) ==
  /\ At(t, "again")
  /\ Set(t, [th[t] EXCEPT !.pc = "root", !.at = epoch])
  /\ UNCHANGED <<epoch, nexttid, reservations, rec, freeTids, root>>

StartOp(t) == Begin(t) \/ Reserve(t) \/ ReadEpoch(t)

\* mmm_end_op
EndOp(t) ==
  /\ At(t, "end")
  /\ Store(t, Unreserved, [th[t] EXCEPT !.pc = "ready", !.hold = 0])
  /\ UNCHANGED <<epoch, nexttid, reservations, rec, freeTids, root>>
-----------------------------------------------------------------------------
(* mmm_help_commit of the record held, and mmm_commit_write of the         *)
(* thread's own: a new epoch, and the first to store one in the record     *)
(* counts.                                                                 *)

Target(t) == IF th[t].pc = "helped" THEN th[t].hold ELSE th[t].own

SeeEpoch(t) ==
  /\ At(t, "see")
  /\ Goto(t, IF rec[Mem(th[t].hold)].write = 0 THEN "help" ELSE th[t].then)
  /\ UNCHANGED <<epoch, nexttid, reservations, rec, freeTids, root>>

NewEpoch(t) ==
  /\ th[t].pc \in {"help", "commit"} /\ Drained(t)
  /\ epoch' = epoch + 1
  /\ Set(t, [th[t] EXCEPT !.pc = IF th[t].pc = "help" THEN "helped" ELSE "committed", !.saw = epoch + 1])
  /\ UNCHANGED <<nexttid, reservations, rec, freeTids, root>>

StoreEpoch(t) ==
  /\ th[t].pc \in {"helped", "committed"} /\ Drained(t)
  /\ rec' = [rec EXCEPT ![Mem(Target(t))].write = IF @ = 0 THEN th[t].saw ELSE @]
  /\ Goto(t, IF th[t].pc = "helped" THEN th[t].then ELSE "retire")
  /\ UNCHANGED <<epoch, nexttid, reservations, freeTids, root>>

Commit(t) == SeeEpoch(t) \/ NewEpoch(t) \/ StoreEpoch(t)
-----------------------------------------------------------------------------
(* The client.                                                             *)

\* Mutant: the reader does not help to commit the newest record.
LoadRoot_NoHelp(t) ==
  /\ At(t, "root")
  /\ Set(t, [th[t] EXCEPT !.pc = IF th[t].op = "read" THEN "older" ELSE "see", !.hold = root, !.then = "link"])
  /\ UNCHANGED <<epoch, nexttid, reservations, rec, freeTids, root>>

\* The newest record, to be committed if it is not.
LoadRoot(t) ==
  /\ At(t, "root")
  /\ Set(t, [th[t] EXCEPT !.pc = "see", !.hold = root, !.then = IF th[t].op = "read" THEN "older" ELSE "link"])
  /\ UNCHANGED <<epoch, nexttid, reservations, rec, freeTids, root>>

\* A view of the bucket goes back from there to a record that is not newer than the
\* reader's epoch (lohat_view_mmm).
Accept(t) ==
  /\ At(t, "older") /\ rec[Mem(th[t].hold)].write <= th[t].at
  /\ Goto(t, "found")
  /\ UNCHANGED <<epoch, nexttid, reservations, rec, freeTids, root>>

Older(t) ==
  /\ At(t, "older") /\ rec[Mem(th[t].hold)].write > th[t].at
  /\ Set(t, [th[t] EXCEPT !.hold = rec[Mem(th[t].hold)].next])
  /\ UNCHANGED <<epoch, nexttid, reservations, rec, freeTids, root>>

EndView(t) ==
  /\ At(t, "found")
  /\ Goto(t, "end")
  /\ UNCHANGED <<epoch, nexttid, reservations, rec, freeTids, root>>

Read(t) == Accept(t) \/ Older(t) \/ EndView(t)

\* A put (lohat_store_put): the new record in front of the newest, committed, and the
\* one it replaced retired.
Link(t) ==
  /\ At(t, "link") /\ Len(rec) < MaxRecords
  /\ \E a \in Addresses : rec' = Append(rec, Fresh(th[t].hold, 0, a))
  /\ Set(t, [th[t] EXCEPT !.pc = "swap", !.own = Len(rec) + 1])
  /\ UNCHANGED <<epoch, nexttid, reservations, freeTids, root>>

SwapRoot(t) ==
  /\ At(t, "swap") /\ Drained(t) /\ Addr(root) = Addr(th[t].hold)
  /\ root' = th[t].own
  /\ Set(t, [th[t] EXCEPT !.pc = "commit", !.victim = root, !.back = "end"])
  /\ UNCHANGED <<epoch, nexttid, reservations, rec, freeTids>>

\* A record that did not get in is freed at once (mmm_retire_unused).
LoseRoot(t) ==
  /\ At(t, "swap") /\ Drained(t) /\ Addr(root) # Addr(th[t].hold)
  /\ rec' = [rec EXCEPT ![th[t].own].freed = @ + 1]
  /\ Goto(t, "end")
  /\ UNCHANGED <<epoch, nexttid, reservations, freeTids, root>>

Write(t) == Link(t) \/ SwapRoot(t) \/ LoseRoot(t)
-----------------------------------------------------------------------------
\* mmm_retire
Retire(t) ==
  /\ At(t, "retire")
  /\ rec' = [rec EXCEPT ![th[t].victim].retire = epoch]
  /\ Set(t, [th[t] EXCEPT !.list = <<th[t].victim>> \o @, !.victim = 0,
                          !.ctr = (@ + 1) % RetireFreq,
                          !.pc = IF th[t].ctr + 1 = RetireFreq THEN "scan" ELSE th[t].back])
  /\ UNCHANGED <<epoch, nexttid, reservations, freeTids, root>>

(* mmm_empty: the oldest reservation; everything from the first cell of    *)
(* the list that was retired before it is freed.                           *)

\* Mutant: the slot of the newest thread is not looked at.
BeginScan_SkipsLast(t) ==
  /\ At(t, "scan")
  /\ Set(t, [th[t] EXCEPT !.pc = "slots", !.i = 0, !.last = Min({nexttid, MaxTids}) - 1, !.lowest = Unreserved])
  /\ UNCHANGED <<epoch, nexttid, reservations, rec, freeTids, root>>

BeginScan(t) ==
  /\ At(t, "scan")
  /\ Set(t, [th[t] EXCEPT !.pc = "slots", !.i = 0, !.last = Min({nexttid, MaxTids}), !.lowest = Unreserved])
  /\ UNCHANGED <<epoch, nexttid, reservations, rec, freeTids, root>>

ScanSlot(t) ==
  /\ At(t, "slots") /\ th[t].i < th[t].last
  /\ Set(t, [th[t] EXCEPT !.i = @ + 1, !.lowest = Min({@, Slot(t, th[t].i)})])
  /\ UNCHANGED <<epoch, nexttid, reservations, rec, freeTids, root>>

\* How many cells of t's list stay: those in front of the first that is old enough.
Kept(t) ==
  LET old == {n \in DOMAIN th[t].list : rec[th[t].list[n]].retire < th[t].lowest}
  IN IF old = {} THEN Len(th[t].list) ELSE Min(old) - 1

Gone(t) == {th[t].list[n] : n \in (Kept(t) + 1)..Len(th[t].list)}

\* Mutant: the cells freed stay in the list.
FreeOld_KeepsList(t) ==
  /\ At(t, "slots") /\ th[t].i = th[t].last
  /\ rec' = [x \in DOMAIN rec |-> IF x \in Gone(t) THEN [rec[x] EXCEPT !.freed = @ + 1] ELSE rec[x]]
  /\ Goto(t, th[t].back)
  /\ UNCHANGED <<epoch, nexttid, reservations, freeTids, root>>

FreeOld(t) ==
  /\ At(t, "slots") /\ th[t].i = th[t].last
  /\ rec' = [x \in DOMAIN rec |-> IF x \in Gone(t) THEN [rec[x] EXCEPT !.freed = @ + 1] ELSE rec[x]]
  /\ Set(t, [th[t] EXCEPT !.list = SubSeq(@, 1, Kept(t)), !.pc = th[t].back])
  /\ UNCHANGED <<epoch, nexttid, reservations, freeTids, root>>

Empty(t) == BeginScan(t) \/ ScanSlot(t) \/ FreeOld(t)
-----------------------------------------------------------------------------
(* mmm_thread_release: the thread scans until all it retired is freed, and *)
(* gives its tid back (mmm_tid_giveback).                                  *)

Leave(t) ==
  /\ At(t, "ready")
  /\ Store(t, Unreserved, [th[t] EXCEPT !.pc = "leave", !.back = "leave"])
  /\ UNCHANGED <<epoch, nexttid, reservations, rec, freeTids, root>>

\* Mutant: a thread that leaves waits for its list to empty, but does not scan.
LeaveScan_Waits(t) ==
  /\ At(t, "leave") /\ th[t].list # <<>>
  /\ UNCHANGED vars

LeaveScan(t) ==
  /\ At(t, "leave") /\ th[t].list # <<>>
  /\ Goto(t, "scan")
  /\ UNCHANGED <<epoch, nexttid, reservations, rec, freeTids, root>>

NewNode(t) ==
  /\ At(t, "leave") /\ th[t].list = <<>> /\ Len(rec) < MaxRecords
  /\ \E a \in Addresses : rec' = Append(rec, Fresh(freeTids, th[t].tid, a))
  /\ Set(t, [th[t] EXCEPT !.pc = "give", !.own = Len(rec) + 1])
  /\ UNCHANGED <<epoch, nexttid, reservations, freeTids, root>>

\* The head has the address that the new node points to, be it another node by now.
GiveTid(t) ==
  /\ At(t, "give") /\ Drained(t) /\ Addr(freeTids) = Addr(rec[th[t].own].next)
  /\ freeTids' = th[t].own
  /\ rec' = [rec EXCEPT ![th[t].own].next = freeTids]
  /\ Set(t, [th[t] EXCEPT !.pc = "gone", !.own = 0])
  /\ UNCHANGED <<epoch, nexttid, reservations, root>>

RetryGive(t) ==
  /\ At(t, "give") /\ Drained(t) /\ Addr(freeTids) # Addr(rec[th[t].own].next)
  /\ rec' = [rec EXCEPT ![th[t].own].next = freeTids]
  /\ UNCHANGED <<epoch, nexttid, reservations, freeTids, root, th>>

Release(t) == Leave(t) \/ LeaveScan(t) \/ NewNode(t) \/ GiveTid(t) \/ RetryGive(t)
-----------------------------------------------------------------------------
\* A thread that panicked takes no further step; the end of the process only cuts the
\* others short.
Step(t) ==
  \/ Acquire(t) \/ StartOp(t) \/ EndOp(t) \/ Commit(t) \/ LoadRoot(t) \/ Read(t) \/ Write(t)
  \/ Retire(t) \/ Empty(t) \/ Release(t)

Finished == \A t \in Threads : th[t].pc \in {"gone", "panic"} /\ Drained(t)

Next == (\E t \in Threads : Step(t) \/ Flush(t)) \/ (Finished /\ UNCHANGED vars)

\* Every thread keeps being scheduled, and a store becomes visible in the end.
Spec == Init /\ [][Next]_vars /\ \A t \in Threads : WF_vars(Step(t)) /\ WF_vars(Flush(t))
-----------------------------------------------------------------------------
\* The list of free tids is popped without a reservation, which the memory manager
\* gives no protection for: what follows is promised for as long as at most one
\* thread has found the tids used up.
OneTaker == nexttid <= MaxTids + 1

\* No thread works with a record that has been freed, or given out again: what an
\* operation can still reach was retired in its reserved epoch or later, and
\* mmm_empty leaves that alone.
NoUseAfterFree ==
  OneTaker => \A t \in Threads : th[t].hold # 0 => rec[th[t].hold].freed = 0

\* Nothing is freed twice, nor while the bucket or the list of free tids points to it.
FreedOnce ==
  OneTaker =>
    /\ \A x \in DOMAIN rec : rec[x].freed <= 1
    /\ rec[root].freed = 0
    /\ freeTids # 0 => rec[freeTids].freed = 0

\* A linearized reader finds the record that was the newest in the epoch it read,
\* however late the writers before it commit.
ReadsItsEpoch ==
  OneTaker => \A t \in Threads : At(t, "found") =>
    LET found == rec[th[t].hold].write IN
    /\ found # 0 /\ found <= th[t].at
    /\ \A x \in DOMAIN rec : rec[x].write <= th[t].at => rec[x].write <= found

\* Two threads that may reserve have slots of their own, also when a tid has been
\* given back, taken and given back again while others looked at the list.
SlotsApart ==
  LET Owners == {t \in Threads : th[t].pc \notin {"new", "head", "pop", "take", "gone", "panic"}}
  IN OneTaker => \A t, u \in Owners : t # u => th[t].tid # th[u].tid

\* A thread that leaves gets rid of everything it retired, whatever the others do.
LeavesInTheEnd == \A t \in Threads : At(t, "leave") ~> At(t, "gone")
=============================================================================
