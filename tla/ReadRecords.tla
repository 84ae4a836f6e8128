----------------------------- MODULE ReadRecords -----------------------------
(***************************************************************************)
(* One thread's read records (src/mt/rwlock.nc) and what its exit handler  *)
(* makes of them (src/mt/thread.nc).                                       *)
(*                                                                         *)
(* tsi->read_locks lists the records of the locks the thread reads, newest *)
(* first.  A record whose last level is given back moves to the front of   *)
(* tsi->log_alloc_cache, linked to what was there, and is taken from there *)
(* for the next lock.  Both lists are the thread's own: no other thread    *)
(* looks at them, and all that others see is the thread's share of each    *)
(* lock's reader count.                                                    *)
(***************************************************************************)
EXTENDS Integers, FiniteSets, Sequences, SequencesExt

CONSTANTS
    Locks,
    MaxNesting,  \* bound on how often the thread takes one lock over again
    MaxCalls     \* bound on how many lock calls the thread makes

ASSUME RecordsAssumption ==
    /\ IsFiniteSet(Locks)
    /\ MaxNesting \in Nat \ {0}
    /\ MaxCalls \in Nat

VARIABLES
    records,   \* tsi->read_locks: lock and nesting level of each record
    cache,     \* tsi->log_alloc_cache: the lock each record was last used for
    share,     \* lock -> what the thread has added to its reader count
    phase,     \* "run", or "walk" in the exit handler, or "gone" after it
    cursor,    \* the handler's `log': which list it is in, and its place there
    calls      \* how many more lock calls the thread will make

vars == <<records, cache, share, phase, cursor, calls>>

\* A place in the cache is counted from its end, which new arrivals at the
\* front do not move.
Cursors == [in : {"records", "cache"}, at : Nat]
AtEnd == [in |-> "cache", at |-> 0]

\* A record in read_locks has at least one level: n00b_rw_unlock takes it out
\* of the list with its last.
TypeOK ==
    /\ records \in Seq([obj : Locks, nest : 1 .. MaxNesting])
    /\ cache \in Seq(Locks)
    /\ share \in [Locks -> Int]
    /\ phase \in {"run", "walk", "gone"}
    /\ cursor \in Cursors
    /\ calls \in 0 .. MaxCalls

Init ==
    /\ records = << >>
    /\ cache = << >>
    /\ share = [l \in Locks |-> 0]
    /\ phase = "run"
    /\ cursor = AtEnd
    /\ calls = MaxCalls

\* get_read_lock_record: the place of the record for l, or 0.
PlaceOf(l) == SelectInSeq(records, LAMBDA r : r.obj = l)

\* Mutant: a record is taken from the cache and left there as well.
AddReadRecord_KeepsCached(l) ==
    /\ records' = <<[obj |-> l, nest |-> 1]>> \o records
    /\ UNCHANGED cache

\* add_read_record
AddReadRecord(l) ==
    /\ records' = <<[obj |-> l, nest |-> 1]>> \o records
    /\ cache' = IF cache = << >> THEN cache ELSE Tail(cache)

\* n00b_rw_read_lock, once the word lets the reader in.
ReadLock(l) ==
    /\ phase = "run" /\ calls > 0
    /\ \/ /\ PlaceOf(l) = 0
          /\ share' = [share EXCEPT ![l] = @ + 1]
          /\ AddReadRecord(l)
       \/ /\ PlaceOf(l) # 0 /\ records[PlaceOf(l)].nest < MaxNesting
          /\ records' = [records EXCEPT ![PlaceOf(l)].nest = @ + 1]
          /\ UNCHANGED <<share, cache>>
    /\ calls' = calls - 1
    /\ UNCHANGED <<phase, cursor>>

\* Mutant: an inner level of a nested read gives the count back.
RwUnlock_EveryLevel(l) ==
    LET p == PlaceOf(l) IN
    \/ p = 0 /\ UNCHANGED <<records, cache, share>>
    \/ /\ p # 0
       /\ share' = [share EXCEPT ![l] = @ - 1]
       /\ \/ /\ records[p].nest > 1
             /\ records' = [records EXCEPT ![p].nest = @ - 1]
             /\ UNCHANGED cache
          \/ /\ records[p].nest = 1
             /\ records' = RemoveAt(records, p)
             /\ cache' = <<l>> \o cache

\* Mutant: the level is tested after it is decremented.
RwUnlock_PreDecrement(l) ==
    LET p == PlaceOf(l) IN
    \/ p = 0 /\ UNCHANGED <<records, cache, share>>
    \/ /\ p # 0 /\ records[p].nest > 0
       /\ records' = [records EXCEPT ![p].nest = @ - 1]
       /\ UNCHANGED <<cache, share>>
    \/ /\ p # 0 /\ records[p].nest = 0
       /\ records' = RemoveAt(records, p)
       /\ cache' = <<l>> \o cache
       /\ share' = [share EXCEPT ![l] = @ - 1]

\* n00b_rw_unlock by a reader.  Without a record it does nothing.
RwUnlock(l) ==
    LET p == PlaceOf(l) IN
    \/ p = 0 /\ UNCHANGED <<records, cache, share>>
    \/ /\ p # 0 /\ records[p].nest > 1
       /\ records' = [records EXCEPT ![p].nest = @ - 1]
       /\ UNCHANGED <<cache, share>>
    \/ /\ p # 0 /\ records[p].nest = 1
       /\ records' = RemoveAt(records, p)
       /\ cache' = <<l>> \o cache
       /\ share' = [share EXCEPT ![l] = @ - 1]

Unlock(l) ==
    /\ phase = "run"
    /\ RwUnlock(l)
    /\ UNCHANGED <<phase, cursor, calls>>

-----------------------------------------------------------------------------
(* n00b_release_locks_on_thread_exit, its second loop.                     *)

\* log = tsi->read_locks
BeginExit ==
    /\ phase = "run"
    /\ phase' = "walk"
    /\ cursor' = IF records = << >> THEN AtEnd ELSE [in |-> "records", at |-> 1]
    /\ UNCHANGED <<records, cache, share, calls>>

\* The lock `log' is about: of a cached record, the one it was last used for.
CursorLock ==
    IF cursor.in = "records" THEN records[cursor.at].obj
    ELSE cache[Len(cache) - cursor.at + 1]

\* The record goes back to the cache if this is its last level.
Retires == cursor.in = "records" /\ records[cursor.at].nest = 1

\* Mutant: the handler goes back to the head of the list it is in.
Follow_Head ==
    CASE cursor.in = "cache" -> [cursor EXCEPT !.at = Len(cache)]
      [] Retires -> [in |-> "cache", at |-> Len(cache)]
      [] OTHER -> IF cursor.at = Len(records) THEN AtEnd
                  ELSE [cursor EXCEPT !.at = @ + 1]

\* log = log->next_entry, once n00b_lock_release has dealt with log->obj.  A
\* record that went back to the cache is followed by those cached before it.
Follow ==
    CASE cursor.in = "cache" -> [cursor EXCEPT !.at = @ - 1]
      [] Retires -> [in |-> "cache", at |-> Len(cache)]
      [] OTHER -> IF cursor.at = Len(records) THEN AtEnd
                  ELSE [cursor EXCEPT !.at = @ + 1]

ExitStep ==
    /\ phase = "walk" /\ cursor # AtEnd
    /\ RwUnlock(CursorLock)
    /\ cursor' = Follow
    /\ UNCHANGED <<phase, calls>>

EndExit ==
    /\ phase = "walk" /\ cursor = AtEnd
    /\ phase' = "gone"
    /\ UNCHANGED <<records, cache, share, cursor, calls>>

Next ==
    \/ \E l \in Locks : ReadLock(l) \/ Unlock(l)
    \/ BeginExit \/ ExitStep \/ EndExit
    \/ phase = "gone" /\ UNCHANGED vars

Spec == Init /\ [][Next]_vars

\* The exit handler is not interrupted; user code may run for ever.
FairSpec == Spec /\ WF_vars(ExitStep) /\ WF_vars(EndExit)

-----------------------------------------------------------------------------
(* Properties.                                                             *)

\* A lock's reader count holds the thread's share exactly while the thread
\* has a record of it, and never twice: a lost or doubled record would lock
\* writers out for ever, or let them in beside a reader.
ShareIsRecorded ==
    \A l \in Locks :
        share[l] = Cardinality({p \in 1 .. Len(records) : records[p].obj = l})

\* The two lists never hold more records than there are locks to read:
\* records are reused, never in both lists at once.
RecordsReused == Len(records) + Len(cache) <= Cardinality(Locks)

\* The walk over read_locks ends, although it strays into the cache.
ExitEnds == phase = "walk" ~> phase = "gone"

\* "These two are used to ensure we can clean up lock state to be
\* consistent, when a thread exits while holding locks" (tsi.h:27-28): once
\* the exit handler is done the thread counts as a reader of nothing.
ExitReleasesReads == phase = "gone" => \A l \in Locks : share[l] = 0
=============================================================================
