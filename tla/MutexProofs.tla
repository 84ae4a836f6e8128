----------------------------- MODULE MutexProofs -----------------------------
(***************************************************************************)
(* Proofs about Mutex, for any number of threads, locks, spins, levels and *)
(* calls.                                                                  *)
(***************************************************************************)
EXTENDS Mutex, LockAccountingProofs, FiniteSetTheorems

\* The label of a thread that is between a call's first and last step.
Busy == {"spin", "slow", "poll", "grab", "won", "account", "clear", "check"}

\* A call in progress is about some lock.
TargetKnown == \A t \in Threads : pc[t] \in Busy => target[t] \in Locks

\* While a thread is inside without its name in the data word, nobody's
\* name is there.
DataVacant ==
    \A t \in Threads :
        pc[t] \in {"won", "account", "clear"} => data[target[t]].owner = NoOwner

\* The inductive invariant.
IInv ==
    /\ TypeOK
    /\ TargetKnown
    /\ NestingMatchesOwner
    /\ ListLinked
    /\ Acyclic
    /\ DataVacant
    /\ MutualExclusion
    /\ FutexMeansInside

\* What a step does to who is inside: nothing, or one thread enters a
\* lock, or a lock is left.
SameInside == \A u \in Threads, k \in Locks : Inside(u, k)' <=> Inside(u, k)

Enters(t, l) ==
    \A u \in Threads, k \in Locks :
        Inside(u, k)' <=> Inside(u, k) \/ (u = t /\ k = l)

Leaves(l) ==
    \A u \in Threads, k \in Locks : Inside(u, k)' <=> Inside(u, k) /\ k # l

USE AccountingAssumption, MutexAssumption

\* n00b_mutex_init establishes the invariant.
LEMMA InitIInv == Init => IInv
<1> SUFFICES ASSUME Init PROVE IInv
  OBVIOUS
<1>1. TypeOK /\ TargetKnown /\ NestingMatchesOwner /\ ListLinked
  BY DEF Init, AcctInit, TypeOK, AcctTypeOK, TargetKnown, Busy, NestingMatchesOwner,
         ListLinked, PCs, Fatality
<1>2. Acyclic
  <2> DEFINE flat == [k \in Locks |-> 0]
  <2>1. flat \in [Locks -> Nat] /\ \A k \in Locks : nextLock[k] = Null
    BY DEF Init, AcctInit
  <2> HIDE DEF flat
  <2> QED BY <2>1 DEF Acyclic
<1>3. /\ \A t \in Threads : pc[t] = "idle"
      /\ \A l \in Locks : futex[l] = 0 /\ \A t \in Threads : ~Owns(t, l)
  BY DEF Init, AcctInit, Owns
<1>4. DataVacant /\ MutualExclusion
  BY <1>3 DEF DataVacant, MutualExclusion, Inside
<1>5. FutexMeansInside
  BY <1>3 DEF Init, FutexMeansInside, Inside
<1> QED BY <1>1, <1>2, <1>4, <1>5 DEF IInv

-----------------------------------------------------------------------------
(* A step that leaves the bookkeeping alone.                               *)

\* What the bookkeeping promises depends on the bookkeeping only.
LEMMA UnchangedAcct ==
    ASSUME IInv, UNCHANGED acctVars
    PROVE  /\ AcctTypeOK' /\ NestingMatchesOwner' /\ ListLinked' /\ Acyclic'
           /\ data' = data
  BY DEF IInv, TypeOK, AcctTypeOK, acctVars, NestingMatchesOwner, ListLinked,
         Acyclic, Owns

\* Entering n00b_mutex_lock or n00b_mutex_try_lock.
LEMMA LockCallStep ==
    ASSUME IInv, NEW t \in Threads, NEW l \in Locks, NEW try \in BOOLEAN, LockCall(t, l, try)
    PROVE  IInv' /\ SameInside
<1> USE DEF IInv, LockCall, Goto
<1>1. AcctTypeOK' /\ NestingMatchesOwner' /\ ListLinked' /\ Acyclic' /\ data' = data
  BY UnchangedAcct
<1>2. TypeOK' /\ TargetKnown'
  BY <1>1 DEF TypeOK, TargetKnown, Busy, PCs
<1>3. \A u \in Threads, k \in Locks : Inside(u, k)' <=> Inside(u, k)
  BY <1>1 DEF Inside, Owns, TypeOK
<1>4. DataVacant' /\ MutualExclusion' /\ FutexMeansInside'
  BY <1>1, <1>3 DEF DataVacant, MutualExclusion, FutexMeansInside, TypeOK
<1> QED BY <1>1, <1>2, <1>3, <1>4 DEF SameInside

\* Counting oneself into should_wake.
LEMMA BeginWaitStep ==
    ASSUME IInv, NEW t \in Threads, BeginWait(t)
    PROVE  IInv' /\ SameInside
<1> USE DEF IInv, BeginWait, Goto
<1>1. AcctTypeOK' /\ NestingMatchesOwner' /\ ListLinked' /\ Acyclic' /\ data' = data
  BY UnchangedAcct
<1>2. TypeOK' /\ TargetKnown'
  BY <1>1 DEF TypeOK, TargetKnown, Busy, PCs
<1>3. \A u \in Threads, k \in Locks : Inside(u, k)' <=> Inside(u, k)
  BY <1>1 DEF Inside, Owns, TypeOK
<1>4. DataVacant' /\ MutualExclusion' /\ FutexMeansInside'
  BY <1>1, <1>3 DEF DataVacant, MutualExclusion, FutexMeansInside, TypeOK
<1> QED BY <1>1, <1>2, <1>3, <1>4 DEF SameInside

\* The futex wait returns.
LEMMA PollStep ==
    ASSUME IInv, NEW t \in Threads, Poll(t)
    PROVE  IInv' /\ SameInside
<1> USE DEF IInv, Poll, Goto
<1>1. AcctTypeOK' /\ NestingMatchesOwner' /\ ListLinked' /\ Acyclic' /\ data' = data
  BY UnchangedAcct
<1>2. TypeOK' /\ TargetKnown'
  BY <1>1 DEF TypeOK, TargetKnown, Busy, PCs
<1>3. \A u \in Threads, k \in Locks : Inside(u, k)' <=> Inside(u, k)
  BY <1>1 DEF Inside, Owns, TypeOK
<1>4. DataVacant' /\ MutualExclusion' /\ FutexMeansInside'
  BY <1>1, <1>3 DEF DataVacant, MutualExclusion, FutexMeansInside, TypeOK
<1> QED BY <1>1, <1>2, <1>3, <1>4 DEF SameInside

\* Counting oneself out of should_wake, already inside.
LEMMA EndWaitStep ==
    ASSUME IInv, NEW t \in Threads, EndWait(t)
    PROVE  IInv' /\ SameInside
<1> USE DEF IInv, EndWait, Goto
<1>1. AcctTypeOK' /\ NestingMatchesOwner' /\ ListLinked' /\ Acyclic' /\ data' = data
  BY UnchangedAcct
<1>2. TypeOK' /\ TargetKnown'
  BY <1>1 DEF TypeOK, TargetKnown, Busy, PCs
<1>3. \A u \in Threads, k \in Locks : Inside(u, k)' <=> Inside(u, k)
  BY <1>1 DEF Inside, Owns, TypeOK
<1>4. DataVacant' /\ MutualExclusion' /\ FutexMeansInside'
  BY <1>1, <1>3 DEF DataVacant, MutualExclusion, FutexMeansInside, TypeOK
<1> QED BY <1>1, <1>2, <1>3, <1>4 DEF SameInside

\* The thread begins to exit.
LEMMA ExitThreadStep ==
    ASSUME IInv, NEW t \in Threads, ExitThread(t)
    PROVE  IInv' /\ SameInside
<1> USE DEF IInv, ExitThread, Goto
<1>1. AcctTypeOK' /\ NestingMatchesOwner' /\ ListLinked' /\ Acyclic' /\ data' = data
  BY UnchangedAcct
<1>2. TypeOK' /\ TargetKnown'
  BY <1>1 DEF TypeOK, TargetKnown, Busy, PCs
<1>3. \A u \in Threads, k \in Locks : Inside(u, k)' <=> Inside(u, k)
  BY <1>1 DEF Inside, Owns, TypeOK
<1>4. DataVacant' /\ MutualExclusion' /\ FutexMeansInside'
  BY <1>1, <1>3 DEF DataVacant, MutualExclusion, FutexMeansInside, TypeOK
<1> QED BY <1>1, <1>2, <1>3, <1>4 DEF SameInside

(* The two places where a thread may win the futex word.                   *)

\* A round of spin_phase: the thread enters if the word was 0.
LEMMA SpinStep ==
    ASSUME IInv, NEW t \in Threads, Spin(t)
    PROVE  IInv' /\ IF futex[target[t]] = 0
                     THEN Enters(t, target[t]) ELSE SameInside
<1> USE DEF IInv, Spin, Goto
<1> DEFINE l == target[t]
<1>1. AcctTypeOK' /\ NestingMatchesOwner' /\ ListLinked' /\ Acyclic' /\ data' = data
  BY UnchangedAcct
<1>2. l \in Locks /\ futex' = [futex EXCEPT ![l] = 1]
  BY DEF TargetKnown, Busy, FetchOr
<1>3. TypeOK' /\ TargetKnown'
  BY <1>1, <1>2 DEF TypeOK, TargetKnown, Busy, PCs
<1>4. CASE futex[l] = 0
  <2>1. \A u \in Threads : ~Inside(u, l)
    BY <1>2, <1>4 DEF FutexMeansInside
  <2>2. \A u \in Threads, k \in Locks :
          Inside(u, k)' <=> Inside(u, k) \/ (u = t /\ k = l)
    BY <1>1, <1>2, <1>4 DEF Inside, Owns, TypeOK
  <2>3. data[l].owner = NoOwner
    BY <1>2, <2>1 DEF Inside, Owns, TypeOK, AcctTypeOK
  <2>4. DataVacant'
    BY <1>1, <1>4, <2>3 DEF DataVacant, TypeOK
  <2>5. MutualExclusion' /\ FutexMeansInside'
    BY <1>2, <1>4, <2>1, <2>2 DEF MutualExclusion, FutexMeansInside, TypeOK
  <2> QED BY <1>1, <1>3, <1>4, <2>2, <2>4, <2>5 DEF Enters
<1>5. CASE futex[l] # 0
  <2>1. futex' = futex
    BY <1>2, <1>5 DEF TypeOK
  <2>2. \A u \in Threads, k \in Locks : Inside(u, k)' <=> Inside(u, k)
    BY <1>1, <1>5 DEF Inside, Owns, TypeOK
  <2>3. DataVacant' /\ MutualExclusion' /\ FutexMeansInside'
    BY <1>1, <1>5, <2>1, <2>2 DEF DataVacant, MutualExclusion, FutexMeansInside, TypeOK
  <2> QED BY <1>1, <1>3, <1>5, <2>2, <2>3 DEF SameInside
<1> QED BY <1>4, <1>5

\* The slow path's fetch-or: the thread enters if the word was 0.
LEMMA GrabStep ==
    ASSUME IInv, NEW t \in Threads, Grab(t)
    PROVE  IInv' /\ IF futex[target[t]] = 0
                     THEN Enters(t, target[t]) ELSE SameInside
<1> USE DEF IInv, Grab, Goto
<1> DEFINE l == target[t]
<1>1. AcctTypeOK' /\ NestingMatchesOwner' /\ ListLinked' /\ Acyclic' /\ data' = data
  BY UnchangedAcct
<1>2. l \in Locks /\ futex' = [futex EXCEPT ![l] = 1]
  BY DEF TargetKnown, Busy, FetchOr
<1>3. TypeOK' /\ TargetKnown'
  BY <1>1, <1>2 DEF TypeOK, TargetKnown, Busy, PCs
<1>4. CASE futex[l] = 0
  <2>1. \A u \in Threads : ~Inside(u, l)
    BY <1>2, <1>4 DEF FutexMeansInside
  <2>2. \A u \in Threads, k \in Locks :
          Inside(u, k)' <=> Inside(u, k) \/ (u = t /\ k = l)
    BY <1>1, <1>2, <1>4 DEF Inside, Owns, TypeOK
  <2>3. data[l].owner = NoOwner
    BY <1>2, <2>1 DEF Inside, Owns, TypeOK, AcctTypeOK
  <2>4. DataVacant'
    BY <1>1, <1>4, <2>3 DEF DataVacant, TypeOK
  <2>5. MutualExclusion' /\ FutexMeansInside'
    BY <1>2, <1>4, <2>1, <2>2 DEF MutualExclusion, FutexMeansInside, TypeOK
  <2> QED BY <1>1, <1>3, <1>4, <2>2, <2>4, <2>5 DEF Enters
<1>5. CASE futex[l] # 0
  <2>1. futex' = futex
    BY <1>2, <1>5 DEF TypeOK
  <2>2. \A u \in Threads, k \in Locks : Inside(u, k)' <=> Inside(u, k)
    BY <1>1, <1>5 DEF Inside, Owns, TypeOK
  <2>3. DataVacant' /\ MutualExclusion' /\ FutexMeansInside'
    BY <1>1, <1>5, <2>1, <2>2 DEF DataVacant, MutualExclusion, FutexMeansInside, TypeOK
  <2> QED BY <1>1, <1>3, <1>5, <2>2, <2>3 DEF SameInside
<1> QED BY <1>4, <1>5

-----------------------------------------------------------------------------
(* The steps that touch the bookkeeping.                                   *)

\* The owner takes one more level.
LEMMA LockNestedStep ==
    ASSUME IInv, NEW t \in Threads, NEW l \in Locks, LockNested(t, l)
    PROVE  IInv' /\ SameInside
<1> USE DEF IInv, LockNested
<1>1. /\ AcctTypeOK' /\ NestingMatchesOwner'
      /\ \A k \in Locks : data'[k].owner = data[k].owner
  BY RenestKeeps DEF TypeOK
<1>2. ListLinked' /\ Acyclic'
  BY <1>1, RelabelKeepsList DEF Renest, TypeOK
<1>3. TypeOK' /\ TargetKnown'
  BY <1>1 DEF TypeOK, TargetKnown
<1>4. \A u \in Threads, k \in Locks : Inside(u, k)' <=> Inside(u, k)
  BY <1>1 DEF Inside, Owns
<1>5. DataVacant' /\ MutualExclusion' /\ FutexMeansInside'
  BY <1>1, <1>4 DEF DataVacant, MutualExclusion, FutexMeansInside, TargetKnown, Busy
<1> QED BY <1>1, <1>2, <1>3, <1>4, <1>5 DEF SameInside

\* n00b_lock_acquire_accounting, by the thread that is inside.
LEMMA AccountStep ==
    ASSUME IInv, NEW t \in Threads, Account(t)
    PROVE  IInv' /\ SameInside
<1> USE DEF IInv, Account, Goto
<1> DEFINE l == target[t]
<1>1. l \in Locks /\ data[l].owner = NoOwner
  BY DEF TargetKnown, Busy, DataVacant
<1>2. PushHeld(t, l)
  BY <1>1 DEF AcquireAccounting, Renest, Owns, Contradicted
<1>3. /\ AcctTypeOK' /\ NestingMatchesOwner'
      /\ \A k \in Locks : data'[k].owner = IF k = l THEN t ELSE data[k].owner
  BY <1>1, <1>2, PushHeldKeeps DEF TypeOK
<1>4. ListLinked' /\ Acyclic'
  BY <1>1, <1>2, PushHeldKeepsList DEF TypeOK
<1>5. TypeOK' /\ TargetKnown'
  BY <1>3 DEF TypeOK, TargetKnown, Busy, PCs
<1>6. \A u \in Threads, k \in Locks : Inside(u, k)' <=> Inside(u, k)
  <2>1. ASSUME NEW u \in Threads, NEW k \in Locks PROVE Inside(u, k)' <=> Inside(u, k)
    <3>1. CASE k = l
      BY <1>1, <1>3, <3>1 DEF Inside, Owns, TypeOK, MutualExclusion
    <3>2. CASE k # l
      BY <1>1, <1>3, <3>2 DEF Inside, Owns, TypeOK
    <3> QED BY <3>1, <3>2
  <2> QED BY <2>1
<1>7. MutualExclusion' /\ FutexMeansInside'
  BY <1>6 DEF MutualExclusion, FutexMeansInside
<1>8. DataVacant'
  <2>1. ASSUME NEW u \in Threads, pc'[u] \in {"won", "account", "clear"}
        PROVE  data'[target'[u]].owner = NoOwner
    <3>1. u # t /\ pc'[u] = pc[u] /\ target'[u] = target[u] /\ target[u] \in Locks
      BY <2>1 DEF TypeOK, TargetKnown, Busy
    <3>2. target[u] # l
      BY <1>1, <2>1, <3>1 DEF MutualExclusion, Inside
    <3> QED BY <1>3, <2>1, <3>1, <3>2 DEF DataVacant
  <2> QED BY <2>1 DEF DataVacant
<1> QED BY <1>3, <1>4, <1>5, <1>6, <1>7, <1>8 DEF SameInside

\* n00b_lock_release_accounting: an inner level, the last level, or misuse.
LEMMA UnlockBodyStep ==
    ASSUME IInv, NEW t \in Threads, NEW l \in Locks,
           pc[t] \in {"idle", "exit"}, UnlockBody(t, l)
    PROVE  IInv' /\ SameInside
<1> USE DEF IInv
<1>1. CASE ~Owns(t, l)
  <2>1. UNCHANGED <<data, nextLock, prevLock, exclusive, mutexVars>> /\ fatal' = "misuse"
    BY <1>1 DEF UnlockBody, Misuse
  <2>2. TypeOK' /\ TargetKnown' /\ NestingMatchesOwner' /\ ListLinked' /\ Acyclic'
    BY <2>1 DEF TypeOK, AcctTypeOK, Fatality, TargetKnown, NestingMatchesOwner,
                ListLinked, Acyclic, Owns, mutexVars
  <2>3. DataVacant' /\ MutualExclusion' /\ FutexMeansInside' /\ SameInside
    BY <2>1 DEF DataVacant, MutualExclusion, FutexMeansInside, SameInside, Inside, Owns, mutexVars
  <2> QED BY <2>2, <2>3
<1>2. CASE Owns(t, l) /\ ~LastLevel(l)
  <2>1. Unnest(t, l) /\ UNCHANGED mutexVars
    BY <1>2 DEF UnlockBody, Misuse
  <2>2. /\ AcctTypeOK' /\ NestingMatchesOwner'
        /\ \A k \in Locks : data'[k].owner = data[k].owner
    BY <1>2, <2>1, UnnestKeeps DEF TypeOK
  <2>3. ListLinked' /\ Acyclic'
    BY <2>1, <2>2, RelabelKeepsList DEF Unnest, TypeOK
  <2>4. TypeOK' /\ TargetKnown'
    BY <2>1, <2>2 DEF TypeOK, TargetKnown, mutexVars
  <2>5. \A u \in Threads, k \in Locks : Inside(u, k)' <=> Inside(u, k)
    BY <2>1, <2>2 DEF Inside, Owns, mutexVars
  <2>6. DataVacant' /\ MutualExclusion' /\ FutexMeansInside'
    BY <2>1, <2>2, <2>5
       DEF DataVacant, MutualExclusion, FutexMeansInside, TargetKnown, Busy, mutexVars
  <2> QED BY <2>2, <2>3, <2>4, <2>5, <2>6 DEF SameInside
<1>3. CASE Owns(t, l) /\ LastLevel(l)
  <2>1. /\ UnlinkHeld(t, l)
        /\ pc' = [pc EXCEPT ![t] = "clear"]
        /\ target' = [target EXCEPT ![t] = l]
        /\ UNCHANGED <<futex, shouldWake, spins, timed, leaving, calls>>
    BY <1>3 DEF UnlockBody, Misuse, Goto
  <2>2. /\ AcctTypeOK' /\ NestingMatchesOwner'
        /\ \A k \in Locks : data'[k].owner = IF k = l THEN NoOwner ELSE data[k].owner
    BY <1>3, <2>1, UnlinkHeldKeeps DEF TypeOK
  <2>3. ListLinked' /\ Acyclic'
    BY <1>3, <2>1, UnlinkHeldKeepsList DEF TypeOK
  <2>4. TypeOK' /\ TargetKnown'
    BY <2>1, <2>2 DEF TypeOK, TargetKnown, Busy, PCs
  <2>5. ASSUME NEW u \in Threads, NEW k \in Locks PROVE Inside(u, k)' <=> Inside(u, k)
    <3>1. CASE u = t
      BY <1>3, <2>1, <2>2, <3>1 DEF Inside, Owns, TypeOK
    <3>2. CASE u # t
      <4>1. pc'[u] = pc[u] /\ target'[u] = target[u]
        BY <2>1, <3>2 DEF TypeOK
      <4>2. k = l => ~Inside(u, k)
        BY <1>3, <3>2 DEF MutualExclusion, Inside
      <4> QED BY <1>3, <2>2, <4>1, <4>2 DEF Inside, Owns
    <3> QED BY <3>1, <3>2
  <2>6. MutualExclusion' /\ FutexMeansInside'
    BY <2>1, <2>5 DEF MutualExclusion, FutexMeansInside
  <2>7. DataVacant'
    BY <2>1, <2>2 DEF DataVacant, TypeOK, TargetKnown, Busy
  <2> QED BY <2>2, <2>3, <2>4, <2>5, <2>6, <2>7 DEF SameInside
<1> QED BY <1>1, <1>2, <1>3

\* The store of 0: the thread leaves.
LEMMA ClearFutexStep ==
    ASSUME IInv, NEW t \in Threads, ClearFutex(t)
    PROVE  IInv' /\ Leaves(target[t])
<1> USE DEF IInv, ClearFutex, Goto
<1> DEFINE l == target[t]
<1>1. AcctTypeOK' /\ NestingMatchesOwner' /\ ListLinked' /\ Acyclic' /\ data' = data
  BY UnchangedAcct
<1>2. l \in Locks /\ data[l].owner = NoOwner /\ Inside(t, l)
  BY DEF TargetKnown, Busy, DataVacant, Inside
<1>3. TypeOK' /\ TargetKnown'
  BY <1>1, <1>2 DEF TypeOK, TargetKnown, Busy, PCs
<1>4. ASSUME NEW u \in Threads, NEW k \in Locks
      PROVE  Inside(u, k)' <=> Inside(u, k) /\ k # l
  <2>1. CASE k = l
    <3>1. Inside(u, k) => u = t
      BY <1>2, <2>1 DEF MutualExclusion
    <3> QED BY <1>1, <1>2, <2>1, <3>1 DEF Inside, Owns, TypeOK
  <2>2. CASE k # l
    BY <1>1, <2>2 DEF Inside, Owns, TypeOK
  <2> QED BY <2>1, <2>2
<1>5. DataVacant' /\ MutualExclusion'
  BY <1>1, <1>4 DEF DataVacant, MutualExclusion, TypeOK
<1>6. FutexMeansInside'
  BY <1>2, <1>4 DEF FutexMeansInside, TypeOK
<1> QED BY <1>1, <1>3, <1>4, <1>5, <1>6 DEF Leaves

\* The assert after that store, whether it holds or not.
LEMMA CheckClearedStep ==
    ASSUME IInv, NEW t \in Threads, CheckCleared(t)
    PROVE  IInv' /\ SameInside
<1> USE DEF IInv, CheckCleared, Goto, Caller
<1>1. TypeOK' /\ TargetKnown'
  BY DEF TypeOK, AcctTypeOK, Fatality, TargetKnown, Busy, PCs
<1>2. NestingMatchesOwner' /\ ListLinked' /\ Acyclic'
  BY DEF NestingMatchesOwner, ListLinked, Acyclic, Owns
<1>3. \A u \in Threads, k \in Locks : Inside(u, k)' <=> Inside(u, k)
  BY DEF Inside, Owns, TypeOK
<1>4. DataVacant' /\ MutualExclusion' /\ FutexMeansInside'
  BY <1>3 DEF DataVacant, MutualExclusion, FutexMeansInside, TypeOK
<1> QED BY <1>1, <1>2, <1>3, <1>4 DEF SameInside

\* A round of n00b_release_locks_on_thread_exit's first loop.
LEMMA ExitReleaseStep ==
    ASSUME IInv, NEW t \in Threads, ExitRelease(t)
    PROVE  IInv' /\ SameInside
<1>1. CASE exclusive[t] # Null
  BY <1>1, UnlockBodyStep DEF ExitRelease, IInv, TypeOK, AcctTypeOK
<1>2. CASE exclusive[t] = Null
  <2> USE DEF IInv, Goto
  <2>1. UNCHANGED <<acctVars, futex, shouldWake, target, spins, timed, leaving, calls>>
        /\ pc' = [pc EXCEPT ![t] = "gone"] /\ pc[t] = "exit"
    BY <1>2 DEF ExitRelease
  <2>2. AcctTypeOK' /\ NestingMatchesOwner' /\ ListLinked' /\ Acyclic' /\ data' = data
    BY <2>1, UnchangedAcct
  <2>3. TypeOK' /\ TargetKnown'
    BY <2>1, <2>2 DEF TypeOK, TargetKnown, Busy, PCs
  <2>4. \A u \in Threads, k \in Locks : Inside(u, k)' <=> Inside(u, k)
    BY <2>1, <2>2 DEF Inside, Owns, TypeOK
  <2>5. DataVacant' /\ MutualExclusion' /\ FutexMeansInside'
    BY <2>1, <2>2, <2>4 DEF DataVacant, MutualExclusion, FutexMeansInside, TypeOK
  <2> QED BY <2>2, <2>3, <2>4, <2>5 DEF SameInside
<1> QED BY <1>1, <1>2

\* Nothing happens.
LEMMA StutterStep == ASSUME IInv, UNCHANGED vars PROVE IInv'
<1>1. AcctTypeOK' /\ NestingMatchesOwner' /\ ListLinked' /\ Acyclic' /\ data' = data
  BY UnchangedAcct DEF vars
<1>2. TypeOK' /\ TargetKnown' /\ DataVacant' /\ MutualExclusion' /\ FutexMeansInside'
  BY <1>1 DEF vars, mutexVars, IInv, TypeOK, TargetKnown, DataVacant,
              MutualExclusion, FutexMeansInside, Inside, Owns
<1> QED BY <1>1, <1>2 DEF IInv

-----------------------------------------------------------------------------
(* The invariant holds in every behaviour, and so does each of its parts.  *)

\* The invariant is inductive.
LEMMA NextIInv == IInv /\ [Next]_vars => IInv'
<1> SUFFICES ASSUME IInv, [Next]_vars PROVE IInv'
  OBVIOUS
<1>1. CASE UNCHANGED vars
  BY <1>1, StutterStep
<1>2. ASSUME NEW t \in Threads, Step(t) PROVE IInv'
  <2>1. ASSUME NEW l \in Locks, LockNested(t, l) PROVE IInv'
    BY <2>1, LockNestedStep
  <2>2. ASSUME NEW l \in Locks, NEW try \in BOOLEAN, LockCall(t, l, try) PROVE IInv'
    BY <2>2, LockCallStep
  <2>3. ASSUME NEW l \in Locks, Unlock(t, l) PROVE IInv'
    BY <2>3, UnlockBodyStep DEF Unlock
  <2> QED BY <1>2, <2>1, <2>2, <2>3, SpinStep, BeginWaitStep, PollStep, GrabStep,
             EndWaitStep, AccountStep, ClearFutexStep, CheckClearedStep,
             ExitThreadStep, ExitReleaseStep DEF Step
<1> QED BY <1>1, <1>2 DEF Next

\* The inductive invariant holds throughout every behaviour of the mutex code.
THEOREM Invariance == Spec => []IInv
  BY InitIInv, NextIInv, PTL DEF Spec

\* The type invariant of Mutex holds for every instance.
THEOREM TypeCorrect == Spec => []TypeOK
  BY Invariance, PTL DEF IInv

\* Two threads are never inside one mutex (n00b_mutex_lock, try_lock).
THEOREM Exclusion == Spec => []MutualExclusion
  BY Invariance, PTL DEF IInv

\* The futex word is set exactly while some thread is inside.
THEOREM FutexAgrees == Spec => []FutexMeansInside
  BY Invariance, PTL DEF IInv

\* Every thread's exclusive_locks list links exactly the way the exit
\* handler needs it, for lists of any length and any order of release.
THEOREM HeldListLinked == Spec => []ListLinked
  BY Invariance, PTL DEF IInv

\* assert(info.owner == N00B_NO_OWNER) of n00b_lock_acquire_accounting never
\* fails.
THEOREM OwnerAssertHolds == Spec => []VacatedBeforeFreed
<1>1. IInv => VacatedBeforeFreed
  BY DEF IInv, DataVacant, VacatedBeforeFreed
<1> QED BY <1>1, Invariance, PTL

-----------------------------------------------------------------------------
(* Thread exit, and the count of waiters.  Both are inductive beside IInv. *)

\* A thread that is gone stays outside every mutex, and the handler lets a
\* thread go only when it owns nothing: its list is empty, and a thread that
\* owns anything has a list.
LEMMA ExitReleasesStep ==
    ASSUME IInv, ExitReleasesAll, [Next]_vars
    PROVE  ExitReleasesAll'
<1> SUFFICES ASSUME NEW u \in Threads, pc'[u] = "gone", NEW k \in Locks
             PROVE  ~Inside(u, k)'
  BY DEF ExitReleasesAll
<1>1. CASE UNCHANGED vars
  BY <1>1 DEF vars, acctVars, mutexVars, ExitReleasesAll, Inside, Owns
<1>2. ASSUME NEW t \in Threads, Step(t) PROVE ~Inside(u, k)'
  <2>1. CASE pc[u] = "gone"
    <3>1. ~Inside(u, k)
      BY <2>1 DEF ExitReleasesAll
    <3>2. CASE Spin(t) \/ Grab(t)
      <4>1. SameInside \/ Enters(t, target[t])
        BY <3>2, SpinStep, GrabStep
      <4>2. u # t
        BY <2>1, <3>2 DEF Spin, Grab
      <4> QED BY <3>1, <4>1, <4>2 DEF SameInside, Enters
    <3>3. CASE ClearFutex(t)
      BY <3>1, <3>3, ClearFutexStep DEF Leaves
    <3>4. CASE ~(Spin(t) \/ Grab(t) \/ ClearFutex(t))
      <4>1. SameInside
        BY <1>2, <3>4, LockNestedStep, LockCallStep, UnlockBodyStep, BeginWaitStep, PollStep,
           EndWaitStep, AccountStep, CheckClearedStep, ExitThreadStep, ExitReleaseStep
           DEF Step, Unlock
      <4> QED BY <3>1, <4>1 DEF SameInside
    <3> QED BY <3>2, <3>3, <3>4
  <2>2. CASE pc[u] # "gone"
    <3>1. u = t /\ ExitRelease(t) /\ exclusive[t] = Null
      <4> USE DEF IInv, TypeOK, Goto, Caller, UnlockBody, mutexVars
      <4>1. ASSUME NEW l \in Locks, LockNested(t, l) PROVE FALSE
        BY <2>2, <4>1 DEF LockNested
      <4>2. ASSUME NEW l \in Locks, NEW try \in BOOLEAN, LockCall(t, l, try) PROVE FALSE
        BY <2>2, <4>2 DEF LockCall
      <4>3. ASSUME NEW l \in Locks, Unlock(t, l) PROVE FALSE
        BY <2>2, <4>3 DEF Unlock
      <4>4. CASE Spin(t) \/ BeginWait(t) \/ Poll(t) \/ Grab(t) \/ EndWait(t) \/ Account(t)
        BY <2>2, <4>4 DEF Spin, BeginWait, Poll, Grab, EndWait, Account
      <4>5. CASE ClearFutex(t) \/ CheckCleared(t) \/ ExitThread(t)
        BY <2>2, <4>5 DEF ClearFutex, CheckCleared, ExitThread
      <4>6. CASE ExitRelease(t)
        BY <2>2, <4>6 DEF ExitRelease
      <4> QED BY <1>2, <4>1, <4>2, <4>3, <4>4, <4>5, <4>6 DEF Step
    <3>2. data' = data
      BY <3>1 DEF ExitRelease, acctVars
    <3>3. ~Owns(u, k)
      BY <3>1, OwnerHasList DEF IInv, TypeOK
    <3> QED BY <3>2, <3>3 DEF Inside, Owns
  <2> QED BY <2>1, <2>2
<1> QED BY <1>1, <1>2 DEF Next

\* A thread that has run its exit handler is inside no mutex.
THEOREM ExitComplete == Spec => []ExitReleasesAll
<1>1. Init => ExitReleasesAll
  BY DEF Init, ExitReleasesAll
<1> QED BY <1>1, ExitReleasesStep, Invariance, PTL DEF Spec

\* The threads should_wake is to count.
Slow(l) == {t \in Threads : InSlowPath(t, l)}

\* What one thread's entering or leaving the slow path does to their number.
LEMMA SlowChange ==
    ASSUME NEW l \in Locks, NEW t \in Threads,
           \A u \in Threads : u # t => (InSlowPath(u, l)' <=> InSlowPath(u, l))
    PROVE  /\ Cardinality(Slow(l)) \in Nat
           /\ ~InSlowPath(t, l) /\ InSlowPath(t, l)'
                => Cardinality(Slow(l)') = Cardinality(Slow(l)) + 1
           /\ InSlowPath(t, l) /\ ~InSlowPath(t, l)'
                => Cardinality(Slow(l)') = Cardinality(Slow(l)) - 1
           /\ (InSlowPath(t, l)' <=> InSlowPath(t, l)) => Slow(l)' = Slow(l)
<1>1. IsFiniteSet(Slow(l)) /\ Cardinality(Slow(l)) \in Nat
  <2>1. Slow(l) \subseteq Threads
    BY DEF Slow
  <2>2. IsFiniteSet(Slow(l))
    BY <2>1, FS_Subset
  <2> QED BY <2>2, FS_CardinalityType
<1>2. ASSUME ~InSlowPath(t, l), InSlowPath(t, l)'
      PROVE  Cardinality(Slow(l)') = Cardinality(Slow(l)) + 1
  <2>1. Slow(l)' = Slow(l) \cup {t} /\ t \notin Slow(l)
    BY <1>2 DEF Slow
  <2> QED BY <1>1, <2>1, FS_AddElement
<1>3. ASSUME InSlowPath(t, l), ~InSlowPath(t, l)'
      PROVE  Cardinality(Slow(l)') = Cardinality(Slow(l)) - 1
  <2>1. Slow(l)' = Slow(l) \ {t} /\ t \in Slow(l)
    BY <1>3 DEF Slow
  <2> QED BY <1>1, <2>1, FS_RemoveElement
<1>4. (InSlowPath(t, l)' <=> InSlowPath(t, l)) => Slow(l)' = Slow(l)
  BY DEF Slow
<1> QED BY <1>1, <1>2, <1>3, <1>4

\* Every step counts a waiter in or out exactly when it is one.
LEMMA WaitersCountedStep ==
    ASSUME IInv, WaitersCounted, [Next]_vars
    PROVE  WaitersCounted'
<1> SUFFICES ASSUME NEW k \in Locks PROVE shouldWake'[k] = Cardinality(Slow(k)')
  BY DEF WaitersCounted, Slow
<1>0. shouldWake[k] = Cardinality(Slow(k))
  BY DEF WaitersCounted, Slow
<1>1. CASE UNCHANGED vars
  <2>1. Slow(k)' = Slow(k) /\ shouldWake' = shouldWake
    BY <1>1 DEF vars, mutexVars, Slow, InSlowPath
  <2> QED BY <1>0, <2>1
<1>2. ASSUME NEW t \in Threads, Step(t) PROVE shouldWake'[k] = Cardinality(Slow(k)')
  <2> USE DEF IInv, TypeOK, Goto
  <2>1. CASE BeginWait(t)
    <3>1. \A u \in Threads : u # t => (InSlowPath(u, k)' <=> InSlowPath(u, k))
      BY <2>1 DEF BeginWait, InSlowPath
    <3>2. ~InSlowPath(t, k) /\ (InSlowPath(t, k)' <=> k = target[t])
      BY <2>1 DEF BeginWait, InSlowPath
    <3>3. shouldWake'[k] = IF k = target[t] THEN shouldWake[k] + 1 ELSE shouldWake[k]
      BY <2>1 DEF BeginWait, TargetKnown, Busy
    <3> QED BY <1>0, <3>1, <3>2, <3>3, SlowChange
  <2>2. CASE EndWait(t)
    <3>1. \A u \in Threads : u # t => (InSlowPath(u, k)' <=> InSlowPath(u, k))
      BY <2>2 DEF EndWait, InSlowPath
    <3>2. ~InSlowPath(t, k)' /\ (InSlowPath(t, k) <=> k = target[t])
      BY <2>2 DEF EndWait, InSlowPath
    <3>3. shouldWake'[k] = IF k = target[t] THEN shouldWake[k] - 1 ELSE shouldWake[k]
      BY <2>2 DEF EndWait, TargetKnown, Busy
    <3> QED BY <1>0, <3>1, <3>2, <3>3, SlowChange
  <2>3. CASE ~(BeginWait(t) \/ EndWait(t))
    <3>1. /\ \A u \in Threads : InSlowPath(u, k)' <=> InSlowPath(u, k)
          /\ shouldWake' = shouldWake
      <4> USE DEF InSlowPath, mutexVars, Caller, UnlockBody
      <4>1. ASSUME NEW l \in Locks, LockNested(t, l)
            PROVE  (\A u \in Threads : InSlowPath(u, k)' <=> InSlowPath(u, k)) /\ shouldWake' = shouldWake
        BY <4>1 DEF LockNested
      <4>2. ASSUME NEW l \in Locks, NEW try \in BOOLEAN, LockCall(t, l, try)
            PROVE  (\A u \in Threads : InSlowPath(u, k)' <=> InSlowPath(u, k)) /\ shouldWake' = shouldWake
        BY <4>2 DEF LockCall
      <4>3. ASSUME NEW l \in Locks, Unlock(t, l)
            PROVE  (\A u \in Threads : InSlowPath(u, k)' <=> InSlowPath(u, k)) /\ shouldWake' = shouldWake
        BY <4>3 DEF Unlock
      <4>4. CASE Spin(t) \/ Poll(t) \/ Grab(t) \/ Account(t)
        BY <4>4 DEF Spin, Poll, Grab, Account
      <4>5. CASE ClearFutex(t) \/ CheckCleared(t) \/ ExitThread(t)
        BY <4>5 DEF ClearFutex, CheckCleared, ExitThread
      <4>6. CASE ExitRelease(t)
        BY <4>6 DEF ExitRelease
      <4> QED BY <1>2, <2>3, <4>1, <4>2, <4>3, <4>4, <4>5, <4>6 DEF Step
    <3>2. Slow(k)' = Slow(k)
      BY <3>1 DEF Slow
    <3> QED BY <1>0, <3>1, <3>2
  <2> QED BY <2>1, <2>2, <2>3
<1> QED BY <1>1, <1>2 DEF Next

\* should_wake counts the threads in the slow path exactly.
THEOREM WaitersExact == Spec => []WaitersCounted
<1>1. Init => WaitersCounted
  <2> SUFFICES ASSUME Init, NEW l \in Locks PROVE shouldWake[l] = Cardinality(Slow(l))
    BY DEF WaitersCounted, Slow
  <2>1. Slow(l) = {} /\ shouldWake[l] = 0
    BY DEF Init, Slow, InSlowPath
  <2> QED BY <2>1, FS_EmptySet
<1> QED BY <1>1, WaitersCountedStep, Invariance, PTL DEF Spec

-----------------------------------------------------------------------------
(***************************************************************************)
(* The mutex implements the reentrant lock.  As at most one thread is      *)
(* inside, HolderOf names it.                                              *)
(***************************************************************************)

\* HolderOf names the thread inside, or nobody.
LEMMA HolderInside ==
    ASSUME MutualExclusion, NEW l \in Locks
    PROVE  /\ \A t \in Threads : Inside(t, l) => HolderOf(l) = t
           /\ (\A t \in Threads : ~Inside(t, l)) => HolderOf(l) = NoOwner
<1>1. ASSUME NEW t \in Threads, Inside(t, l) PROVE HolderOf(l) = t
  <2>1. \A u \in Threads : Inside(u, l) => u = t
    BY <1>1 DEF MutualExclusion
  <2> HIDE DEF Inside
  <2> QED BY <1>1, <2>1 DEF HolderOf
<1>2. ASSUME \A t \in Threads : ~Inside(t, l) PROVE HolderOf(l) = NoOwner
  BY <1>2 DEF HolderOf
<1> QED BY <1>1, <1>2

\* The same, after a step.
LEMMA HolderInsideNext ==
    ASSUME MutualExclusion', NEW l \in Locks
    PROVE  /\ \A t \in Threads : Inside(t, l)' => HolderOf(l)' = t
           /\ (\A t \in Threads : ~Inside(t, l)') => HolderOf(l)' = NoOwner
<1>1. ASSUME NEW t \in Threads, Inside(t, l)' PROVE HolderOf(l)' = t
  <2>1. \A u \in Threads : Inside(u, l)' => u = t
    BY <1>1 DEF MutualExclusion
  <2> QED BY <1>1, <2>1 DEF HolderOf
<1>2. ASSUME \A t \in Threads : ~Inside(t, l)' PROVE HolderOf(l)' = NoOwner
  BY <1>2 DEF HolderOf
<1> QED BY <1>1, <1>2

\* A step that nobody enters or leaves by changes no holder.
LEMMA SameHolder ==
    ASSUME IInv, IInv', SameInside, NEW l \in Locks
    PROVE  HolderOf(l)' = HolderOf(l)
<1>1. CASE \E t \in Threads : Inside(t, l)
  BY <1>1, HolderInside, HolderInsideNext DEF IInv, SameInside
<1>2. CASE \A t \in Threads : ~Inside(t, l)
  BY <1>2, HolderInside, HolderInsideNext DEF IInv, SameInside
<1> QED BY <1>1, <1>2

\* The abstract lock's variables under the mapping.
Holders == [l \in Locks |-> HolderOf(l)]
Depths == [l \in Locks |-> DepthOf(l)]

\* A step that changes neither who is inside nor a depth is a stutter.
LEMMA Stutters ==
    ASSUME IInv, IInv', SameInside, \A l \in Locks : DepthOf(l)' = DepthOf(l)
    PROVE  UNCHANGED Abstract!vars
  BY SameHolder DEF Abstract!vars

\* The fetch-or that wins the word is the abstract acquisition.
LEMMA EnterIsAcquire ==
    ASSUME IInv, IInv', NEW t \in Threads, NEW l \in Locks, Enters(t, l),
           futex[l] = 0, futex' = [futex EXCEPT ![l] = 1], data' = data
    PROVE  Abstract!Acquire(t, l)
<1>1. data[l].owner = NoOwner /\ \A u \in Threads : ~Inside(u, l)
  BY DEF IInv, FutexMeansInside, TypeOK, AcctTypeOK, Inside, Owns
<1>2. Inside(t, l)' /\ HolderOf(l)' = t /\ HolderOf(l) = NoOwner
  BY <1>1, HolderInside, HolderInsideNext DEF IInv, Enters
<1>3. ASSUME NEW k \in Locks, k # l PROVE HolderOf(k)' = HolderOf(k)
  <2>1. CASE \E u \in Threads : Inside(u, k)
    BY <1>3, <2>1, HolderInside, HolderInsideNext DEF IInv, Enters
  <2>2. CASE \A u \in Threads : ~Inside(u, k)
    BY <1>3, <2>2, HolderInside, HolderInsideNext DEF IInv, Enters
  <2> QED BY <2>1, <2>2
<1>4. \A k \in Locks : DepthOf(k)' = IF k = l THEN 1 ELSE DepthOf(k)
  BY <1>1 DEF DepthOf, IInv, TypeOK
<1>5. Holders' = [Holders EXCEPT ![l] = t]
  BY <1>2, <1>3 DEF Holders
<1>6. Depths' = [Depths EXCEPT ![l] = 1]
  BY <1>4 DEF Depths
<1> QED BY <1>2, <1>5, <1>6 DEF Abstract!Acquire, Holders, Depths

\* The store that clears the word is the abstract release of the last level.
LEMMA LeaveIsFree ==
    ASSUME IInv, IInv', NEW t \in Threads, NEW l \in Locks, Leaves(l), Inside(t, l),
           data[l].owner = NoOwner, futex' = [futex EXCEPT ![l] = 0], data' = data
    PROVE  Abstract!Free(t, l)
<1>1. futex[l] = 1
  BY DEF IInv, FutexMeansInside
<1>2. HolderOf(l)' = NoOwner /\ HolderOf(l) = t
  BY HolderInside, HolderInsideNext DEF IInv, Leaves
<1>3. ASSUME NEW k \in Locks, k # l PROVE HolderOf(k)' = HolderOf(k)
  <2>1. CASE \E u \in Threads : Inside(u, k)
    BY <1>3, <2>1, HolderInside, HolderInsideNext DEF IInv, Leaves
  <2>2. CASE \A u \in Threads : ~Inside(u, k)
    BY <1>3, <2>2, HolderInside, HolderInsideNext DEF IInv, Leaves
  <2> QED BY <2>1, <2>2
<1>4. DepthOf(l) = 1 /\ \A k \in Locks : DepthOf(k)' = IF k = l THEN 0 ELSE DepthOf(k)
  BY <1>1 DEF DepthOf, IInv, TypeOK
<1>5. Holders' = [Holders EXCEPT ![l] = NoOwner]
  BY <1>2, <1>3 DEF Holders
<1>6. Depths' = [Depths EXCEPT ![l] = 0]
  BY <1>4 DEF Depths
<1> QED BY <1>2, <1>4, <1>5, <1>6 DEF Abstract!Free, Holders, Depths

\* One more level of the owner is the abstract reacquisition.
LEMMA NestIsReacquire ==
    ASSUME IInv, IInv', NEW t \in Threads, NEW l \in Locks, SameInside, Renest(t, l),
           UNCHANGED futex
    PROVE  Abstract!Reacquire(t, l)
<1>1. HolderOf(l) = t /\ Holders' = Holders
  BY SameHolder, HolderInside DEF IInv, Inside, Renest, Holders
<1>2. \A k \in Locks : DepthOf(k)' = IF k = l THEN DepthOf(l) + 1 ELSE DepthOf(k)
  BY DEF DepthOf, IInv, TypeOK, AcctTypeOK, Renest, Owns
<1>3. Depths' = [Depths EXCEPT ![l] = Depths[l] + 1]
  BY <1>2 DEF Depths
<1> QED BY <1>1, <1>3 DEF Abstract!Reacquire, Holders, Depths

\* One level less is the abstract release of an inner level.
LEMMA UnnestIsRelease ==
    ASSUME IInv, IInv', NEW t \in Threads, NEW l \in Locks, SameInside, Owns(t, l),
           ~LastLevel(l), Unnest(t, l), UNCHANGED futex
    PROVE  Abstract!Release(t, l)
<1>1. HolderOf(l) = t /\ Holders' = Holders
  BY SameHolder, HolderInside DEF IInv, Inside, Holders
<1>2. /\ DepthOf(l) = data[l].nesting
      /\ \A k \in Locks : DepthOf(k)' = IF k = l THEN DepthOf(l) - 1 ELSE DepthOf(k)
  BY DEF DepthOf, IInv, TypeOK, AcctTypeOK, Unnest, Owns
<1>3. data[l].nesting \in Nat /\ data[l].nesting # 0 /\ data[l].nesting # 1
  <2>1. data[l].owner # NoOwner /\ data[l].nesting \in Nat
    BY DEF Owns, IInv, TypeOK, AcctTypeOK
  <2> QED BY <2>1 DEF LastLevel, IInv, NestingMatchesOwner
<1>4. DepthOf(l) > 1
  BY <1>2, <1>3
<1>5. Depths' = [Depths EXCEPT ![l] = Depths[l] - 1]
  BY <1>2 DEF Depths
<1> QED BY <1>1, <1>4, <1>5 DEF Abstract!Release, Holders, Depths

\* n00b_lock_release_accounting refines a release or changes nothing abstract.
LEMMA UnlockBodyRefines ==
    ASSUME IInv, NEW t \in Threads, NEW l \in Locks,
           pc[t] \in {"idle", "exit"}, UnlockBody(t, l)
    PROVE  Abstract!Next \/ UNCHANGED Abstract!vars
<1>0. IInv' /\ SameInside
  BY UnlockBodyStep
<1>1. CASE ~Owns(t, l)
  <2>1. UNCHANGED <<data, futex>>
    BY <1>1 DEF UnlockBody, Misuse, mutexVars
  <2>2. \A k \in Locks : DepthOf(k)' = DepthOf(k)
    BY <2>1 DEF DepthOf
  <2> QED BY <1>0, <2>2, Stutters
<1>2. CASE Owns(t, l) /\ ~LastLevel(l)
  <2>1. Unnest(t, l) /\ UNCHANGED futex
    BY <1>2 DEF UnlockBody, Misuse, mutexVars
  <2> QED BY <1>0, <1>2, <2>1, UnnestIsRelease DEF Abstract!Next
<1>3. CASE Owns(t, l) /\ LastLevel(l)
  <2>1. UnlinkHeld(t, l) /\ UNCHANGED futex
    BY <1>3 DEF UnlockBody, Misuse
  <2>2. /\ \A k \in Locks : k # l => data'[k] = data[k]
        /\ data'[l].owner = NoOwner
    BY <2>1 DEF UnlinkHeld, IInv, TypeOK, AcctTypeOK
  <2>3. futex[l] = 1 /\ data[l].nesting = 1 /\ data[l].owner # NoOwner
    BY <1>3 DEF IInv, FutexMeansInside, Inside, LastLevel, Owns
  <2>4. \A k \in Locks : DepthOf(k)' = DepthOf(k)
    BY <2>1, <2>2, <2>3 DEF DepthOf
  <2> QED BY <1>0, <2>4, Stutters
<1> QED BY <1>1, <1>2, <1>3

\* Every step of the mutex is a step of the reentrant lock or a stutter.
LEMMA NextRefines == IInv /\ [Next]_vars => [Abstract!Next]_Abstract!vars
<1> SUFFICES ASSUME IInv, [Next]_vars PROVE Abstract!Next \/ UNCHANGED Abstract!vars
  OBVIOUS
<1>0. IInv'
  BY NextIInv
<1>s. ASSUME SameInside, UNCHANGED <<data, futex>> PROVE UNCHANGED Abstract!vars
  <2>1. \A k \in Locks : DepthOf(k)' = DepthOf(k)
    BY <1>s DEF DepthOf
  <2> QED BY <1>0, <1>s, <2>1, Stutters
<1>1. CASE UNCHANGED vars
  <2>1. SameInside /\ UNCHANGED <<data, futex>>
    BY <1>1 DEF SameInside, Inside, Owns, vars, acctVars, mutexVars
  <2> QED BY <2>1, <1>s
<1>2. ASSUME NEW t \in Threads, Step(t) PROVE Abstract!Next \/ UNCHANGED Abstract!vars
  <2>1. ASSUME NEW l \in Locks, LockNested(t, l) PROVE Abstract!Next
    BY <2>1, <1>0, LockNestedStep, NestIsReacquire DEF LockNested, Abstract!Next
  <2>2. ASSUME NEW l \in Locks, NEW try \in BOOLEAN, LockCall(t, l, try)
        PROVE  UNCHANGED Abstract!vars
    BY <2>2, <1>s, LockCallStep DEF LockCall, acctVars
  <2>3. ASSUME NEW l \in Locks, Unlock(t, l)
        PROVE  Abstract!Next \/ UNCHANGED Abstract!vars
    BY <2>3, UnlockBodyRefines DEF Unlock
  <2>4. ASSUME Spin(t) \/ Grab(t) PROVE Abstract!Next \/ UNCHANGED Abstract!vars
    <3>1. /\ target[t] \in Locks
          /\ futex' = [futex EXCEPT ![target[t]] = 1]
          /\ data' = data
      BY <2>4 DEF Spin, Grab, FetchOr, IInv, TargetKnown, Busy, acctVars
    <3>2. CASE futex[target[t]] = 0
      <4>1. Enters(t, target[t])
        BY <2>4, <3>2, SpinStep, GrabStep
      <4> QED BY <1>0, <3>1, <3>2, <4>1, EnterIsAcquire DEF Abstract!Next
    <3>3. CASE futex[target[t]] # 0
      <4>1. SameInside
        BY <2>4, <3>3, SpinStep, GrabStep
      <4>2. futex' = futex
        BY <3>1, <3>3 DEF IInv, TypeOK
      <4> QED BY <3>1, <4>1, <4>2, <1>s
    <3> QED BY <3>2, <3>3
  <2>5. ASSUME BeginWait(t) \/ Poll(t) \/ EndWait(t) \/ CheckCleared(t) \/ ExitThread(t)
        PROVE  UNCHANGED Abstract!vars
    <3>1. SameInside
      BY <2>5, BeginWaitStep, PollStep, EndWaitStep, CheckClearedStep, ExitThreadStep
    <3>2. UNCHANGED <<data, futex>>
      BY <2>5 DEF BeginWait, Poll, EndWait, CheckCleared, ExitThread, acctVars
    <3> QED BY <3>1, <3>2, <1>s
  <2>6. ASSUME Account(t) PROVE UNCHANGED Abstract!vars
    <3> DEFINE l == target[t]
    <3>1. l \in Locks /\ data[l].owner = NoOwner /\ Inside(t, l)
      BY <2>6 DEF Account, IInv, TargetKnown, Busy, DataVacant, Inside
    <3>2. PushHeld(t, l) /\ UNCHANGED futex
      BY <2>6, <3>1 DEF Account, AcquireAccounting, Renest, Owns, Contradicted
    <3>3. /\ \A k \in Locks : k # l => data'[k] = data[k]
          /\ data'[l] = [owner |-> t, nesting |-> 1]
      BY <3>1, <3>2 DEF PushHeld, IInv, TypeOK, AcctTypeOK
    <3>4. futex[l] = 1
      BY <3>1 DEF IInv, FutexMeansInside
    <3>5. \A k \in Locks : DepthOf(k)' = DepthOf(k)
      BY <3>1, <3>2, <3>3, <3>4 DEF DepthOf
    <3> QED BY <1>0, <2>6, <3>5, AccountStep, Stutters
  <2>7. ASSUME ClearFutex(t) PROVE Abstract!Next
    <3>1. /\ target[t] \in Locks /\ Inside(t, target[t])
          /\ data[target[t]].owner = NoOwner
      BY <2>7 DEF ClearFutex, IInv, TargetKnown, Busy, DataVacant, Inside
    <3>2. futex' = [futex EXCEPT ![target[t]] = 0] /\ data' = data
      BY <2>7 DEF ClearFutex, acctVars
    <3>3. Leaves(target[t])
      BY <2>7, ClearFutexStep
    <3> QED BY <1>0, <3>1, <3>2, <3>3, LeaveIsFree DEF Abstract!Next
  <2>8. ASSUME ExitRelease(t) PROVE Abstract!Next \/ UNCHANGED Abstract!vars
    <3>1. CASE exclusive[t] # Null
      BY <2>8, <3>1, UnlockBodyRefines DEF ExitRelease, IInv, TypeOK, AcctTypeOK
    <3>2. CASE exclusive[t] = Null
      BY <2>8, <3>2, <1>s, ExitReleaseStep DEF ExitRelease, acctVars
    <3> QED BY <3>1, <3>2
  <2> QED BY <1>2, <2>1, <2>2, <2>3, <2>4, <2>5, <2>6, <2>7, <2>8 DEF Step
<1> QED BY <1>1, <1>2 DEF Next

\* A fresh mutex is a free reentrant lock.
LEMMA InitRefines == Init => Abstract!Init
<1> SUFFICES ASSUME Init PROVE Abstract!Init
  OBVIOUS
<1>1. \A l \in Locks : futex[l] = 0 /\ data[l].owner = NoOwner
  BY DEF Init, AcctInit
<1>2. \A l \in Locks : \A t \in Threads : ~Inside(t, l)
  BY <1>1, InitIInv DEF IInv, FutexMeansInside
<1>3. \A l \in Locks : HolderOf(l) = NoOwner /\ DepthOf(l) = 0
  BY <1>1, <1>2 DEF HolderOf, DepthOf
<1> QED BY <1>3 DEF Abstract!Init

\* Every behaviour of n00b_mutex_lock, n00b_mutex_try_lock,
\* n00b_mutex_unlock and the exit handler is one of a reentrant lock.
THEOREM Refinement == Spec => ImplementsReentrantLock
<1>1. Spec => Abstract!Init /\ [][Abstract!Next]_Abstract!vars
  BY InitRefines, NextRefines, Invariance, PTL DEF Spec
<1> QED BY <1>1 DEF ImplementsReentrantLock, Abstract!Spec
=============================================================================
