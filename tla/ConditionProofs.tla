---------------------------- MODULE ConditionProofs ----------------------------
(***************************************************************************)
(* The safety properties of Condition, for any number of threads.          *)
(***************************************************************************)
EXTENDS Condition, FiniteSetTheorems, TLAPS

\* The threads that count as waiters.
Waiters == {t \in Threads : pc[t] \in WaitPCs}

\* TypeOK, but for the bound on wait_queue, which follows from the count.
Typed ==
    /\ owner \in Threads \cup {NoOwner}
    /\ queue \in Int
    /\ inProgress \in BOOLEAN
    /\ done \in {0, 1}
    /\ num \in Nums
    /\ pc \in [Threads -> PCs]
    /\ waking \in [Threads -> BOOLEAN]
    /\ old \in [Threads -> Nums]
    /\ calls \in [Threads -> 0 .. MaxCalls]

\* A waiter is without the lock from its enqueuing to its return, a notifier
\* from its waiting for notify_done on.
Lockless ==
    \A t \in Threads :
        pc[t] \in WaitPCs \cup {"notifying", "clear", "finish"} => owner # t

\* The inductive invariant.
IInv ==
    /\ Typed
    /\ QueueCounts
    /\ Lockless
    /\ ProgressHasNotifier

USE DEF WaitPCs, NotifyPCs

-----------------------------------------------------------------------------
(* The count.                                                              *)

\* What a change of one program counter does to the set of waiters: t joins
\* it, leaves it, or neither.
LEMMA WaitersChange ==
    ASSUME IInv, NEW t \in Threads, NEW label \in PCs,
           pc' = [pc EXCEPT ![t] = label]
    PROVE  /\ IsFiniteSet(Waiters) /\ Cardinality(Waiters) \in Nat
           /\ pc[t] \notin WaitPCs /\ label \in WaitPCs
                => Cardinality(Waiters') = Cardinality(Waiters) + 1
           /\ pc[t] \in WaitPCs /\ label \notin WaitPCs
                => Cardinality(Waiters') = Cardinality(Waiters) - 1
           /\ (pc[t] \in WaitPCs <=> label \in WaitPCs) => Waiters' = Waiters
<1>t. pc \in [Threads -> PCs]
  BY DEF IInv, Typed
<1>1. IsFiniteSet(Waiters) /\ Cardinality(Waiters) \in Nat
  <2>1. Waiters \subseteq Threads
    BY DEF Waiters
  <2>2. IsFiniteSet(Waiters)
    BY <2>1, FS_Subset, ConditionAssumption
  <2> QED
    BY <2>2, FS_CardinalityType
<1>2. ASSUME pc[t] \notin WaitPCs, label \in WaitPCs
      PROVE  Cardinality(Waiters') = Cardinality(Waiters) + 1
  <2>1. Waiters' = Waiters \cup {t}
    BY <1>t, <1>2 DEF Waiters
  <2>2. t \notin Waiters
    BY <1>2 DEF Waiters
  <2> QED
    BY <1>1, <2>1, <2>2, FS_AddElement
<1>3. ASSUME pc[t] \in WaitPCs, label \notin WaitPCs
      PROVE  Cardinality(Waiters') = Cardinality(Waiters) - 1
  <2>1. Waiters' = Waiters \ {t}
    BY <1>t, <1>3 DEF Waiters
  <2>2. t \in Waiters
    BY <1>3 DEF Waiters
  <2> QED
    BY <1>1, <2>1, <2>2, FS_RemoveElement
<1>4. ASSUME pc[t] \in WaitPCs <=> label \in WaitPCs
      PROVE  Waiters' = Waiters
  BY <1>t, <1>4 DEF Waiters
<1> QED
  BY <1>1, <1>2, <1>3, <1>4

\* So wait_queue stays the count if a step that moves t to label changes it
\* as it changes the set.
LEMMA CountKept ==
    ASSUME IInv, NEW t \in Threads, NEW label \in PCs,
           pc' = [pc EXCEPT ![t] = label],
           \/ pc[t] \notin WaitPCs /\ label \in WaitPCs /\ queue' = queue + 1
           \/ pc[t] \in WaitPCs /\ label \notin WaitPCs /\ queue' = queue - 1
           \/ (pc[t] \in WaitPCs <=> label \in WaitPCs) /\ queue' = queue
    PROVE  QueueCounts'
<1>1. queue = Cardinality(Waiters)
  BY DEF IInv, QueueCounts, Waiters
<1>2. queue' = Cardinality(Waiters')
  <2> HIDE DEF WaitPCs
  <2>1. CASE pc[t] \notin WaitPCs /\ label \in WaitPCs /\ queue' = queue + 1
    BY <1>1, <2>1, WaitersChange
  <2>2. CASE pc[t] \in WaitPCs /\ label \notin WaitPCs /\ queue' = queue - 1
    BY <1>1, <2>2, WaitersChange
  <2>3. CASE (pc[t] \in WaitPCs <=> label \in WaitPCs) /\ queue' = queue
    BY <1>1, <2>3, WaitersChange
  <2> QED
    BY <2>1, <2>2, <2>3
<1> QED
  BY <1>2 DEF QueueCounts, Waiters

-----------------------------------------------------------------------------
(* Each step keeps the invariant.                                          *)

\* Steps that leave every program counter and wait_queue alone.
LEMMA CountUntouched ==
    ASSUME IInv, pc' = pc, queue' = queue
    PROVE  QueueCounts'
BY DEF IInv, QueueCounts

\* n00b_condition_lock and n00b_condition_unlock keep the invariant.
LEMMA UserSteps ==
    ASSUME IInv, NEW t \in Threads, Lock(t) \/ Unlock(t)
    PROVE  IInv'
<1> USE DEF IInv, Typed, Lockless, ProgressHasNotifier, cvVars, localVars
<1>1. QueueCounts'
  BY CountUntouched DEF Lock, Unlock
<1>2. CASE Lock(t)
  BY <1>1, <1>2, ConditionAssumption DEF Lock, Call, GetsLock
<1>3. CASE Unlock(t)
  BY <1>1, <1>3, ConditionAssumption DEF Unlock
<1> QED
  BY <1>2, <1>3

\* Every step of base_wait keeps it.
LEMMA WaiterSteps ==
    ASSUME IInv, NEW t \in Threads,
           \/ Wait(t) \/ Poll(t) \/ Expire(t) \/ TimeOut(t) \/ Match(t) \/ Load(t)
           \/ Store(t) \/ Signal(t) \/ Barrier(t)
           \/ \E autoUnlock \in BOOLEAN : Relock(t, autoUnlock)
    PROVE  IInv'
<1> USE ConditionAssumption
<1> USE DEF IInv, Typed, Lockless, ProgressHasNotifier, cvVars, localVars, Goto, PCs
<1>1. CASE Wait(t)
  <2>1. QueueCounts'
    BY <1>1, CountKept DEF Wait, Call
  <2> QED
    BY <1>1, <2>1 DEF Wait, Call, GetsLock
<1>2. CASE Poll(t)
  <2>1. QueueCounts'
    BY <1>2, CountKept DEF Poll
  <2> QED
    BY <1>2, <2>1 DEF Poll
<1>3. CASE TimeOut(t)
  <2>1. QueueCounts'
    BY <1>3, CountKept DEF TimeOut, CountOut
  <2> QED
    BY <1>3, <2>1 DEF TimeOut, CountOut
<1>4. CASE Match(t)
  <2>1. QueueCounts'
    BY <1>4, CountKept DEF Match
  <2> QED
    BY <1>4, <2>1 DEF Match
<1>5. CASE Load(t)
  <2>1. QueueCounts'
    BY <1>5, CountKept DEF Load
  <2> QED
    BY <1>5, <2>1 DEF Load
<1>6. CASE Store(t)
  <2>1. PICK label \in {"signal", "barrier", "match"} : pc' = [pc EXCEPT ![t] = label]
    BY <1>6 DEF Store, LoopOr
  <2>2. QueueCounts'
    BY <1>6, <2>1, CountKept DEF Store
  <2>3. num' \in Nums /\ old' \in [Threads -> Nums]
    BY <1>6 DEF Store, Decrement, Nums
  <2> QED
    BY <1>6, <2>1, <2>2, <2>3 DEF Store
<1>7. CASE Signal(t)
  <2>1. PICK label \in {"barrier", "match"} : pc' = [pc EXCEPT ![t] = label]
    BY <1>7 DEF Signal, LoopOr
  <2>2. QueueCounts'
    BY <1>7, <2>1, CountKept DEF Signal
  <2> QED
    BY <1>7, <2>1, <2>2 DEF Signal
<1>8. CASE Barrier(t)
  <2>1. QueueCounts'
    BY <1>8, CountKept DEF Barrier
  <2> QED
    BY <1>8, <2>1 DEF Barrier
<1>9. ASSUME NEW autoUnlock \in BOOLEAN, Relock(t, autoUnlock)
      PROVE  IInv'
  <2>1. QueueCounts'
    BY <1>9, CountKept DEF Relock, CountOut
  <2> QED
    BY <1>9, <2>1 DEF Relock, CountOut, GetsLock
<1>10. CASE Expire(t)
  <2>1. QueueCounts'
    BY <1>10, CountKept DEF Expire
  <2> QED
    BY <1>10, <2>1 DEF Expire
<1> QED
  BY <1>1, <1>2, <1>3, <1>4, <1>5, <1>6, <1>7, <1>8, <1>9, <1>10

\* Every step of internal_cv_notify keeps it.
LEMMA NotifierSteps ==
    ASSUME IInv, NEW t \in Threads,
           \/ \E max \in Maxes, autoUnlock \in BOOLEAN :
                 Notify(t, max, autoUnlock)
           \/ Announce(t) \/ Reset(t) \/ Notified(t) \/ Clear(t) \/ Finish(t)
    PROVE  IInv'
<1> USE ConditionAssumption
<1> USE DEF IInv, Typed, Lockless, ProgressHasNotifier, cvVars, localVars, Goto, PCs
<1>1. ASSUME NEW max \in Maxes, NEW autoUnlock \in BOOLEAN,
             Notify(t, max, autoUnlock)
      PROVE  IInv'
  <2>1. max \in Nums
    BY DEF Nums
  <2>2. CASE queue = 0 /\ owner' = (IF autoUnlock THEN NoOwner ELSE t) /\ UNCHANGED pc
    <3>1. QueueCounts'
      BY <1>1, <2>2, CountUntouched DEF Notify
    <3> QED
      BY <1>1, <2>1, <2>2, <3>1 DEF Notify, Call, GetsLock
  <2>3. CASE queue # 0 /\ owner' = t /\ Goto(t, "announce")
    <3>1. QueueCounts'
      BY <1>1, <2>3, CountKept DEF Notify, Call
    <3> QED
      BY <1>1, <2>1, <2>3, <3>1 DEF Notify, Call, GetsLock
  <2> QED
    BY <1>1, <2>2, <2>3 DEF Notify
<1>2. CASE Announce(t)
  <2>1. QueueCounts'
    BY <1>2, CountKept DEF Announce
  <2> QED
    BY <1>2, <2>1 DEF Announce
<1>3. CASE Reset(t)
  <2>1. QueueCounts'
    BY <1>3, CountKept DEF Reset
  <2> QED
    BY <1>3, <2>1 DEF Reset, DropLock
<1>4. CASE Notified(t)
  <2>1. QueueCounts'
    BY <1>4, CountKept DEF Notified
  <2> QED
    BY <1>4, <2>1 DEF Notified
<1>5. CASE Clear(t)
  <2>1. QueueCounts'
    BY <1>5, CountKept DEF Clear
  <2> QED
    BY <1>5, <2>1 DEF Clear, ClearBit
<1>6. CASE Finish(t)
  <2>1. QueueCounts'
    BY <1>6, CountKept DEF Finish
  <2> QED
    BY <1>6, <2>1 DEF Finish
<1> QED
  BY <1>1, <1>2, <1>3, <1>4, <1>5, <1>6

\* The invariant is inductive: every user call, and every step of a waiter
\* and of a notifier, keeps it.
THEOREM Invariance == Spec => []IInv
<1>1. Init => IInv
  <2> SUFFICES ASSUME Init PROVE IInv
    OBVIOUS
  <2>1. Waiters = {}
    BY DEF Init, Waiters
  <2>2. QueueCounts
    BY <2>1, FS_EmptySet DEF Init, QueueCounts, Waiters
  <2>3. 0 \in Nums /\ MaxCalls \in 0 .. MaxCalls
    BY ConditionAssumption DEF Nums
  <2>4. Typed
    <3>1. inProgress \in BOOLEAN /\ waking \in [Threads -> BOOLEAN]
      BY Zenon DEF Init
    <3>2. pc \in [Threads -> PCs]
      BY DEF Init, PCs
    <3>3. old \in [Threads -> Nums] /\ calls \in [Threads -> 0 .. MaxCalls]
      BY <2>3 DEF Init
    <3> QED
      BY <2>3, <3>1, <3>2, <3>3 DEF Init, Typed
  <2>5. Lockless /\ ProgressHasNotifier
    BY DEF Init, Lockless, ProgressHasNotifier
  <2> QED
    BY <2>2, <2>4, <2>5 DEF IInv
<1>2. IInv /\ [Next]_vars => IInv'
  <2> SUFFICES ASSUME IInv, [Next]_vars PROVE IInv'
    OBVIOUS
  <2>1. ASSUME NEW t \in Threads, Choice(t) PROVE IInv'
    BY <2>1, UserSteps, WaiterSteps, NotifierSteps DEF Choice
  <2>2. ASSUME NEW t \in Threads, Progress(t) PROVE IInv'
    BY <2>2, UserSteps, WaiterSteps, NotifierSteps DEF Progress
  <2>3. CASE UNCHANGED vars
    BY <2>3 DEF vars, cvVars, localVars, IInv, Typed, QueueCounts, Lockless,
                ProgressHasNotifier
  <2> QED
    BY <2>1, <2>2, <2>3 DEF Next
<1> QED
  BY <1>1, <1>2, PTL DEF Spec

\* wait_queue counts the waiters exactly, for any number of threads.
THEOREM Counted == Spec => []QueueCounts
<1>1. IInv => QueueCounts
  BY DEF IInv
<1> QED
  BY <1>1, Invariance, PTL

\* The types, with the bound on wait_queue: it never runs below zero or
\* above the number of threads.
THEOREM TypeCorrect == Spec => []TypeOK
<1>1. IInv => TypeOK
  <2> SUFFICES ASSUME IInv PROVE TypeOK
    OBVIOUS
  <2>1. Waiters \subseteq Threads
    BY DEF Waiters
  <2>2. IsFiniteSet(Waiters) /\ Cardinality(Waiters) <= Cardinality(Threads)
    BY <2>1, FS_Subset, ConditionAssumption
  <2>3. Cardinality(Waiters) \in Nat /\ Cardinality(Threads) \in Nat
    BY <2>2, FS_CardinalityType, ConditionAssumption
  <2>4. queue = Cardinality(Waiters)
    BY DEF IInv, QueueCounts, Waiters
  <2>5. queue \in 0 .. Cardinality(Threads)
    BY <2>2, <2>3, <2>4
  <2> QED
    BY <2>5 DEF IInv, Typed, TypeOK
<1> QED
  BY <1>1, Invariance, PTL

\* Nobody sleeps with the condition variable's lock.
THEOREM SleepersLockless == Spec => []SleepersHoldNoLock
<1>1. IInv => SleepersHoldNoLock
  BY DEF IInv, Lockless, SleepersHoldNoLock
<1> QED
  BY <1>1, Invariance, PTL

\* The notification bit never outlives the notifiers.
THEOREM BitHasNotifier == Spec => []ProgressHasNotifier
<1>1. IInv => ProgressHasNotifier
  BY DEF IInv
<1> QED
  BY <1>1, Invariance, PTL
================================================================================
