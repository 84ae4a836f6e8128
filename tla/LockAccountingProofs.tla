------------------------ MODULE LockAccountingProofs ------------------------
(***************************************************************************)
(* What the operators of LockAccounting keep, for any threads and locks:   *)
(* the lemmas the proofs about each lock kind rest on.                     *)
(***************************************************************************)
EXTENDS LockAccounting, WellFoundedInduction, TLAPS

USE AccountingAssumption

\* The levels of nesting and the owner of a lock, after each operator.
LEMMA RenestKeeps ==
    ASSUME NEW t \in Threads, NEW l \in Locks, AcctTypeOK, NestingMatchesOwner,
           Renest(t, l)
    PROVE  /\ AcctTypeOK' /\ NestingMatchesOwner'
           /\ \A k \in Locks : data'[k].owner = data[k].owner
<1>1. data' \in [Locks -> [owner : Threads \cup {NoOwner}, nesting : Nat]]
  BY DEF Renest, AcctTypeOK
<1>2. \A k \in Locks : data'[k].owner = data[k].owner
  BY DEF Renest, AcctTypeOK, Owns
<1>3. NestingMatchesOwner'
  BY DEF Renest, AcctTypeOK, NestingMatchesOwner, Owns
<1> QED BY <1>1, <1>2, <1>3 DEF Renest, AcctTypeOK

\* Giving back an inner level changes no owner.
LEMMA UnnestKeeps ==
    ASSUME NEW t \in Threads, NEW l \in Locks, AcctTypeOK, NestingMatchesOwner,
           Owns(t, l), ~LastLevel(l), Unnest(t, l)
    PROVE  /\ AcctTypeOK' /\ NestingMatchesOwner'
           /\ \A k \in Locks : data'[k].owner = data[k].owner
<1>a. data[l].nesting \in Nat /\ data[l].owner # NoOwner
  BY DEF AcctTypeOK, Owns
<1>b. data[l].nesting # 0
  BY <1>a DEF NestingMatchesOwner
<1>0. data[l].nesting \in Nat /\ data[l].nesting # 0 /\ data[l].nesting # 1
  BY <1>a, <1>b DEF LastLevel
<1>c. data[l].nesting - 1 \in Nat
  BY <1>0
<1>1. data' \in [Locks -> [owner : Threads \cup {NoOwner}, nesting : Nat]]
  BY <1>c DEF Unnest, AcctTypeOK
<1>2. \A k \in Locks : data'[k].owner = data[k].owner
  BY DEF Unnest, AcctTypeOK, Owns
<1>3. NestingMatchesOwner'
  BY <1>0 DEF Unnest, AcctTypeOK, NestingMatchesOwner, Owns
<1> QED BY <1>1, <1>2, <1>3 DEF Unnest, AcctTypeOK

\* A first acquisition changes the owner of that lock alone.
LEMMA PushHeldKeeps ==
    ASSUME NEW t \in Threads, NEW l \in Locks, AcctTypeOK, NestingMatchesOwner,
           PushHeld(t, l)
    PROVE  /\ AcctTypeOK' /\ NestingMatchesOwner'
           /\ \A k \in Locks : data'[k].owner = IF k = l THEN t ELSE data[k].owner
<1>1. data' \in [Locks -> [owner : Threads \cup {NoOwner}, nesting : Nat]]
  BY DEF PushHeld, AcctTypeOK
<1>2. \A k \in Locks : data'[k].owner = IF k = l THEN t ELSE data[k].owner
  BY DEF PushHeld, AcctTypeOK
<1>3. NestingMatchesOwner'
  BY DEF PushHeld, AcctTypeOK, NestingMatchesOwner
<1>4. prevLock' \in [Locks -> Locks \cup {Null}]
  BY DEF PushHeld, AcctTypeOK
<1>5. nextLock' \in [Locks -> Locks \cup {Null}] /\ exclusive' \in [Threads -> Locks \cup {Null}]
  BY DEF PushHeld, AcctTypeOK
<1> QED BY <1>1, <1>2, <1>3, <1>4, <1>5 DEF PushHeld, AcctTypeOK

\* Giving back the last level leaves that lock, and no other, without owner.
LEMMA UnlinkHeldKeeps ==
    ASSUME NEW t \in Threads, NEW l \in Locks, AcctTypeOK, NestingMatchesOwner,
           LastLevel(l), UnlinkHeld(t, l)
    PROVE  /\ AcctTypeOK' /\ NestingMatchesOwner'
           /\ \A k \in Locks : data'[k].owner = IF k = l THEN NoOwner ELSE data[k].owner
<1>0. data[l].nesting - 1 = 0
  BY DEF LastLevel
<1>d. data' = [data EXCEPT ![l] = [owner |-> NoOwner, nesting |-> 0]]
  BY <1>0 DEF UnlinkHeld
<1>1. data' \in [Locks -> [owner : Threads \cup {NoOwner}, nesting : Nat]]
  BY <1>d DEF AcctTypeOK
<1>2. \A k \in Locks : data'[k].owner = IF k = l THEN NoOwner ELSE data[k].owner
  BY <1>d DEF AcctTypeOK
<1>3. NestingMatchesOwner'
  BY <1>d DEF AcctTypeOK, NestingMatchesOwner
<1>4. nextLock' \in [Locks -> Locks \cup {Null}]
  BY DEF UnlinkHeld, AcctTypeOK
<1>5. prevLock' \in [Locks -> Locks \cup {Null}]
  BY DEF UnlinkHeld, AcctTypeOK
<1>6. exclusive' \in [Threads -> Locks \cup {Null}]
  BY DEF UnlinkHeld, AcctTypeOK
<1> QED BY <1>1, <1>2, <1>3, <1>4, <1>5, <1>6 DEF UnlinkHeld, AcctTypeOK

-----------------------------------------------------------------------------
(* The held list stays well linked.  Its links alone do not rule out two   *)
(* locks that are each other's neighbours on both sides, for which the     *)
(* test "prev != next" of the unlinking code would leave stale pointers;   *)
(* a rank that grows along the list does.  It is a natural number, so that *)
(* a walk towards the head ends, and every held lock is on the list.       *)

Acyclic ==
    \E rank \in [Locks -> Nat] :
        \A k \in Locks : nextLock[k] # Null => rank[k] < rank[nextLock[k]]

\* The list depends on owners and links only.
LEMMA RelabelKeepsList ==
    ASSUME AcctTypeOK, ListLinked, Acyclic,
           UNCHANGED <<nextLock, prevLock, exclusive>>,
           \A k \in Locks : data'[k].owner = data[k].owner
    PROVE  ListLinked' /\ Acyclic'
  BY DEF ListLinked, Acyclic, AcctTypeOK, Owns

\* A lock nobody owned becomes the head of its new owner's list; every list
\* stays linked and without a cycle.
LEMMA PushHeldKeepsList ==
    ASSUME NEW t \in Threads, NEW l \in Locks, AcctTypeOK, NestingMatchesOwner,
           ListLinked, Acyclic, data[l].owner = NoOwner, PushHeld(t, l)
    PROVE  ListLinked' /\ Acyclic'
<1> USE DEF AcctTypeOK
<1> DEFINE top == exclusive[t]
<1>1. \A k \in Locks : data'[k].owner = IF k = l THEN t ELSE data[k].owner
  BY PushHeldKeeps
<1>2. nextLock[l] = Null /\ prevLock[l] = Null
  BY DEF ListLinked
<1>3. top # l /\ (top # Null => data[top].owner = t /\ prevLock[top] = Null)
  BY DEF ListLinked, Owns
<1>4. /\ prevLock' = IF top = Null THEN prevLock ELSE [prevLock EXCEPT ![top] = l]
      /\ nextLock' = [nextLock EXCEPT ![l] = top]
      /\ exclusive' = [exclusive EXCEPT ![t] = l]
  BY DEF PushHeld
<1>5. \A k \in Locks : /\ prevLock'[k] = IF k = top THEN l ELSE prevLock[k]
                       /\ nextLock'[k] = IF k = l THEN top ELSE nextLock[k]
  BY <1>4
<1>6. \A u \in Threads : exclusive'[u] = IF u = t THEN l ELSE exclusive[u]
  BY <1>4
<1> HIDE DEF top
<1>7. \A u \in Threads : exclusive'[u] # Null =>
          data'[exclusive'[u]].owner = u /\ prevLock'[exclusive'[u]] = Null
  BY <1>1, <1>2, <1>3, <1>5, <1>6 DEF ListLinked, Owns, top
<1>8. \A k \in Locks : nextLock'[k] # Null =>
          /\ nextLock'[k] # k
          /\ prevLock'[nextLock'[k]] = k
          /\ data'[nextLock'[k]].owner = data'[k].owner
  BY <1>1, <1>2, <1>3, <1>5 DEF ListLinked, top
<1>9. \A k \in Locks : prevLock'[k] # Null =>
          /\ prevLock'[k] # k
          /\ nextLock'[prevLock'[k]] = k
          /\ data'[prevLock'[k]].owner = data'[k].owner
  BY <1>1, <1>2, <1>3, <1>5 DEF ListLinked, top
<1>10. \A k \in Locks : data'[k].owner = NoOwner =>
          nextLock'[k] = Null /\ prevLock'[k] = Null
  BY <1>1, <1>2, <1>3, <1>5 DEF ListLinked
<1>11. \A k \in Locks : data'[k].owner # NoOwner /\ prevLock'[k] = Null =>
          exclusive'[data'[k].owner] = k
  BY <1>1, <1>2, <1>3, <1>5, <1>6 DEF ListLinked, top
<1>12. Acyclic'
  <2>1. PICK rank \in [Locks -> Nat] :
          \A k \in Locks : nextLock[k] # Null => rank[k] < rank[nextLock[k]]
    BY DEF Acyclic
  <2> DEFINE lower == [k \in Locks |-> IF k = l THEN 0 ELSE rank[k] + 1]
  <2>2. lower \in [Locks -> Nat]
    OBVIOUS
  <2>3. \A k \in Locks : nextLock[k] # l
    BY <1>2 DEF ListLinked
  <2>4. ASSUME NEW k \in Locks, nextLock'[k] # Null
        PROVE  lower[k] < lower[nextLock'[k]]
    <3>1. CASE k = l
      <4>1. nextLock'[k] = top /\ top \in Locks /\ rank[top] \in Nat
        BY <1>5, <2>4, <3>1 DEF top
      <4>2. lower[top] = rank[top] + 1 /\ lower[k] = 0
        BY <4>1, <1>3, <3>1
      <4> QED BY <4>1, <4>2
    <3>2. CASE k # l
      <4>1. nextLock'[k] = nextLock[k] /\ nextLock[k] # l /\ nextLock[k] \in Locks
        BY <1>5, <2>3, <2>4, <3>2
      <4>2. rank[k] < rank[nextLock[k]] /\ rank[k] \in Nat /\ rank[nextLock[k]] \in Nat
        BY <2>1, <2>4, <4>1
      <4> QED BY <4>1, <4>2, <3>2
    <3> QED BY <3>1, <3>2
  <2> HIDE DEF lower
  <2> QED BY <2>2, <2>4 DEF Acyclic
<1> QED BY <1>7, <1>8, <1>9, <1>10, <1>11, <1>12 DEF ListLinked, Owns

\* A lock leaves its owner's list from any place in it; every list stays linked
\* and without a cycle.
LEMMA UnlinkHeldKeepsList ==
    ASSUME NEW t \in Threads, NEW l \in Locks, AcctTypeOK, NestingMatchesOwner,
           ListLinked, Acyclic, Owns(t, l), LastLevel(l), UnlinkHeld(t, l)
    PROVE  ListLinked' /\ Acyclic'
<1> USE DEF AcctTypeOK
<1> DEFINE prev == prevLock[l]
           next == nextLock[l]
<1>0. PICK rank \in [Locks -> Nat] :
          \A k \in Locks : nextLock[k] # Null => rank[k] < rank[nextLock[k]]
  BY DEF Acyclic
<1>1. \A k \in Locks : data'[k].owner = IF k = l THEN NoOwner ELSE data[k].owner
  BY UnlinkHeldKeeps
<1>2. prev # l /\ next # l /\ (prev = next => prev = Null)
  <2>1. prev # l /\ next # l
    BY DEF ListLinked
  <2>2. ASSUME prev = next, prev # Null PROVE FALSE
    <3>1. prev \in Locks /\ nextLock[prev] = l /\ nextLock[l] = prev
      BY <2>2 DEF ListLinked
    <3>2. rank[prev] < rank[l] /\ rank[l] < rank[prev]
      BY <1>0, <3>1
    <3>3. rank[prev] \in Nat /\ rank[l] \in Nat
      BY <1>0, <3>1
    <3> QED BY <3>2, <3>3
  <2> QED BY <2>1, <2>2
<1>3. \A k \in Locks :
        /\ nextLock'[k] = IF k = l THEN Null
                          ELSE IF k = prev THEN next ELSE nextLock[k]
        /\ prevLock'[k] = IF k = l THEN Null
                          ELSE IF k = next THEN prev ELSE prevLock[k]
  BY <1>2 DEF UnlinkHeld
<1>4. \A u \in Threads :
        exclusive'[u] = IF u = t /\ exclusive[t] = l THEN next ELSE exclusive[u]
  BY <1>2 DEF UnlinkHeld
<1>5. /\ prev # Null => prev \in Locks /\ nextLock[prev] = l /\ data[prev].owner = t
      /\ next # Null => next \in Locks /\ prevLock[next] = l /\ data[next].owner = t
      /\ prev = Null => exclusive[t] = l
      /\ exclusive[t] = l => prev = Null
  BY DEF ListLinked, Owns
<1>6. \A k \in Locks : (nextLock[k] = l => k = prev) /\ (prevLock[k] = l => k = next)
  BY DEF ListLinked
<1>7. \A u \in Threads : exclusive'[u] # Null =>
          data'[exclusive'[u]].owner = u /\ prevLock'[exclusive'[u]] = Null
  BY <1>1, <1>2, <1>3, <1>4, <1>5 DEF ListLinked, Owns
<1>8. \A k \in Locks : nextLock'[k] # Null =>
          /\ nextLock'[k] # k
          /\ prevLock'[nextLock'[k]] = k
          /\ data'[nextLock'[k]].owner = data'[k].owner
  BY <1>1, <1>2, <1>3, <1>5, <1>6 DEF ListLinked
<1>9. \A k \in Locks : prevLock'[k] # Null =>
          /\ prevLock'[k] # k
          /\ nextLock'[prevLock'[k]] = k
          /\ data'[prevLock'[k]].owner = data'[k].owner
  BY <1>1, <1>2, <1>3, <1>5, <1>6 DEF ListLinked
<1>10. \A k \in Locks : data'[k].owner = NoOwner =>
          nextLock'[k] = Null /\ prevLock'[k] = Null
  BY <1>1, <1>2, <1>3, <1>5, <1>6 DEF ListLinked
<1>11. \A k \in Locks : data'[k].owner # NoOwner /\ prevLock'[k] = Null =>
          exclusive'[data'[k].owner] = k
  BY <1>1, <1>2, <1>3, <1>4, <1>5, <1>6 DEF ListLinked, Owns
<1>12. Acyclic'
  <2>1. ASSUME NEW k \in Locks, nextLock'[k] # Null PROVE rank[k] < rank[nextLock'[k]]
    <3>1. CASE k = prev
      <4>1. nextLock'[k] = next /\ next # Null /\ next \in Locks /\ nextLock[k] = l
        BY <1>2, <1>3, <1>5, <2>1, <3>1
      <4>2. rank[k] < rank[l] /\ rank[l] < rank[next]
        BY <1>0, <4>1
      <4>3. rank[next] \in Nat /\ rank[l] \in Nat /\ rank[k] \in Nat
        BY <4>1
      <4> QED BY <4>1, <4>2, <4>3
    <3>2. CASE k # prev
      BY <1>0, <1>3, <2>1, <3>2
    <3> QED BY <3>1, <3>2
  <2> QED BY <2>1 DEF Acyclic
<1> QED BY <1>7, <1>8, <1>9, <1>10, <1>11, <1>12 DEF ListLinked, Owns

\* A thread that owns a lock has a list: following prev_thread_lock from any
\* lock it owns ends at the head.  So an exit handler that finds the list
\* empty has left nothing behind.
LEMMA OwnerHasList ==
    ASSUME AcctTypeOK, ListLinked, Acyclic, NEW t \in Threads, NEW l \in Locks, Owns(t, l)
    PROVE  exclusive[t] # Null
<1>1. PICK rank \in [Locks -> Nat] :
          \A k \in Locks : nextLock[k] # Null => rank[k] < rank[nextLock[k]]
  BY DEF Acyclic
<1> DEFINE ranks == {rank[k] : k \in {k \in Locks : Owns(t, k)}}
           below == {p \in Nat \X Nat : p[1] < p[2]}
<1>2. ranks \subseteq Nat /\ ranks # {}
  OBVIOUS
<1>3. PICK x \in ranks : \A y \in ranks : ~(<<y, x>> \in below)
  <2>1. IsWellFoundedOn(below, Nat)
    BY NatLessThanWellFounded DEF OpToRel
  <2> HIDE DEF ranks, below
  <2> QED BY <1>2, <2>1, WFMin
<1>4. PICK k \in Locks : Owns(t, k) /\ rank[k] = x
  OBVIOUS
<1>5. ASSUME prevLock[k] # Null PROVE FALSE
  <2>1. prevLock[k] \in Locks /\ nextLock[prevLock[k]] = k /\ Owns(t, prevLock[k])
    BY <1>4, <1>5 DEF ListLinked, AcctTypeOK, Owns
  <2>2. rank[prevLock[k]] < x /\ rank[prevLock[k]] \in ranks /\ x \in Nat
    BY <1>1, <1>4, <2>1
  <2>3. <<rank[prevLock[k]], x>> \in below
    BY <1>2, <2>2
  <2> QED BY <1>3, <2>2, <2>3
<1>6. exclusive[t] = k
  BY <1>4, <1>5 DEF ListLinked, Owns
<1> QED BY <1>6
=============================================================================
