----------------------------- MODULE RWLockProofs -----------------------------
(***************************************************************************)
(* Proofs about RWLock, for any finite set of threads, any locks, and any  *)
(* number of levels and calls.                                             *)
(***************************************************************************)
EXTENDS RWLock, LockAccountingProofs, FiniteSetTheorems

\* A call in progress is about some lock.
TargetKnown == \A t \in Threads : pc[t] # "idle" => target[t] \in Locks

\* A thread on its way to a read lock has no record yet; one that is giving
\* back its count has none any more.
RecordAbsent ==
    \A t \in Threads :
        pc[t] \in {"rread", "rloop", "rcas", "rdec"} => reads[t][target[t]] = 0

\* t has the writer bit but not, or no longer, its name in the data word.
Claims(t, l) == pc[t] \in {"drain", "waccount", "wclear"} /\ target[t] = l

\* t has seen every other reader go, and writes or is about to.
Alone(t, l) == Owns(t, l) \/ (pc[t] = "waccount" /\ target[t] = l)

\* What holds of a lock no stray value was stored in: its word agrees with
\* who holds the bit and who has records, an owner has no second claim, and
\* a writer that found the readers gone stays alone.
Sound(l) ==
    ~garbled[l] =>
        /\ \A t, u \in Threads : HoldsBit(t, l) /\ HoldsBit(u, l) => t = u
        /\ word[l] = Cardinality(Readers(l)) +
                     (IF \E t \in Threads : HoldsBit(t, l) THEN WBit ELSE 0)
        /\ \A t \in Threads : ~(Owns(t, l) /\ Claims(t, l))
        /\ \A t, u \in Threads : Alone(t, l) /\ Counted(u, l) => t = u

\* What the bookkeeping promises, whatever the words hold.
Bookkept == NestingMatchesOwner /\ ListLinked /\ Acyclic

\* The inductive invariant.
IInv ==
    /\ TypeOK
    /\ Bookkept
    /\ TargetKnown
    /\ RecordAbsent
    /\ \A l \in Locks : Sound(l)

USE AccountingAssumption, RWAssumption

-----------------------------------------------------------------------------
(* The word.                                                               *)

\* Operations on a word stay among the words.
LEMMA WordOps ==
    ASSUME NEW v \in Words
    PROVE  /\ OrW(v) \in Words /\ Plus1(v) \in Words /\ Minus1(v) \in Words
           /\ ReaderCount(v) \in Words
  BY DEF Words, OrW, Plus1, Minus1, ReaderCount, HasW

\* The count of a lock's readers fits below the writer bit.
LEMMA ReadersFit ==
    ASSUME NEW l \in Locks
    PROVE  /\ IsFiniteSet(Readers(l)) /\ Cardinality(Readers(l)) \in Nat
           /\ Cardinality(Readers(l)) < WBit
<1>1. Readers(l) \subseteq Threads
  BY DEF Readers
<1>2. IsFiniteSet(Readers(l)) /\ Cardinality(Readers(l)) <= Cardinality(Threads)
  BY <1>1, FS_Subset
<1>3. Cardinality(Readers(l)) \in Nat /\ Cardinality(Threads) \in Nat
  BY <1>2, FS_CardinalityType
<1> QED BY <1>2, <1>3

\* Of a sound word, the writer bit says whether it has a holder, and the
\* rest is the number of readers.
LEMMA WordReads ==
    ASSUME NEW l \in Locks, Sound(l), ~garbled[l]
    PROVE  /\ HasW(word[l]) <=> \E t \in Threads : HoldsBit(t, l)
           /\ ReaderCount(word[l]) = Cardinality(Readers(l))
           /\ word[l] = IF HasW(word[l]) THEN Cardinality(Readers(l)) + WBit
                        ELSE Cardinality(Readers(l))
<1> DEFINE n == Cardinality(Readers(l))
           held == \E t \in Threads : HoldsBit(t, l)
<1>1. word[l] = n + (IF held THEN WBit ELSE 0)
  BY DEF Sound
<1>2. n \in Nat /\ n < WBit
  BY ReadersFit
<1> HIDE DEF n, held
<1>3. /\ HasW(word[l]) <=> held
      /\ ReaderCount(word[l]) = n
      /\ word[l] = IF HasW(word[l]) THEN n + WBit ELSE n
  BY <1>1, <1>2 DEF HasW, ReaderCount
<1> QED BY <1>3 DEF n, held

\* A thread that joins the readers, or leaves them, changes the count by one.
LEMMA ReadersChange ==
    ASSUME NEW l \in Locks, NEW t \in Threads,
           \A u \in Threads : u # t => (Counted(u, l)' <=> Counted(u, l))
    PROVE  /\ ~Counted(t, l) /\ Counted(t, l)'
                => Cardinality(Readers(l)') = Cardinality(Readers(l)) + 1
           /\ Counted(t, l) /\ ~Counted(t, l)'
                => Cardinality(Readers(l)') = Cardinality(Readers(l)) - 1
           /\ (Counted(t, l)' <=> Counted(t, l)) => Readers(l)' = Readers(l)
<1>1. IsFiniteSet(Readers(l))
  BY ReadersFit
<1>2. ASSUME ~Counted(t, l), Counted(t, l)'
      PROVE  Cardinality(Readers(l)') = Cardinality(Readers(l)) + 1
  <2>1. Readers(l)' = Readers(l) \cup {t} /\ t \notin Readers(l)
    BY <1>2 DEF Readers
  <2> QED BY <1>1, <2>1, FS_AddElement
<1>3. ASSUME Counted(t, l), ~Counted(t, l)'
      PROVE  Cardinality(Readers(l)') = Cardinality(Readers(l)) - 1
  <2>1. Readers(l)' = Readers(l) \ {t} /\ t \in Readers(l)
    BY <1>3 DEF Readers
  <2> QED BY <1>1, <2>1, FS_RemoveElement
<1>4. ASSUME Counted(t, l)' <=> Counted(t, l)
      PROVE  Readers(l)' = Readers(l)
  BY <1>4 DEF Readers
<1> QED BY <1>2, <1>3, <1>4

\* A step that changes neither a word nor who holds its bit and who reads
\* keeps the lock sound, if it gives nobody a second claim and makes nobody
\* alone that was not.
LEMMA SoundKept ==
    ASSUME NEW l \in Locks, Sound(l), ~garbled[l]' => ~garbled[l],
           word'[l] = word[l],
           \A u \in Threads : /\ HoldsBit(u, l)' <=> HoldsBit(u, l)
                              /\ Counted(u, l)' <=> Counted(u, l)
                              /\ Alone(u, l)' => Alone(u, l)
                              /\ ~(Owns(u, l)' /\ Claims(u, l)')
    PROVE  Sound(l)'
<1>1. Readers(l)' = Readers(l)
  BY DEF Readers
<1> QED BY <1>1 DEF Sound

\* A step of t that is about l leaves every other lock sound.
LEMMA SoundElsewhere ==
    ASSUME NEW t \in Threads, NEW l \in Locks, NEW k \in Locks, k # l, Sound(k),
           \A u \in Threads : u # t => pc'[u] = pc[u] /\ target'[u] = target[u],
           pc[t] = "idle" \/ target[t] = l,
           pc'[t] = "idle" \/ target'[t] = l,
           \A u \in Threads : reads'[u][k] = reads[u][k],
           data'[k].owner = data[k].owner, word'[k] = word[k], garbled'[k] = garbled[k]
    PROVE  Sound(k)'
<1>1. ASSUME NEW u \in Threads
      PROVE  /\ Owns(u, k)' <=> Owns(u, k)
             /\ Claims(u, k)' <=> Claims(u, k)
             /\ Counted(u, k)' <=> Counted(u, k)
             /\ Alone(u, k)' <=> Alone(u, k)
             /\ HoldsBit(u, k)' <=> HoldsBit(u, k)
             /\ ~garbled[k] => ~(Owns(u, k) /\ Claims(u, k))
  <2>1. Owns(u, k)' <=> Owns(u, k)
    BY DEF Owns
  <2>2. CASE u = t
    BY <2>1, <2>2 DEF Claims, Counted, Reading, Alone, HoldsBit, Sound
  <2>3. CASE u # t
    BY <2>1, <2>3 DEF Claims, Counted, Reading, Alone, HoldsBit, Sound
  <2> QED BY <2>2, <2>3
<1>2. CASE garbled[k]
  BY <1>2 DEF Sound
<1>3. CASE ~garbled[k]
  BY <1>1, <1>3, SoundKept
<1> QED BY <1>2, <1>3

\* The bookkeeping depends on the bookkeeping only.
LEMMA UnchangedAcct ==
    ASSUME IInv, UNCHANGED <<data, nextLock, prevLock, exclusive>>
    PROVE  Bookkept'
  BY DEF IInv, TypeOK, AcctTypeOK, Bookkept, NestingMatchesOwner, ListLinked, Acyclic, Owns

\* Locks are created sound.
LEMMA InitIInv == Init => IInv
<1> SUFFICES ASSUME Init PROVE IInv
  OBVIOUS
<1>1. TypeOK
  <2>1. 0 \in Words
    BY FS_CardinalityType DEF Words
  <2>2. garbled \in [Locks -> BOOLEAN]
    BY Zenon DEF Init
  <2>3. AcctTypeOK
    BY DEF Init, AcctInit, AcctTypeOK, Fatality
  <2> QED BY <2>1, <2>2, <2>3 DEF Init, TypeOK, PCs
<1>2. NestingMatchesOwner /\ ListLinked /\ TargetKnown /\ RecordAbsent
  BY DEF Init, AcctInit, NestingMatchesOwner, ListLinked, TargetKnown, RecordAbsent
<1>3. Acyclic
  <2> DEFINE flat == [k \in Locks |-> 0]
  <2>1. flat \in [Locks -> Nat] /\ \A k \in Locks : nextLock[k] = Null
    BY DEF Init, AcctInit
  <2> HIDE DEF flat
  <2> QED BY <2>1 DEF Acyclic
<1>4. ASSUME NEW l \in Locks
      PROVE  Sound(l)
  <2>1. \A t \in Threads : ~HoldsBit(t, l) /\ ~Counted(t, l) /\ ~Owns(t, l)
    <3> SUFFICES ASSUME NEW t \in Threads
                 PROVE  ~HoldsBit(t, l) /\ ~Counted(t, l) /\ ~Owns(t, l)
      OBVIOUS
    <3>1. pc[t] = "idle" /\ reads[t][l] = 0 /\ data[l].owner = NoOwner
      BY DEF Init, AcctInit
    <3> QED BY <3>1 DEF HoldsBit, Owns, Counted, Reading
  <2>2. Cardinality(Readers(l)) = 0
    <3>1. Readers(l) = {}
      BY <2>1 DEF Readers
    <3> QED BY <3>1, FS_EmptySet
  <2>3. word[l] = 0
    BY DEF Init
  <2> QED BY <2>1, <2>2, <2>3 DEF Sound
<1> QED BY <1>1, <1>2, <1>3, <1>4 DEF IInv, Bookkept

-----------------------------------------------------------------------------
(* Each step keeps the invariant.                                          *)

\* n00b_rw_write_lock and n00b_rw_read_lock, by the writer: one more level.
LEMMA RenestStep ==
    ASSUME IInv, NEW t \in Threads, NEW l \in Locks, WriteNested(t, l) \/ ReadAsWriter(t, l)
    PROVE  IInv'
<1> USE DEF IInv
<1>1. /\ Renest(t, l) /\ NewCall(t)
      /\ UNCHANGED <<word, reads, pc, target, value, desired, garbled>>
  BY DEF WriteNested, ReadAsWriter
<1>2. /\ AcctTypeOK' /\ NestingMatchesOwner'
      /\ \A k \in Locks : data'[k].owner = data[k].owner
  BY <1>1, RenestKeeps DEF Bookkept, TypeOK
<1>3. Bookkept'
  BY <1>1, <1>2, RelabelKeepsList DEF Bookkept, TypeOK, Renest
<1>4. TypeOK'
  BY <1>1, <1>2 DEF TypeOK, NewCall
<1>5. TargetKnown' /\ RecordAbsent'
  BY <1>1 DEF TargetKnown, RecordAbsent
<1>6. ASSUME NEW k \in Locks PROVE Sound(k)'
  <2>1. CASE k = l
    BY <1>1, <1>2, <2>1, SoundKept DEF Sound, HoldsBit, Counted, Reading, Alone, Claims, Owns
  <2>2. CASE k # l
    BY <1>1, <1>2, <2>2, SoundElsewhere DEF NewCall
  <2> QED BY <2>1, <2>2
<1> QED BY <1>3, <1>4, <1>5, <1>6

\* The labels at which a thread holds a bit or a count without an entry for it.
Between == {"drain", "waccount", "wclear", "rdec"}

\* A step from a label outside Between to another one, without effect on
\* words, records and owners, keeps every lock sound.
LEMMA PassiveSound ==
    ASSUME IInv, NEW t \in Threads, NEW l \in Locks, NEW label \in PCs \ Between,
           pc[t] \notin Between, pc' = [pc EXCEPT ![t] = label],
           target' = target \/ target' = [target EXCEPT ![t] = l],
           UNCHANGED <<data, word, reads, garbled>>, NEW k \in Locks
    PROVE  Sound(k)'
<1> USE DEF IInv, Between
<1>1. ASSUME NEW u \in Threads
      PROVE  /\ HoldsBit(u, k)' <=> HoldsBit(u, k)
             /\ Counted(u, k)' <=> Counted(u, k)
             /\ Alone(u, k)' <=> Alone(u, k)
             /\ Claims(u, k)' <=> Claims(u, k)
             /\ Owns(u, k)' <=> Owns(u, k)
  <2>1. Owns(u, k)' <=> Owns(u, k)
    BY DEF Owns
  <2>2. CASE u = t
    BY <2>1, <2>2 DEF HoldsBit, Counted, Reading, Alone, Claims, TypeOK
  <2>3. CASE u # t
    BY <2>1, <2>3 DEF HoldsBit, Counted, Reading, Alone, Claims, TypeOK
  <2> QED BY <2>2, <2>3
<1>2. CASE garbled[k]
  BY <1>2 DEF Sound
<1>3. CASE ~garbled[k]
  BY <1>1, <1>3, SoundKept DEF Sound
<1> QED BY <1>2, <1>3

\* A call that finds the bit set, or another reader's or writer's word.
LEMMA WaitingCallStep ==
    ASSUME IInv, NEW t \in Threads, NEW l \in Locks, WriteBlocked(t, l) \/ ReadSlow(t, l)
    PROVE  IInv'
<1> USE DEF IInv, WriteBlocked, ReadSlow, NewCall, Goto, Aim, acctVars
<1>1. PICK label \in {"wclosed", "rread"} :
          /\ pc' = [pc EXCEPT ![t] = label]
          /\ label = "rread" => ~Reading(t, l)
  OBVIOUS
<1>2. TypeOK'
  <2>1. AcctTypeOK' /\ garbled' \in [Locks -> BOOLEAN]
    BY Zenon DEF TypeOK, AcctTypeOK
  <2>2. pc' \in [Threads -> PCs]
    BY <1>1 DEF TypeOK, PCs
  <2>3. calls' \in [Threads -> Nat]
    BY <1>1 DEF TypeOK
  <2> QED BY <2>1, <2>2, <2>3 DEF TypeOK
<1>3. Bookkept'
  BY UnchangedAcct
<1>4. TargetKnown'
  BY <1>1 DEF TargetKnown, TypeOK
<1>5. RecordAbsent'
  BY <1>1 DEF RecordAbsent, TypeOK, Reading
<1>6. \A k \in Locks : Sound(k)'
  BY <1>1, PassiveSound DEF Between, PCs
<1> QED BY <1>2, <1>3, <1>4, <1>5, <1>6

\* A writer sees the lock free, and a reader goes round its loop.
LEMMA LoopStep ==
    ASSUME IInv, NEW t \in Threads,
           WritePoll(t) \/ ReadRead(t) \/ ReadLoop(t) \/ ReadCasLoses(t)
    PROVE  IInv'
<1> USE DEF IInv, WritePoll, ReadRead, ReadLoop, ReadCasLoses, Goto, acctVars
<1>1. /\ pc[t] \in {"wclosed", "rread", "rloop", "rcas"}
      /\ \E label \in {"wgrab", "rloop", "rcas"} :
            /\ pc' = [pc EXCEPT ![t] = label]
            /\ label # "wgrab" => pc[t] # "wclosed"
      /\ UNCHANGED <<data, nextLock, prevLock, exclusive, word, reads, target, calls, garbled>>
  OBVIOUS
<1>2. target[t] \in Locks
  BY <1>1 DEF TargetKnown
<1>3. word[target[t]] \in Words /\ value[t] \in Words /\ Plus1(value[t]) \in Words
  BY <1>2, WordOps DEF TypeOK
<1>4. TypeOK'
  <2>1. garbled' \in [Locks -> BOOLEAN]
    BY <1>1, Zenon DEF TypeOK
  <2>2. pc' \in [Threads -> PCs]
    BY <1>1 DEF TypeOK, PCs
  <2>3. AcctTypeOK'
    BY <1>1 DEF TypeOK, AcctTypeOK, Fatality
  <2>4. value' \in [Threads -> Words] /\ desired' \in [Threads -> Words \cup {Unset}]
    <3>1. /\ value' = value \/ value' = [value EXCEPT ![t] = word[target[t]]]
          /\ desired' = desired \/ desired' = [desired EXCEPT ![t] = Plus1(value[t])]
      OBVIOUS
    <3>2. value \in [Threads -> Words] /\ desired \in [Threads -> Words \cup {Unset}]
      BY DEF TypeOK
    <3> HIDE DEF IInv, WritePoll, ReadRead, ReadLoop, ReadCasLoses
    <3> QED BY <1>3, <3>1, <3>2
  <2> QED BY <1>1, <2>1, <2>2, <2>3, <2>4 DEF TypeOK
<1>5. Bookkept'
  BY <1>1, UnchangedAcct
<1>6. TargetKnown' /\ RecordAbsent'
  BY <1>1 DEF TargetKnown, RecordAbsent, TypeOK
<1>7. \A k \in Locks : Sound(k)'
  BY <1>1, <1>2, PassiveSound DEF Between, PCs
<1> QED BY <1>4, <1>5, <1>6, <1>7

\* Or-ing the writer bit into a word without it makes its holder the only one.
LEMMA ClaimStep ==
    ASSUME IInv, NEW t \in Threads, NEW l \in Locks, ~HasW(word[l]),
           pc[t] = "idle" \/ (pc[t] = "wgrab" /\ target[t] = l),
           pc' = [pc EXCEPT ![t] = "drain"], target' = [target EXCEPT ![t] = l],
           SetWord(l, OrW(word[l])), calls' \in [Threads -> Nat],
           UNCHANGED <<acctVars, reads, value, desired, garbled>>
    PROVE  IInv'
<1> USE DEF IInv, acctVars
<1>1. word' = [word EXCEPT ![l] = word[l] + WBit] /\ word[l] + WBit \in Words
  BY DEF SetWord, OrW, TypeOK, Words, HasW
<1>2. TypeOK'
  <2>1. AcctTypeOK' /\ garbled' \in [Locks -> BOOLEAN]
    BY Zenon DEF TypeOK, AcctTypeOK
  <2> QED BY <1>1, <2>1 DEF TypeOK, PCs
<1>3. Bookkept'
  BY UnchangedAcct
<1>4. TargetKnown' /\ RecordAbsent'
  BY DEF TargetKnown, RecordAbsent, TypeOK
<1>5. ASSUME NEW k \in Locks, k # l PROVE Sound(k)'
  BY <1>1, <1>5, SoundElsewhere DEF TypeOK
<1>6. Sound(l)'
  <2>1. CASE garbled[l]
    BY <2>1 DEF Sound
  <2>2. CASE ~garbled[l]
    <3>1. /\ \A u \in Threads : ~HoldsBit(u, l)
          /\ word[l] = Cardinality(Readers(l)) /\ word[l] \in Nat
      BY <2>2, WordReads, ReadersFit
    <3>2. \A u \in Threads : Counted(u, l)' <=> Counted(u, l)
      BY DEF Counted, Reading, TypeOK
    <3>3. Readers(l)' = Readers(l)
      BY <3>2 DEF Readers
    <3>4. \A u \in Threads : ~Owns(u, l)' /\ ~Alone(u, l)' /\ (Claims(u, l)' <=> u = t)
      BY <3>1 DEF HoldsBit, Owns, Alone, Claims, TypeOK
    <3>5. \A u \in Threads : HoldsBit(u, l)' <=> u = t
      BY <3>4 DEF HoldsBit, Claims
    <3>6. word'[l] = Cardinality(Readers(l)') + WBit
      BY <1>1, <3>1, <3>3 DEF TypeOK
    <3> QED BY <3>4, <3>5, <3>6 DEF Sound
  <2> QED BY <2>1, <2>2
<1> QED BY <1>2, <1>3, <1>4, <1>5, <1>6

\* A writer that found the bit set, then the word at zero, tries again.
LEMMA WriteGrabStep ==
    ASSUME IInv, NEW t \in Threads, WriteGrab(t)
    PROVE  IInv'
<1> USE DEF IInv, WriteGrab, Goto
<1>1. target[t] \in Locks
  BY DEF TargetKnown
<1>2. CASE ~HasW(word[target[t]])
  <2>1. target' = [target EXCEPT ![t] = target[t]] /\ calls' \in [Threads -> Nat]
    BY DEF TypeOK
  <2> QED BY <1>1, <1>2, <2>1, ClaimStep
<1>3. CASE HasW(word[target[t]])
  <2>1. word' = word /\ pc' = [pc EXCEPT ![t] = "wclosed"]
    BY <1>1, <1>3 DEF SetWord, OrW, TypeOK
  <2>2. TypeOK'
    <3>1. AcctTypeOK' /\ garbled' \in [Locks -> BOOLEAN]
      BY Zenon DEF TypeOK, AcctTypeOK, acctVars
    <3>2. pc' \in [Threads -> PCs]
      BY <2>1 DEF TypeOK, PCs
    <3> QED BY <2>1, <3>1, <3>2 DEF TypeOK
  <2>3. Bookkept'
    BY UnchangedAcct DEF acctVars
  <2>4. TargetKnown' /\ RecordAbsent'
    BY <2>1 DEF TargetKnown, RecordAbsent, TypeOK
  <2>5. \A k \in Locks : Sound(k)'
    BY <1>1, <2>1, PassiveSound DEF Between, PCs, acctVars
  <2> QED BY <2>2, <2>3, <2>4, <2>5
<1> QED BY <1>2, <1>3

\* The readers have drained: the writer is alone.
LEMMA DrainStep ==
    ASSUME IInv, NEW t \in Threads, Drain(t)
    PROVE  IInv'
<1> USE DEF IInv, Drain, Goto, acctVars
<1> DEFINE l == target[t]
<1>1. l \in Locks /\ pc[t] = "drain"
  BY DEF TargetKnown
<1>2. TypeOK'
  <2>1. AcctTypeOK' /\ garbled' \in [Locks -> BOOLEAN]
    BY Zenon DEF TypeOK, AcctTypeOK
  <2> QED BY <2>1 DEF TypeOK, PCs
<1>3. Bookkept'
  BY UnchangedAcct
<1>4. TargetKnown' /\ RecordAbsent'
  BY DEF TargetKnown, RecordAbsent, TypeOK
<1>5. ASSUME NEW k \in Locks, k # l PROVE Sound(k)'
  BY <1>1, <1>5, SoundElsewhere DEF TypeOK
<1>6. Sound(l)'
  <2>1. CASE garbled[l]
    BY <2>1 DEF Sound
  <2>2. CASE ~garbled[l]
    <3> HIDE DEF IInv
    <3>1. HoldsBit(t, l) /\ Sound(l)
      BY <1>1 DEF HoldsBit, IInv
    <3>2. word[l] = Cardinality(Readers(l)) + WBit /\ Cardinality(Readers(l)) \in Nat
      BY <1>1, <2>2, <3>1, ReadersFit DEF Sound
    <3>3. \A u \in Threads : Counted(u, l) => u = t
      <4>1. CASE Reading(t, l)
        <5>1. Cardinality(Readers(l)) = 1
          BY <3>2, <4>1
        <5>2. PICK r : Readers(l) = {r}
          BY <1>1, <5>1, ReadersFit, FS_Singleton
        <5> QED BY <4>1, <5>2 DEF Readers, Counted
      <4>2. CASE ~Reading(t, l)
        <5>0. word[l] = WBit
          BY <4>2
        <5>1. Cardinality(Readers(l)) = 0
          <6> HIDE DEF Drain, l
          <6> QED BY <3>2, <5>0
        <5>2. Readers(l) = {}
          BY <1>1, <5>1, ReadersFit, FS_EmptySet
        <5> QED BY <5>2 DEF Readers
      <4> QED BY <4>1, <4>2
    <3>4. \A u \in Threads : /\ HoldsBit(u, l)' <=> HoldsBit(u, l)
                             /\ Counted(u, l)' <=> Counted(u, l)
                             /\ Owns(u, l)' <=> Owns(u, l)
                             /\ Claims(u, l)' <=> Claims(u, l)
                             /\ u # t => (Alone(u, l)' <=> Alone(u, l))
      BY <1>1 DEF HoldsBit, Counted, Reading, Owns, Claims, Alone, TypeOK, IInv
    <3>5. Readers(l)' = Readers(l)
      BY <3>4 DEF Readers
    <3>6. \A u, v \in Threads : Alone(u, l)' /\ Counted(v, l)' => u = v
      BY <2>2, <3>1, <3>3, <3>4 DEF Sound
    <3> QED BY <3>1, <3>4, <3>5, <3>6 DEF Sound
  <2> QED BY <2>1, <2>2
<1> QED BY <1>2, <1>3, <1>4, <1>5, <1>6

\* The writer, alone, writes its name into the data word.
LEMMA WriteAccountStep ==
    ASSUME IInv, NEW t \in Threads, WriteAccount(t)
    PROVE  IInv'
<1> USE DEF IInv, WriteAccount, Goto, Aim
<1>1. PICK l \in Locks : l = target[t] /\ pc[t] = "waccount"
  BY DEF TargetKnown
<1>2. AcquireAccounting(t, l)
  BY <1>1
<1>3. /\ AcctTypeOK' /\ Bookkept'
      /\ \A k \in Locks : k # l => data'[k].owner = data[k].owner
      /\ data'[l].owner = data[l].owner \/ (data[l].owner = NoOwner /\ data'[l].owner = t)
      /\ data[l].owner = NoOwner => data'[l].owner = t
  <2>1. CASE Renest(t, l)
    <3>1. /\ AcctTypeOK' /\ NestingMatchesOwner'
          /\ \A k \in Locks : data'[k].owner = data[k].owner
      BY <1>1, <2>1, RenestKeeps DEF Bookkept, TypeOK
    <3>2. Bookkept'
      BY <1>1, <2>1, <3>1, RelabelKeepsList DEF Bookkept, TypeOK, Renest
    <3> QED BY <1>1, <2>1, <3>1, <3>2 DEF Renest, Owns
  <2>2. CASE data[l].owner = NoOwner /\ PushHeld(t, l)
    <3>1. /\ AcctTypeOK' /\ NestingMatchesOwner'
          /\ \A k \in Locks : data'[k].owner = IF k = l THEN t ELSE data[k].owner
      BY <1>1, <2>2, PushHeldKeeps DEF Bookkept, TypeOK
    <3>2. Bookkept'
      BY <1>1, <2>2, <3>1, PushHeldKeepsList DEF Bookkept, TypeOK
    <3> QED BY <1>1, <2>2, <3>1, <3>2
  <2>3. CASE /\ Contradicted(t, l) /\ fatal' = "assert"
             /\ UNCHANGED <<data, nextLock, prevLock, exclusive>>
    <3>1. AcctTypeOK'
      BY <2>3 DEF TypeOK, AcctTypeOK, Fatality
    <3> QED BY <2>3, <3>1, UnchangedAcct DEF Contradicted
  <2> QED BY <1>2, <2>1, <2>2, <2>3 DEF AcquireAccounting
<1>4. TypeOK'
  <2>1. garbled' \in [Locks -> BOOLEAN]
    BY Zenon DEF TypeOK
  <2> QED BY <1>3, <2>1 DEF TypeOK, PCs
<1>5. TargetKnown' /\ RecordAbsent'
  BY DEF TargetKnown, RecordAbsent, TypeOK
<1>6. ASSUME NEW k \in Locks, k # l PROVE Sound(k)'
  BY <1>1, <1>3, <1>6, SoundElsewhere DEF TypeOK
<1>7. Sound(l)'
  <2>1. CASE garbled[l]
    BY <2>1 DEF Sound
  <2>2. CASE ~garbled[l]
    <3>1. HoldsBit(t, l) /\ Claims(t, l) /\ Alone(t, l)
      BY <1>1 DEF HoldsBit, Claims, Alone
    <3>2. \A u \in Threads : HoldsBit(u, l) => u = t
      BY <1>1, <2>2, <3>1 DEF Sound
    <3>3. data[l].owner = NoOwner
      <4>1. \A u \in Threads : ~Owns(u, l)
        BY <1>1, <2>2, <3>1, <3>2 DEF Sound, HoldsBit
      <4>2. data[l].owner \in Threads \cup {NoOwner}
        BY DEF TypeOK, AcctTypeOK
      <4> QED BY <4>1, <4>2 DEF Owns
    <3>4. data'[l].owner = t
      BY <1>3, <3>3
    <3>5. \A u \in Threads : /\ Owns(u, l)' <=> u = t
                             /\ HoldsBit(u, l)' <=> HoldsBit(u, l)
                             /\ Counted(u, l)' <=> Counted(u, l)
                             /\ Alone(u, l)' => Alone(u, l)
                             /\ ~(Owns(u, l)' /\ Claims(u, l)')
      BY <1>1, <3>1, <3>2, <3>4 DEF Owns, HoldsBit, Claims, Alone, Counted, Reading, TypeOK
    <3> QED BY <1>1, <2>2, <3>5, SoundKept
  <2> QED BY <2>1, <2>2
<1> QED BY <1>3, <1>4, <1>5, <1>6, <1>7

-----------------------------------------------------------------------------
(* Readers come and go.                                                    *)

\* A reader that had none gets a record.  If the step leaves the lock in
\* order it found no writer bit and added one to the word.
LEMMA JoinStep ==
    ASSUME IInv, NEW t \in Threads, NEW l \in Locks, NEW w \in Words,
           pc[t] = "idle" \/ (pc[t] = "rcas" /\ target[t] = l),
           pc' = [pc EXCEPT ![t] = "idle"], target' \in [Threads -> Locks \cup {Null}],
           \A u \in Threads : u # t => target'[u] = target[u],
           SetWord(l, w), SetRecord(t, l, 1),
           garbled' \in [Locks -> BOOLEAN],
           \A k \in Locks : k # l => garbled'[k] = garbled[k],
           ~garbled'[l] => ~garbled[l] /\ ~HasW(word[l]) /\ w = word[l] + 1 /\ ~Counted(t, l),
           value' \in [Threads -> Words], desired' \in [Threads -> Words \cup {Unset}],
           calls' \in [Threads -> Nat], UNCHANGED acctVars
    PROVE  IInv'
<1> USE DEF IInv, SetWord, SetRecord, acctVars
<1>1. TypeOK'
  <2>1. AcctTypeOK'
    BY DEF TypeOK, AcctTypeOK
  <2>2. reads' \in [Threads -> [Locks -> Nat]]
    BY DEF TypeOK
  <2> QED BY <2>1, <2>2 DEF TypeOK, PCs
<1>2. Bookkept'
  BY UnchangedAcct
<1>3. TargetKnown'
  BY DEF TargetKnown, TypeOK
<1>4. RecordAbsent'
  BY DEF RecordAbsent, TypeOK, TargetKnown
<1>r. \A u \in Threads, k \in Locks :
         reads'[u][k] = IF u = t /\ k = l THEN 1 ELSE reads[u][k]
  BY DEF TypeOK
<1>5. ASSUME NEW k \in Locks, k # l PROVE Sound(k)'
  BY <1>5, <1>r, SoundElsewhere DEF TypeOK
<1>6. Sound(l)'
  <2>1. CASE garbled'[l]
    BY <2>1 DEF Sound
  <2>2. CASE ~garbled'[l]
    <3>0. ~garbled[l] /\ ~HasW(word[l]) /\ w = word[l] + 1 /\ ~Counted(t, l)
      BY <2>2
    <3>1. /\ \A u \in Threads : ~HoldsBit(u, l)
          /\ word[l] = Cardinality(Readers(l)) /\ Cardinality(Readers(l)) \in Nat
      BY <3>0, WordReads, ReadersFit
    <3>2. Counted(t, l)' /\ \A u \in Threads : u # t => (Counted(u, l)' <=> Counted(u, l))
      BY <1>r DEF Counted, Reading, TypeOK
    <3>3. Cardinality(Readers(l)') = Cardinality(Readers(l)) + 1
      BY <3>0, <3>2, ReadersChange
    <3>4. \A u \in Threads : ~HoldsBit(u, l)' /\ ~Owns(u, l)' /\ ~Alone(u, l)'
      BY <3>1 DEF HoldsBit, Owns, Alone, TypeOK
    <3>5. word'[l] = Cardinality(Readers(l)')
      BY <3>0, <3>1, <3>3 DEF TypeOK
    <3>6. Cardinality(Readers(l)') \in Nat
      BY <3>1, <3>3
    <3> QED BY <3>4, <3>5, <3>6 DEF Sound
  <2> QED BY <2>1, <2>2
<1> QED BY <1>1, <1>2, <1>3, <1>4, <1>5, <1>6

\* The lock was free, or the CAS of the loop wins.
LEMMA ReadEnterStep ==
    ASSUME IInv, NEW t \in Threads,
           \/ \E l \in Locks : ReadFast(t, l)
           \/ \E new \in (IF desired[t] = Unset THEN Words ELSE {desired[t]}) :
                 ReadCasWins(t, new)
    PROVE  IInv'
<1> USE DEF IInv
<1>1. ASSUME NEW l \in Locks, ReadFast(t, l)
      PROVE  IInv'
  <2> USE <1>1 DEF ReadFast, NewCall
  <2>1. 1 \in Words /\ 1 = word[l] + 1 /\ ~HasW(word[l])
    <3>1. Cardinality(Threads) \in Nat /\ IsFiniteSet({t}) /\ Cardinality({t}) = 1
      BY FS_CardinalityType, FS_Singleton
    <3>2. {t} \subseteq Threads
      OBVIOUS
    <3>3. 1 <= Cardinality(Threads)
      BY <3>1, <3>2, FS_Subset
    <3> QED BY <3>1, <3>3 DEF Words, HasW
  <2>2. ~garbled[l] => ~Counted(t, l)
    <3> SUFFICES ASSUME ~garbled[l] PROVE ~Counted(t, l)
      OBVIOUS
    <3>1. Cardinality(Readers(l)) = 0
      BY <2>1, WordReads
    <3>2. Readers(l) = {}
      BY <3>1, ReadersFit, FS_EmptySet
    <3> QED BY <3>2 DEF Readers
  <2>3. garbled' \in [Locks -> BOOLEAN]
    BY Zenon DEF TypeOK
  <2>4. /\ pc' = [pc EXCEPT ![t] = "idle"] /\ calls' \in [Threads -> Nat]
        /\ target' \in [Threads -> Locks \cup {Null}]
        /\ value' \in [Threads -> Words] /\ desired' \in [Threads -> Words \cup {Unset}]
    BY DEF TypeOK
  <2> QED BY <2>1, <2>2, <2>3, <2>4, JoinStep
<1>2. ASSUME NEW new \in (IF desired[t] = Unset THEN Words ELSE {desired[t]}),
             ReadCasWins(t, new)
      PROVE  IInv'
  <2> USE <1>2 DEF ReadCasWins, Goto, Aim
  <2>1. PICK l \in Locks : l = target[t] /\ pc[t] = "rcas" /\ word[l] = value[t]
    BY DEF TargetKnown
  <2>2. new \in Words
    BY DEF TypeOK
  <2>3. ~Counted(t, l)
    BY <2>1 DEF Counted, Reading, RecordAbsent
  <2>4. garbled' = [garbled EXCEPT ![l] = @ \/ HasW(value[t]) \/ new # value[t] + 1]
    BY <2>1
  <2>5. /\ garbled' \in [Locks -> BOOLEAN]
        /\ \A k \in Locks : k # l => garbled'[k] = garbled[k]
        /\ ~garbled'[l] => ~garbled[l] /\ ~HasW(value[t]) /\ ~(new # value[t] + 1)
    BY <2>4, Zenon DEF TypeOK
  <2>6. /\ calls' \in [Threads -> Nat]
        /\ target' \in [Threads -> Locks \cup {Null}]
        /\ \A u \in Threads : u # t => target'[u] = target[u]
    BY DEF TypeOK
  <2>7. value' \in [Threads -> Words] /\ desired' \in [Threads -> Words \cup {Unset}]
    <3>1. 0 \in Words
      BY FS_CardinalityType DEF Words
    <3> QED BY <3>1 DEF TypeOK
  <2>8. /\ SetWord(l, new) /\ SetRecord(t, l, 1) /\ UNCHANGED acctVars
        /\ pc' = [pc EXCEPT ![t] = "idle"]
    BY <2>1
  <2> HIDE <1>2 DEF ReadCasWins, IInv
  <2>9. ~garbled'[l] => ~garbled[l] /\ ~HasW(word[l]) /\ new = word[l] + 1 /\ ~Counted(t, l)
    BY <2>1, <2>3, <2>5
  <2> QED BY <2>1, <2>2, <2>5, <2>6, <2>7, <2>8, <2>9, JoinStep
<1> QED BY <1>1, <1>2

\* A reader takes or gives back an inner level.
LEMMA LevelStep ==
    ASSUME IInv, NEW t \in Threads, NEW l \in Locks,
           ReadNested(t, l) \/ UnlockReadNested(t, l)
    PROVE  IInv'
<1> USE DEF IInv, ReadNested, UnlockReadNested, NewCall, acctVars
<1>1. PICK n \in Nat \ {0} : SetRecord(t, l, n)
  BY DEF TypeOK
<1>2. /\ pc[t] = "idle" /\ Reading(t, l)
      /\ UNCHANGED <<acctVars, word, pc, target, value, desired, garbled>>
      /\ calls' = calls \/ (calls' = [calls EXCEPT ![t] = @ - 1] /\ calls[t] > 0)
  BY DEF TypeOK, Reading
<1> HIDE DEF ReadNested, UnlockReadNested
<1>3. \A u \in Threads, k \in Locks :
         reads'[u][k] = IF u = t /\ k = l THEN n ELSE reads[u][k]
  BY <1>1 DEF TypeOK, SetRecord
<1>4. TypeOK'
  <2>1. AcctTypeOK' /\ garbled' \in [Locks -> BOOLEAN]
    BY <1>2, Zenon DEF TypeOK, AcctTypeOK
  <2>2. reads' \in [Threads -> [Locks -> Nat]]
    BY <1>1 DEF TypeOK, SetRecord
  <2>3. calls' \in [Threads -> Nat]
    BY <1>2 DEF TypeOK
  <2> QED BY <1>2, <2>1, <2>2, <2>3 DEF TypeOK
<1>5. Bookkept'
  BY <1>2, UnchangedAcct
<1>6. TargetKnown' /\ RecordAbsent'
  BY <1>2, <1>3 DEF TargetKnown, RecordAbsent
<1>7. ASSUME NEW k \in Locks PROVE Sound(k)'
  <2>1. \A u \in Threads : Reading(u, k)' <=> Reading(u, k)
    BY <1>2, <1>3 DEF Reading
  <2>2. CASE garbled[k]
    BY <1>2, <2>2 DEF Sound
  <2>3. CASE ~garbled[k]
    BY <1>2, <2>1, <2>3, SoundKept DEF Sound, HoldsBit, Counted, Alone, Claims, Owns
  <2> QED BY <2>2, <2>3
<1> QED BY <1>4, <1>5, <1>6, <1>7

\* The last level of reading: the record goes, the count stays for now.
LEMMA UnlockReadStep ==
    ASSUME IInv, NEW t \in Threads, NEW l \in Locks, UnlockRead(t, l)
    PROVE  IInv'
<1> USE DEF IInv, UnlockRead, Goto, Aim, SetRecord, acctVars
<1>1. TypeOK'
  <2>1. AcctTypeOK' /\ garbled' \in [Locks -> BOOLEAN]
    BY Zenon DEF TypeOK, AcctTypeOK
  <2>2. reads' \in [Threads -> [Locks -> Nat]]
    BY DEF TypeOK
  <2> QED BY <2>1, <2>2 DEF TypeOK, PCs
<1>2. \A u \in Threads, k \in Locks :
         reads'[u][k] = IF u = t /\ k = l THEN 0 ELSE reads[u][k]
  BY DEF TypeOK
<1>3. Bookkept'
  BY UnchangedAcct
<1>4. TargetKnown' /\ RecordAbsent'
  BY <1>2 DEF TargetKnown, RecordAbsent, TypeOK
<1>5. ASSUME NEW k \in Locks, k # l PROVE Sound(k)'
  BY <1>2, <1>5, SoundElsewhere DEF TypeOK
<1>6. Sound(l)'
  <2>1. CASE garbled[l]
    BY <2>1 DEF Sound
  <2>2. CASE ~garbled[l]
    <3>1. ASSUME NEW u \in Threads
          PROVE  /\ Owns(u, l)' <=> Owns(u, l)
                 /\ Claims(u, l)' <=> Claims(u, l)
                 /\ HoldsBit(u, l)' <=> HoldsBit(u, l)
                 /\ Counted(u, l)' <=> Counted(u, l)
                 /\ Alone(u, l)' <=> Alone(u, l)
      BY <1>2 DEF HoldsBit, Counted, Reading, Owns, Claims, Alone, TypeOK
    <3>2. \A u \in Threads : ~(Owns(u, l)' /\ Claims(u, l)')
      BY <2>2, <3>1 DEF Sound
    <3> QED BY <2>2, <3>1, <3>2, SoundKept
  <2> QED BY <2>1, <2>2
<1> QED BY <1>1, <1>3, <1>4, <1>5, <1>6

\* The count goes.
LEMMA DropReaderStep ==
    ASSUME IInv, NEW t \in Threads, DropReader(t)
    PROVE  IInv'
<1> USE DEF IInv, DropReader, Goto, Aim, acctVars, SetWord
<1>1. PICK l \in Locks : l = target[t] /\ pc[t] = "rdec"
  BY DEF TargetKnown
<1>2. /\ word' = [word EXCEPT ![l] = Minus1(word[l])]
      /\ Minus1(word[l]) \in Words
  <2>1. word[l] \in Words
    BY DEF TypeOK
  <2> QED BY <1>1, <2>1, WordOps
<1>3. TypeOK'
  <2>1. AcctTypeOK' /\ garbled' \in [Locks -> BOOLEAN]
    BY Zenon DEF TypeOK, AcctTypeOK
  <2>2. word' \in [Locks -> Words]
    BY <1>2 DEF TypeOK
  <2> QED BY <2>1, <2>2 DEF TypeOK, PCs
<1>4. Bookkept'
  BY UnchangedAcct
<1>5. TargetKnown' /\ RecordAbsent'
  BY DEF TargetKnown, RecordAbsent, TypeOK
<1>6. ASSUME NEW k \in Locks, k # l PROVE Sound(k)'
  BY <1>1, <1>2, <1>6, SoundElsewhere DEF TypeOK
<1>7. Sound(l)'
  <2>1. CASE garbled[l]
    BY <2>1 DEF Sound
  <2>2. CASE ~garbled[l]
    <3>1. Counted(t, l) /\ ~Counted(t, l)'
      BY <1>1 DEF Counted, Reading, RecordAbsent, TypeOK
    <3>2. \A u \in Threads :
             /\ u # t => (Counted(u, l)' <=> Counted(u, l))
             /\ HoldsBit(u, l)' <=> HoldsBit(u, l)
             /\ Owns(u, l)' <=> Owns(u, l)
             /\ Claims(u, l)' <=> Claims(u, l)
             /\ Alone(u, l)' <=> Alone(u, l)
      BY <1>1 DEF Counted, Reading, HoldsBit, Owns, Claims, Alone, TypeOK
    <3> DEFINE n == Cardinality(Readers(l))
               h == IF \E u \in Threads : HoldsBit(u, l) THEN WBit ELSE 0
    <3>3. Cardinality(Readers(l)') = n - 1
      BY <3>1, <3>2, ReadersChange
    <3>4. n \in Nat /\ h \in Nat /\ word[l] = n + h /\ n # 0
      <4>1. n # 0
        <5>1. Readers(l) # {}
          BY <3>1 DEF Readers
        <5> QED BY <5>1, ReadersFit, FS_EmptySet
      <4> QED BY <2>2, <4>1, ReadersFit DEF Sound
    <3>5. h' = h
      BY <3>2
    <3>6. word'[l] = Cardinality(Readers(l)') + h'
      <4>1. word'[l] = Minus1(word[l])
        BY <1>2 DEF TypeOK
      <4> HIDE DEF n, h
      <4>2. Minus1(word[l]) = (n - 1) + h
        BY <3>4 DEF Minus1
      <4> QED BY <3>3, <3>5, <4>1, <4>2
    <3>7. \A u, v \in Threads : Alone(u, l)' /\ Counted(v, l)' => u = v
      BY <2>2, <3>1, <3>2 DEF Sound
    <3> QED BY <2>2, <3>2, <3>6, <3>7 DEF Sound
  <2> QED BY <2>1, <2>2
<1> QED BY <1>3, <1>4, <1>5, <1>6, <1>7

-----------------------------------------------------------------------------
(* The writer leaves.                                                      *)

\* It gives back an inner level.
LEMMA UnlockWriteNestedStep ==
    ASSUME IInv, NEW t \in Threads, NEW l \in Locks, UnlockWriteNested(t, l)
    PROVE  IInv'
<1> USE DEF IInv, UnlockWriteNested, rwVars
<1>1. /\ AcctTypeOK' /\ NestingMatchesOwner'
      /\ \A k \in Locks : data'[k].owner = data[k].owner
  BY UnnestKeeps DEF Bookkept, TypeOK
<1>2. Bookkept'
  BY <1>1, RelabelKeepsList DEF Bookkept, TypeOK, Unnest
<1>3. TypeOK' /\ TargetKnown' /\ RecordAbsent'
  BY <1>1 DEF TypeOK, TargetKnown, RecordAbsent
<1>4. ASSUME NEW k \in Locks PROVE Sound(k)'
  BY <1>1, SoundKept DEF Sound, HoldsBit, Counted, Reading, Alone, Claims, Owns
<1> QED BY <1>2, <1>3, <1>4

\* It takes its name out of the data word, and still has the bit.
LEMMA UnlockWriteStep ==
    ASSUME IInv, NEW t \in Threads, NEW l \in Locks, UnlockWrite(t, l)
    PROVE  IInv'
<1> USE DEF IInv, UnlockWrite, Goto, Aim
<1>1. /\ AcctTypeOK' /\ NestingMatchesOwner'
      /\ \A k \in Locks : data'[k].owner = IF k = l THEN NoOwner ELSE data[k].owner
  BY UnlinkHeldKeeps DEF Bookkept, TypeOK
<1>2. Bookkept'
  BY <1>1, UnlinkHeldKeepsList DEF Bookkept, TypeOK
<1>3. TypeOK'
  <2>1. garbled' \in [Locks -> BOOLEAN]
    BY Zenon DEF TypeOK
  <2> QED BY <1>1, <2>1 DEF TypeOK, PCs
<1>4. TargetKnown' /\ RecordAbsent'
  BY DEF TargetKnown, RecordAbsent, TypeOK
<1>5. ASSUME NEW k \in Locks, k # l PROVE Sound(k)'
  BY <1>1, <1>5, SoundElsewhere DEF TypeOK
<1>6. Sound(l)'
  <2>1. CASE garbled[l]
    BY <2>1 DEF Sound
  <2>2. CASE ~garbled[l]
    <3>1. \A u \in Threads : HoldsBit(u, l) => u = t
      BY <2>2 DEF Sound, HoldsBit
    <3>2. \A u \in Threads : /\ ~Owns(u, l)'
                             /\ Claims(u, l)' <=> Claims(u, l) \/ u = t
                             /\ Counted(u, l)' <=> Counted(u, l)
      BY <1>1 DEF Owns, Claims, Counted, Reading, TypeOK
    <3>3. \A u \in Threads : /\ HoldsBit(u, l)' <=> HoldsBit(u, l)
                             /\ ~Alone(u, l)'
      BY <3>1, <3>2 DEF HoldsBit, Claims, Alone, TypeOK
    <3> QED BY <2>2, <3>2, <3>3, SoundKept
  <2> QED BY <2>1, <2>2
<1> QED BY <1>2, <1>3, <1>4, <1>5, <1>6

\* It clears the bit; the readers' count is what is left of the word.
LEMMA ClearWStep ==
    ASSUME IInv, NEW t \in Threads, ClearW(t)
    PROVE  IInv'
<1> USE DEF IInv, ClearW, Goto, Aim, acctVars, SetWord
<1>1. PICK l \in Locks : l = target[t] /\ pc[t] = "wclear"
  BY DEF TargetKnown
<1>2. /\ word' = [word EXCEPT ![l] = ReaderCount(word[l])]
      /\ ReaderCount(word[l]) \in Words
  <2>1. word[l] \in Words
    BY DEF TypeOK
  <2> QED BY <1>1, <2>1, WordOps
<1>3. TypeOK'
  <2>1. AcctTypeOK' /\ garbled' \in [Locks -> BOOLEAN]
    BY Zenon DEF TypeOK, AcctTypeOK
  <2>2. word' \in [Locks -> Words]
    BY <1>2 DEF TypeOK
  <2> QED BY <2>1, <2>2 DEF TypeOK, PCs
<1>4. Bookkept'
  BY UnchangedAcct
<1>5. TargetKnown' /\ RecordAbsent'
  BY DEF TargetKnown, RecordAbsent, TypeOK
<1>6. ASSUME NEW k \in Locks, k # l PROVE Sound(k)'
  BY <1>1, <1>2, <1>6, SoundElsewhere DEF TypeOK
<1>7. Sound(l)'
  <2>1. CASE garbled[l]
    BY <2>1 DEF Sound
  <2>2. CASE ~garbled[l]
    <3>1. Claims(t, l) /\ \A u \in Threads : HoldsBit(u, l) => u = t
      BY <1>1, <2>2 DEF Sound, HoldsBit, Claims
    <3>2. \A u \in Threads : ~Owns(u, l)
      BY <2>2, <3>1 DEF Sound, HoldsBit
    <3>3. \A u \in Threads : ~Owns(u, l)' /\ (Counted(u, l)' <=> Counted(u, l))
      BY <1>1, <3>2 DEF Owns, Counted, Reading, TypeOK
    <3>4. \A u \in Threads : ~HoldsBit(u, l)' /\ ~Alone(u, l)'
      BY <1>1, <3>1, <3>3 DEF HoldsBit, Alone, TypeOK
    <3>5. Readers(l)' = Readers(l)
      BY <3>3 DEF Readers
    <3>6. word'[l] = Cardinality(Readers(l)') /\ Cardinality(Readers(l)') \in Nat
      BY <1>2, <2>2, <3>5, WordReads, ReadersFit DEF TypeOK
    <3> QED BY <3>3, <3>4, <3>6 DEF Sound
  <2> QED BY <2>1, <2>2
<1> QED BY <1>3, <1>4, <1>5, <1>6, <1>7

-----------------------------------------------------------------------------
\* The invariant holds in every state of every behaviour.
THEOREM Invariance == Spec => []IInv
<1>1. IInv /\ [Next]_vars => IInv'
  <2> SUFFICES ASSUME IInv, [Next]_vars PROVE IInv'
    OBVIOUS
  <2>1. ASSUME NEW t \in Threads, Inner(t) PROVE IInv'
    BY <2>1, LoopStep, WriteGrabStep, DrainStep, WriteAccountStep, ReadEnterStep, ClearWStep,
       DropReaderStep DEF Inner, ReadCas
  <2>2. ASSUME NEW t \in Threads, NEW l \in Locks, WriteClaim(t, l) PROVE IInv'
    <3>1. calls' \in [Threads -> Nat]
      BY <2>2 DEF WriteClaim, NewCall, IInv, TypeOK
    <3> QED BY <2>2, <3>1, ClaimStep DEF WriteClaim, NewCall, Goto, Aim
  <2>3. ASSUME NEW t \in Threads, NEW l \in Locks, Call(t, l) PROVE IInv'
    BY <2>2, <2>3, RenestStep, WaitingCallStep, ReadEnterStep, LevelStep DEF Call
  <2>4. ASSUME NEW t \in Threads, NEW l \in Locks, Release(t, l) PROVE IInv'
    BY <2>4, UnlockWriteNestedStep, UnlockWriteStep, LevelStep, UnlockReadStep DEF Release
  <2>5. CASE UNCHANGED vars
    <3> USE <2>5 DEF vars, rwVars, acctVars, IInv
    <3>1. TypeOK' /\ TargetKnown' /\ RecordAbsent' /\ Bookkept'
      BY UnchangedAcct DEF TypeOK, AcctTypeOK, TargetKnown, RecordAbsent
    <3>2. ASSUME NEW l \in Locks PROVE Sound(l)'
      BY SoundKept DEF Sound, HoldsBit, Counted, Reading, Alone, Claims, Owns
    <3> QED BY <3>1, <3>2
  <2> QED BY <2>1, <2>3, <2>4, <2>5 DEF Next, Step
<1> QED BY <1>1, InitIInv, PTL DEF Spec

\* The futex word stays within writer bit and reader count, the records
\* within the naturals, and every link leads to a lock.
THEOREM TypeCorrect == Spec => []TypeOK
<1>1. IInv => TypeOK
  BY DEF IInv
<1> QED BY <1>1, Invariance, PTL

\* The word says who holds the bit and how many read, until a reader stores
\* a value it did not compute.
THEOREM WordCorrect == Spec => []WordAgrees
<1>1. IInv => WordAgrees
  BY DEF IInv, Sound, WordAgrees
<1> QED BY <1>1, Invariance, PTL

\* Until then a writer excludes every reader but itself.
THEOREM WriterAlone == Spec => []WriterExcludesReaders
<1>1. IInv => WriterExcludesReaders
  BY DEF IInv, Sound, Alone, WriterExcludesReaders
<1> QED BY <1>1, Invariance, PTL

\* The list of locks a thread must give back at its exit stays well linked
\* under write locking, whatever is in the words.
THEOREM HeldListLinked == Spec => [](ListLinked /\ NestingMatchesOwner)
<1>1. IInv => ListLinked /\ NestingMatchesOwner
  BY DEF IInv, Bookkept
<1> QED BY <1>1, Invariance, PTL
===============================================================================
