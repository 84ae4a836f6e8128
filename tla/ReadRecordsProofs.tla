-------------------------- MODULE ReadRecordsProofs --------------------------
(***************************************************************************)
(* Proofs about ReadRecords, for any number of locks, levels and calls.    *)
(***************************************************************************)
EXTENDS ReadRecords, FiniteSetTheorems, FunctionTheorems, TLAPS

Places == 1 .. Len(records)

\* get_read_lock_record finds the record of a lock because there is only one.
OneRecord ==
    \A p, q \in Places : records[p].obj = records[q].obj => p = q

Recorded(l) == \E p \in Places : records[p].obj = l

\* The thread is counted once for each lock it has a record of.
CountedOnce == \A l \in Locks : share[l] = IF Recorded(l) THEN 1 ELSE 0

\* The handler's `log' points into one of the lists: at a record that is
\* there, or, once it has strayed, at one that was cached before.
CursorThere ==
    /\ phase = "run" => cursor = AtEnd
    /\ cursor.in = "records" => cursor.at \in Places
    /\ cursor.in = "cache" => cursor.at \in 0 .. Len(cache)

\* The lists and the count: what the lock calls work on.
Listed == OneRecord /\ CountedOnce /\ RecordsReused

IInv == TypeOK /\ Listed /\ CursorThere

Record == [obj : Locks, nest : 1 .. MaxNesting]

-----------------------------------------------------------------------------
(* The operators on the lists.                                             *)

\* What get_read_lock_record returns: the record of the lock, if it has one.
LEMMA PlaceFound ==
    ASSUME TypeOK, OneRecord, NEW l \in Locks
    PROVE  \/ PlaceOf(l) = 0 /\ ~Recorded(l)
           \/ PlaceOf(l) \in Places /\ records[PlaceOf(l)].obj = l /\ PlaceOf(l) # 0
<1> DEFINE found == {i \in 1 .. Len(records) : records[i].obj = l}
<1>0. Len(records) \in Nat
  BY DEF TypeOK
<1>1. PlaceOf(l) = IF found # {} THEN Min(found) ELSE 0
  BY DEF PlaceOf, SelectInSeq
<1>2. CASE found = {}
  BY <1>1, <1>2 DEF Recorded, Places
<1>3. CASE found # {}
  <2>1. PICK p \in Places : records[p].obj = l
    BY <1>3 DEF Places
  <2>2. found = {p}
    BY <2>1 DEF OneRecord, Places
  <2>3. Min(found) = p
    BY <2>1, <2>2, <1>0 DEF Min, Places
  <2>4. QED
    BY <1>0, <1>1, <1>3, <2>1, <2>3 DEF Places
<1>4. QED
  BY <1>2, <1>3

\* Taking one element out of a sequence shifts the ones behind it.
LEMMA Removed ==
    ASSUME NEW S, NEW s \in Seq(S), NEW p \in 1 .. Len(s)
    PROVE  /\ RemoveAt(s, p) \in Seq(S)
           /\ Len(RemoveAt(s, p)) = Len(s) - 1
           /\ \A i \in 1 .. Len(s) - 1 :
                RemoveAt(s, p)[i] = IF i < p THEN s[i] ELSE s[i + 1]
<1> DEFINE a == SubSeq(s, 1, p - 1)
           b == SubSeq(s, p + 1, Len(s))
<1>0. Len(s) \in Nat /\ p \in Nat
  OBVIOUS
<1>1. a \in Seq(S) /\ Len(a) = p - 1 /\ \A i \in 1 .. p - 1 : a[i] = s[i]
  BY <1>0
<1>2. b \in Seq(S) /\ Len(b) = Len(s) - p /\ \A i \in 1 .. Len(s) - p : b[i] = s[p + i]
  BY <1>0
<1>3. RemoveAt(s, p) = a \o b
  BY DEF RemoveAt
<1> HIDE DEF a, b
<1>4. a \o b \in Seq(S) /\ Len(a \o b) = Len(s) - 1
  <2>0. a \in Seq(S) /\ b \in Seq(S)
    BY <1>1, <1>2
  <2>1. a \o b \in Seq(S) /\ Len(a \o b) = Len(a) + Len(b)
    BY <2>0
  <2>2. QED
    BY <2>1, <1>0, <1>1, <1>2
<1>5. ASSUME NEW i \in 1 .. Len(s) - 1
      PROVE  (a \o b)[i] = IF i < p THEN s[i] ELSE s[i + 1]
  <2>1. CASE i < p
    BY <2>1, <1>0, <1>1, <1>2
  <2>2. CASE ~(i < p)
    <3>1. (a \o b)[i] = b[i - (p - 1)]
      BY <2>2, <1>0, <1>1, <1>2
    <3>2. i - (p - 1) \in 1 .. Len(s) - p
      BY <2>2, <1>0
    <3>3. QED
      BY <3>1, <3>2, <2>2, <1>0, <1>2
  <2>3. QED
    BY <2>1, <2>2
<1>6. QED
  BY <1>3, <1>4, <1>5

\* Records of different locks are not more than the locks.
LEMMA RecordsFit ==
    ASSUME NEW s \in Seq(Record), \A p, q \in 1 .. Len(s) : s[p].obj = s[q].obj => p = q
    PROVE  Len(s) <= Cardinality(Locks)
<1> DEFINE f == [p \in 1 .. Len(s) |-> s[p].obj]
<1>0. Len(s) \in Nat
  OBVIOUS
<1>1. f \in [1 .. Len(s) -> Locks]
  <2>1. \A p \in 1 .. Len(s) : s[p] \in Record
    OBVIOUS
  <2>2. \A p \in 1 .. Len(s) : s[p].obj \in Locks
    BY <2>1 DEF Record
  <2>3. QED
    BY <2>2
<1>2. \A p, q \in 1 .. Len(s) : f[p] = f[q] => p = q
  OBVIOUS
<1> HIDE DEF f
<1>3. f \in Injection(1 .. Len(s), Locks)
  BY <1>1, <1>2, Fun_IsInj
<1>4. Cardinality(1 .. Len(s)) <= Cardinality(Locks)
  BY <1>3, FS_Injection, RecordsAssumption
<1>5. Cardinality(1 .. Len(s)) = Len(s)
  <2>1. Cardinality(1 .. Len(s)) = IF 1 > Len(s) THEN 0 ELSE Len(s) - 1 + 1
    BY <1>0, FS_Interval
  <2>2. QED
    BY <2>1, <1>0
<1>6. QED
  BY <1>4, <1>5

-----------------------------------------------------------------------------
(* The lock calls keep the lists and the count in step.                    *)

\* add_read_record takes a record from the cache, or allocates one only when
\* every record there is is in use.
LEMMA Adds ==
    ASSUME TypeOK, Listed, NEW l \in Locks, PlaceOf(l) = 0,
           AddReadRecord(l), share' = [share EXCEPT ![l] = @ + 1]
    PROVE  /\ records' \in Seq(Record) /\ cache' \in Seq(Locks) /\ share' \in [Locks -> Int]
           /\ Listed'
<1> DEFINE r == [obj |-> l, nest |-> 1]
<1>0. ~Recorded(l)
  BY PlaceFound DEF Listed, Places
<1>1. /\ records \in Seq(Record) /\ r \in Record /\ Len(records) \in Nat
      /\ Cardinality(Locks) \in Nat
  BY RecordsAssumption, FS_CardinalityType DEF TypeOK, Record
<1>2. records' = <<r>> \o records
  BY DEF AddReadRecord
<1> HIDE DEF r
<1>3. /\ records' \in Seq(Record) /\ Len(records') = Len(records) + 1
      /\ records'[1] = r
      /\ \A i \in 2 .. Len(records) + 1 : records'[i] = records[i - 1]
  BY <1>1, <1>2
<1>4. OneRecord'
  <2> SUFFICES ASSUME NEW p \in 1 .. Len(records) + 1, NEW q \in 1 .. Len(records) + 1,
                      records'[p].obj = records'[q].obj
               PROVE  p = q
    BY <1>3 DEF OneRecord, Places
  <2>1. \A i \in 2 .. Len(records) + 1 :
          i - 1 \in Places /\ records'[i].obj = records[i - 1].obj /\ records'[i].obj # l
    BY <1>0, <1>1, <1>3 DEF Recorded, Places
  <2>2. records'[1].obj = l
    BY <1>3 DEF r
  <2>3. CASE p = 1 \/ q = 1
    BY <2>1, <2>2, <2>3, <1>1
  <2>4. CASE p # 1 /\ q # 1
    <3>1. p - 1 = q - 1
      BY <2>1, <2>4, <1>1 DEF Listed, OneRecord
    <3>2. QED
      BY <3>1
  <2>5. QED
    BY <2>3, <2>4
<1>5. CountedOnce'
  <2> SUFFICES ASSUME NEW m \in Locks
               PROVE  share'[m] = IF Recorded(m)' THEN 1 ELSE 0
    BY DEF CountedOnce
  <2>1. share[m] = IF Recorded(m) THEN 1 ELSE 0
    BY DEF Listed, CountedOnce
  <2>2. Recorded(m)' <=> (m = l \/ Recorded(m))
    <3>1. Recorded(m)' => m = l \/ Recorded(m)
      <4> SUFFICES ASSUME NEW p \in 1 .. Len(records) + 1, records'[p].obj = m, p # 1
                   PROVE  Recorded(m)
        BY <1>3 DEF Recorded, Places, r
      <4>1. p - 1 \in Places /\ records[p - 1].obj = m
        BY <1>1, <1>3 DEF Places
      <4>2. QED
        BY <4>1 DEF Recorded
    <3>2. Recorded(m) => Recorded(m)'
      <4> SUFFICES ASSUME NEW p \in Places, records[p].obj = m
                   PROVE  Recorded(m)'
        BY DEF Recorded
      <4>1. p + 1 \in 1 .. Len(records') /\ records'[p + 1] = records[p]
        BY <1>1, <1>3 DEF Places
      <4>2. QED
        BY <4>1 DEF Recorded, Places
    <3>3. Recorded(l)'
      BY <1>1, <1>3 DEF Recorded, Places, r
    <3>4. QED
      BY <3>1, <3>2, <3>3
  <2>3. QED
    BY <2>1, <2>2, <1>0 DEF TypeOK
<1>6. cache' \in Seq(Locks) /\ RecordsReused'
  <2>1. CASE cache = << >>
    <3>1. cache' = << >>
      BY <2>1 DEF AddReadRecord
    <3>2. Len(records') <= Cardinality(Locks)
      BY <1>3, <1>4, RecordsFit DEF OneRecord, Places
    <3>3. QED
      BY <3>1, <3>2, <1>1, <1>3 DEF RecordsReused
  <2>2. CASE cache # << >>
    <3>1. cache' = Tail(cache) /\ cache \in Seq(Locks)
      BY <2>2 DEF AddReadRecord, TypeOK
    <3>2. cache' \in Seq(Locks) /\ Len(cache') = Len(cache) - 1 /\ Len(cache) \in Nat
      BY <3>1, <2>2
    <3>3. QED
      BY <3>2, <1>1, <1>3 DEF RecordsReused, Listed
  <2>3. QED
    BY <2>1, <2>2
<1>7. QED
  BY <1>3, <1>4, <1>5, <1>6 DEF Listed, TypeOK

\* A change of nesting level changes no record's place and no count.
LEMMA SameLocks ==
    ASSUME TypeOK, Listed, NEW p \in Places, NEW n \in 1 .. MaxNesting,
           records' = [records EXCEPT ![p].nest = n], UNCHANGED <<cache, share>>
    PROVE  records' \in Seq(Record) /\ Len(records') = Len(records) /\ Listed'
<1>1. records \in Seq(Record) /\ Len(records) \in Nat
  BY DEF TypeOK, Record
<1>2. [records[p] EXCEPT !.nest = n] \in Record
  <2>1. records[p] \in Record
    BY <1>1 DEF Places
  <2>2. QED
    BY <2>1 DEF Record
<1>3. records' = [records EXCEPT ![p] = [records[p] EXCEPT !.nest = n]]
  OBVIOUS
<1>4. records' \in Seq(Record) /\ Len(records') = Len(records)
  BY <1>1, <1>2, <1>3 DEF Places
<1>5. \A i \in Places : records'[i].obj = records[i].obj
  <2> TAKE i \in Places
  <2>0. records[p] \in Record
    BY <1>1 DEF Places
  <2>1. [records[p] EXCEPT !.nest = n].obj = records[p].obj
    BY <2>0 DEF Record
  <2>2. QED
    BY <1>1, <1>3, <2>1 DEF Places
<1>6. Places' = Places
  BY <1>4 DEF Places
<1>7. OneRecord'
  BY <1>5, <1>6 DEF Listed, OneRecord
<1>8. \A l \in Locks : Recorded(l)' <=> Recorded(l)
  BY <1>5, <1>6 DEF Recorded
<1>9. QED
  BY <1>4, <1>7, <1>8 DEF Listed, CountedOnce, RecordsReused

\* n00b_rw_unlock with the last level: the record changes lists and the
\* thread is counted no longer.
LEMMA Drops ==
    ASSUME TypeOK, Listed, NEW l \in Locks, NEW p \in Places, records[p].obj = l,
           records' = RemoveAt(records, p), cache' = <<l>> \o cache,
           share' = [share EXCEPT ![l] = @ - 1]
    PROVE  /\ records' \in Seq(Record) /\ cache' \in Seq(Locks) /\ share' \in [Locks -> Int]
           /\ Len(cache') = Len(cache) + 1
           /\ Listed'
<1>1. records \in Seq(Record) /\ Len(records) \in Nat /\ p \in 1 .. Len(records)
  BY DEF TypeOK, Record, Places
<1>2. /\ records' \in Seq(Record) /\ Len(records') = Len(records) - 1
      /\ \A i \in 1 .. Len(records) - 1 :
           records'[i] = IF i < p THEN records[i] ELSE records[i + 1]
  BY <1>1, Removed
<1>3. /\ cache' \in Seq(Locks) /\ Len(cache') = Len(cache) + 1
      /\ Len(cache) \in Nat /\ Cardinality(Locks) \in Nat
  BY RecordsAssumption, FS_CardinalityType DEF TypeOK
<1> DEFINE old(i) == IF i < p THEN i ELSE i + 1
<1>4. \A i \in Places' : old(i) \in Places /\ old(i) # p /\ records'[i] = records[old(i)]
  BY <1>1, <1>2 DEF Places
<1>5. \A i \in Places : i # p => \E j \in Places' : old(j) = i
  <2> SUFFICES ASSUME NEW i \in Places, i # p
               PROVE  \E j \in Places' : old(j) = i
    OBVIOUS
  <2>1. CASE i < p
    <3>1. i \in Places' /\ old(i) = i
      BY <1>1, <1>2, <2>1 DEF Places
    <3>2. QED
      BY <3>1
  <2>2. CASE i > p
    <3>1. i - 1 \in Places' /\ old(i - 1) = i
      BY <1>1, <1>2, <2>2 DEF Places
    <3>2. QED
      BY <3>1
  <2>3. QED
    BY <2>1, <2>2, <1>1 DEF Places
<1>6. \A i, j \in Places' : old(i) = old(j) => i = j
  BY <1>1, <1>2 DEF Places
<1> HIDE DEF old
<1>7. OneRecord'
  BY <1>4, <1>6 DEF Listed, OneRecord
<1>8. CountedOnce'
  <2> SUFFICES ASSUME NEW m \in Locks
               PROVE  share'[m] = IF Recorded(m)' THEN 1 ELSE 0
    BY DEF CountedOnce
  <2>1. share[m] = IF Recorded(m) THEN 1 ELSE 0
    BY DEF Listed, CountedOnce
  <2>2. Recorded(m)' <=> m # l /\ Recorded(m)
    <3>1. ASSUME NEW i \in Places', records'[i].obj = m
          PROVE  m # l /\ Recorded(m)
      BY <3>1, <1>4 DEF Recorded, Listed, OneRecord
    <3>2. ASSUME NEW i \in Places, records[i].obj = m, m # l
          PROVE  Recorded(m)'
      <4>1. PICK j \in Places' : old(j) = i
        BY <3>2, <1>5
      <4>2. records'[j].obj = m
        BY <4>1, <3>2, <1>4
      <4>3. QED
        BY <4>1, <4>2 DEF Recorded
    <3>3. QED
      BY <3>1, <3>2 DEF Recorded
  <2>3. Recorded(l)
    BY DEF Recorded
  <2>4. QED
    BY <2>1, <2>2, <2>3 DEF TypeOK
<1>9. RecordsReused'
  BY <1>1, <1>2, <1>3 DEF Listed, RecordsReused
<1>10. QED
  BY <1>2, <1>3, <1>7, <1>8, <1>9 DEF Listed, TypeOK

\* n00b_rw_unlock by a reader: the cache never loses a record by it, and only
\* the record of that lock, at its last level, leaves read_locks.
LEMMA Unlocks ==
    ASSUME TypeOK, Listed, NEW l \in Locks, RwUnlock(l)
    PROVE  /\ records' \in Seq(Record) /\ cache' \in Seq(Locks) /\ share' \in [Locks -> Int]
           /\ Len(cache') \in Nat /\ Len(cache') >= Len(cache)
           /\ \A p \in Places : records[p].obj = l /\ records[p].nest # 1
                                    => Len(records') = Len(records)
           /\ Listed'
<1>1. records \in Seq(Record) /\ cache \in Seq(Locks) /\ Len(records) \in Nat
  BY DEF TypeOK, Record
<1>2. CASE PlaceOf(l) = 0
  <2>1. UNCHANGED <<records, cache, share>>
    BY <1>2 DEF RwUnlock
  <2>2. QED
    BY <2>1, <1>1 DEF Listed, OneRecord, CountedOnce, RecordsReused, Recorded, Places, TypeOK
<1>3. CASE PlaceOf(l) # 0
  <2> DEFINE p == PlaceOf(l)
  <2>1. p \in Places /\ records[p].obj = l
    BY <1>3, PlaceFound DEF Listed
  <2>2. records[p] \in Record
    BY <1>1, <2>1 DEF Places
  <2>3. \A q \in Places : records[q].obj = l => q = p
    BY <2>1 DEF Listed, OneRecord
  <2>4. CASE records[p].nest > 1
    <3>1. /\ records' = [records EXCEPT ![p].nest = records[p].nest - 1]
          /\ UNCHANGED <<cache, share>>
      BY <1>3, <2>2, <2>4 DEF RwUnlock, Record
    <3>2. records[p].nest - 1 \in 1 .. MaxNesting
      BY <2>2, <2>4, RecordsAssumption DEF Record
    <3> HIDE DEF p
    <3>3. records' \in Seq(Record) /\ Len(records') = Len(records) /\ Listed'
      BY <2>1, <3>1, <3>2, SameLocks
    <3>4. QED
      BY <3>1, <3>3, <1>1 DEF TypeOK
  <2>5. CASE ~(records[p].nest > 1)
    <3>1. records[p].nest = 1
      BY <2>2, <2>5, RecordsAssumption DEF Record
    <3>2. /\ records' = RemoveAt(records, p)
          /\ cache' = <<l>> \o cache
          /\ share' = [share EXCEPT ![l] = @ - 1]
      BY <1>3, <2>5 DEF RwUnlock
    <3> HIDE DEF p
    <3>3. /\ records' \in Seq(Record) /\ cache' \in Seq(Locks) /\ share' \in [Locks -> Int]
          /\ Len(cache') = Len(cache) + 1
          /\ Listed'
      BY <2>1, <3>2, Drops
    <3>4. QED
      BY <3>1, <3>3, <2>3, <1>1
  <2>6. QED
    BY <2>4, <2>5
<1>4. QED
  BY <1>2, <1>3

-----------------------------------------------------------------------------
(* The invariant.                                                          *)

LEMMA InitHolds == Init => IInv
<1> SUFFICES ASSUME Init PROVE IInv
  OBVIOUS
<1>1. records = << >> /\ cache = << >> /\ Len(records) = 0 /\ Len(cache) = 0
  BY DEF Init
<1>2. TypeOK
  BY RecordsAssumption DEF Init, TypeOK, AtEnd, Cursors
<1>3. Places = {}
  BY <1>1 DEF Places
<1>4. OneRecord /\ CountedOnce
  BY <1>3 DEF OneRecord, CountedOnce, Recorded, Init
<1>5. RecordsReused
  <2>1. Cardinality(Locks) \in Nat
    BY RecordsAssumption, FS_CardinalityType
  <2>2. QED
    BY <1>1, <2>1 DEF RecordsReused
<1>6. CursorThere
  BY <1>1 DEF CursorThere, Init, AtEnd
<1>7. QED
  BY <1>2, <1>4, <1>5, <1>6 DEF IInv, Listed

LEMMA ReadLockKeeps ==
    ASSUME IInv, NEW l \in Locks, ReadLock(l)
    PROVE  IInv'
<1> USE DEF IInv
<1>1. /\ phase = "run" /\ UNCHANGED <<phase, cursor>> /\ calls' \in 0 .. MaxCalls
      /\ cursor = AtEnd
  BY RecordsAssumption DEF ReadLock, TypeOK, CursorThere
<1>2. /\ records' \in Seq(Record) /\ cache' \in Seq(Locks) /\ share' \in [Locks -> Int]
      /\ Listed'
  <2>1. CASE PlaceOf(l) = 0
    BY <2>1, Adds DEF ReadLock
  <2>2. CASE PlaceOf(l) # 0
    <3> DEFINE p == PlaceOf(l)
    <3>1. p \in Places
      BY <2>2, PlaceFound DEF Listed
    <3>2. /\ records' = [records EXCEPT ![p].nest = records[p].nest + 1]
          /\ records[p].nest < MaxNesting /\ UNCHANGED <<cache, share>>
      BY <2>2 DEF ReadLock
    <3>3. records[p].nest + 1 \in 1 .. MaxNesting
      <4>1. records[p] \in Record
        <5>1. records \in Seq(Record)
          BY DEF TypeOK, Record
        <5> HIDE DEF p
        <5>2. QED
          BY <5>1, <3>1 DEF Places
      <4>2. QED
        BY <4>1, <3>2, RecordsAssumption DEF Record
    <3> HIDE DEF p
    <3>4. QED
      BY <3>1, <3>2, <3>3, SameLocks DEF TypeOK
  <2>3. QED
    BY <2>1, <2>2
<1>3. Len(cache') \in Nat
  BY <1>2
<1>4. QED
  BY <1>1, <1>2, <1>3 DEF TypeOK, Record, CursorThere, AtEnd, Cursors

LEMMA UnlockKeeps ==
    ASSUME IInv, NEW l \in Locks, Unlock(l)
    PROVE  IInv'
<1> USE DEF IInv
<1>1. /\ phase = "run" /\ UNCHANGED <<phase, cursor, calls>> /\ cursor = AtEnd
  BY DEF Unlock, CursorThere
<1>2. /\ records' \in Seq(Record) /\ cache' \in Seq(Locks) /\ share' \in [Locks -> Int]
      /\ Len(cache') \in Nat
      /\ Listed'
  BY Unlocks DEF Unlock
<1>3. QED
  BY <1>1, <1>2 DEF TypeOK, Record, CursorThere, AtEnd, Cursors

\* The handler's step: `log' stays inside the lists although the list under
\* it changes.
LEMMA ExitStepKeeps ==
    ASSUME IInv, ExitStep
    PROVE  IInv'
<1> USE DEF IInv
<1>0. /\ records \in Seq(Record) /\ cache \in Seq(Locks) /\ cursor \in Cursors
      /\ Len(records) \in Nat /\ Len(cache) \in Nat
      /\ cursor' = Follow /\ phase = "walk" /\ UNCHANGED <<phase, calls>>
      /\ RwUnlock(CursorLock)
  BY DEF TypeOK, Record, ExitStep
<1>1. /\ cursor.in \in {"records", "cache"}
      /\ cursor.in = "cache" => cursor.at \in 1 .. Len(cache)
  BY <1>0 DEF CursorThere, Cursors, AtEnd, ExitStep
<1>2. CursorLock \in Locks
  <2>1. CASE cursor.in = "records"
    <3>1. records[cursor.at] \in Record
      BY <2>1, <1>0 DEF CursorThere, Places
    <3>2. QED
      BY <3>1, <2>1 DEF CursorLock, Record
  <2>2. CASE cursor.in = "cache"
    <3>1. Len(cache) - cursor.at + 1 \in 1 .. Len(cache)
      BY <2>2, <1>0, <1>1
    <3>2. cache[Len(cache) - cursor.at + 1] \in Locks
      BY <3>1, <1>0
    <3>3. QED
      BY <3>2, <2>2 DEF CursorLock
  <2>3. QED
    BY <2>1, <2>2, <1>1
<1>3. /\ records' \in Seq(Record) /\ cache' \in Seq(Locks) /\ share' \in [Locks -> Int]
      /\ Len(cache') \in Nat /\ Len(cache') >= Len(cache)
      /\ \A p \in Places : records[p].obj = CursorLock /\ records[p].nest # 1
                               => Len(records') = Len(records)
      /\ Listed'
  BY <1>0, <1>2, Unlocks
<1>4. /\ cursor' \in Cursors
      /\ cursor'.in = "records" => cursor'.at \in Places'
      /\ cursor'.in = "cache" => cursor'.at \in 0 .. Len(cache')
  <2>1. CASE cursor.in = "cache"
    <3>1. cursor' = [cursor EXCEPT !.at = cursor.at - 1]
      BY <2>1, <1>0 DEF Follow, Retires
    <3>2. cursor'.in = "cache" /\ cursor'.at = cursor.at - 1 /\ cursor' \in Cursors
      BY <3>1, <2>1, <1>0, <1>1 DEF Cursors
    <3>3. QED
      BY <3>2, <2>1, <1>0, <1>1, <1>3
  <2>2. CASE cursor.in = "records" /\ Retires
    <3>1. cursor' = [in |-> "cache", at |-> Len(cache)]
      BY <2>2, <1>0 DEF Follow
    <3>2. QED
      BY <3>1, <1>0, <1>3 DEF Cursors
  <2>3. CASE cursor.in = "records" /\ ~Retires
    <3>1. cursor.at \in Places /\ Len(records') = Len(records)
      BY <2>3, <1>3 DEF CursorThere, CursorLock, Retires
    <3>2. cursor' = IF cursor.at = Len(records) THEN AtEnd
                    ELSE [cursor EXCEPT !.at = cursor.at + 1]
      BY <2>3, <1>0 DEF Follow
    <3>3. CASE cursor.at = Len(records)
      BY <3>2, <3>3, <1>3 DEF AtEnd, Cursors
    <3>4. CASE cursor.at # Len(records)
      BY <3>1, <3>2, <3>4, <2>3, <1>0 DEF Cursors, Places
    <3>5. QED
      BY <3>3, <3>4
  <2>4. QED
    BY <2>1, <2>2, <2>3, <1>1
<1>5. QED
  BY <1>0, <1>3, <1>4 DEF TypeOK, Record, CursorThere

LEMMA NextHolds == IInv /\ [Next]_vars => IInv'
<1> SUFFICES ASSUME IInv, [Next]_vars PROVE IInv'
  OBVIOUS
<1>1. ASSUME NEW l \in Locks, ReadLock(l) PROVE IInv'
  BY <1>1, ReadLockKeeps
<1>2. ASSUME NEW l \in Locks, Unlock(l) PROVE IInv'
  BY <1>2, UnlockKeeps
<1>3. CASE BeginExit
  <2>1. Len(records) \in Nat /\ (records # << >> => Len(records) > 0) /\ Len(cache) \in Nat
    BY DEF IInv, TypeOK
  <2>2. UNCHANGED <<records, cache, share, calls>> /\ phase' = "walk"
    BY <1>3 DEF BeginExit
  <2>3. cursor' = IF records = << >> THEN AtEnd ELSE [in |-> "records", at |-> 1]
    BY <1>3 DEF BeginExit
  <2>4. TypeOK' /\ CursorThere'
    BY <2>1, <2>2, <2>3 DEF IInv, TypeOK, Cursors, AtEnd, CursorThere, Places
  <2>5. Listed'
    BY <2>2 DEF IInv, Listed, OneRecord, CountedOnce, RecordsReused, Recorded, Places
  <2>6. QED
    BY <2>4, <2>5 DEF IInv
<1>4. CASE ExitStep
  BY <1>4, ExitStepKeeps
<1>5. CASE EndExit
  BY <1>5 DEF EndExit, IInv, TypeOK, Listed, OneRecord, CountedOnce, RecordsReused, Recorded,
              Places, CursorThere
<1>6. CASE UNCHANGED vars
  BY <1>6 DEF vars, IInv, TypeOK, Listed, OneRecord, CountedOnce, RecordsReused, Recorded,
              Places, CursorThere
<1>7. QED
  BY <1>1, <1>2, <1>3, <1>4, <1>5, <1>6 DEF Next

\* The lists, the count and the handler's cursor agree in every state: what
\* the theorems below are read off from.
THEOREM Invariance == Spec => []IInv
BY InitHolds, NextHolds, PTL DEF Spec

-----------------------------------------------------------------------------

\* The lists hold records of locks with at least one level, and the exit
\* handler's cursor is one of the places there are.
THEOREM TypeCorrect == Spec => []TypeOK
<1>1. IInv => TypeOK
  BY DEF IInv
<1>2. QED
  BY <1>1, Invariance, PTL

\* However read locks are nested, given back and taken over by the exit
\* handler, the reader count holds the thread's share exactly while
\* read_locks has the lock's record, once (add_read_record, n00b_rw_unlock).
THEOREM ShareRecorded == Spec => []ShareIsRecorded
<1>1. IInv => ShareIsRecorded
  <2> SUFFICES ASSUME IInv, NEW l \in Locks
               PROVE  share[l] = Cardinality({p \in 1 .. Len(records) : records[p].obj = l})
    BY DEF ShareIsRecorded
  <2> DEFINE found == {p \in 1 .. Len(records) : records[p].obj = l}
  <2>1. CASE Recorded(l)
    <3>1. PICK p \in Places : records[p].obj = l
      BY <2>1 DEF Recorded
    <3>2. found = {p}
      BY <3>1 DEF IInv, Listed, OneRecord, Places
    <3>3. Cardinality(found) = 1
      BY <3>2, FS_Singleton
    <3>4. QED
      BY <3>3, <2>1 DEF IInv, Listed, CountedOnce
  <2>2. CASE ~Recorded(l)
    <3>1. found = {}
      BY <2>2 DEF Recorded, Places
    <3>2. Cardinality(found) = 0
      BY <3>1, FS_EmptySet
    <3>3. QED
      BY <3>2, <2>2 DEF IInv, Listed, CountedOnce
  <2>3. QED
    BY <2>1, <2>2
<1>2. QED
  BY <1>1, Invariance, PTL

\* A thread never allocates more read records than there are locks: one is
\* allocated only when the cache is empty and every record is in use.
THEOREM RecordsBounded == Spec => []RecordsReused
<1>1. IInv => RecordsReused
  BY DEF IInv, Listed
<1>2. QED
  BY <1>1, Invariance, PTL
=============================================================================
