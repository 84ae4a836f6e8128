------------------------------- MODULE HiHat -------------------------------
(***************************************************************************)
(* hihat, the lock-free table the others of its family start from.         *)
(***************************************************************************)
EXTENDS RecordHat

StoreNew(size) == EmptyStore(size)

Init == Start(StoreNew(MinSize))

\* The *_mmm operations: announce the operation, read the current store, call
\* the store's operation.
Operation(t) ==
  /\ Begin(t, Locals(IF Head(todo[t]).op = "scan" THEN "scan" ELSE "probe"))
  /\ UNCHANGED <<top, heap>>

StoreGet(t) ==
  /\ Calling(t, "get")
  /\ \/ Lookup(t, Answer(t, None))
     \/ GetRecord(t, IF Rec(t).live THEN Rec(t).item ELSE None)

\* A put that loses its swap is ordered before the winner.
StorePut(t) ==
  LET c == th[t].call
      r == th[t].rec
  IN /\ Calling(t, "put")
     /\ \/ Reserve(t)
        \/ CountBucket(t)
        \/ ReadRecord(t, TRUE, FALSE)
        \/ SwapRecord(t, Candidate(c.item, r),
                      IF r.live THEN Answer(t, r.item) ELSE Step(t, [pc |-> "count"]))
        \/ LoseSwap(t, Answer(t, c.item))
        \/ CountItem(t, top.count + 1, Answer(t, None))

\* A replace goes round until it wins or sees nothing to replace.
StoreReplace(t) ==
  LET c == th[t].call
      r == th[t].rec
  IN /\ Calling(t, "replace")
     /\ \/ Lookup(t, Answer(t, None))
        \/ ReadRecord(t, Rec(t).live, Answer(t, None))
        \/ SwapRecord(t, Candidate(c.item, r), Answer(t, r.item))
        \/ LoseSwap(t, IF Rec(t).live THEN Step(t, [rec |-> Rec(t)]) ELSE Answer(t, None))

StoreAdd(t) ==
  LET c == th[t].call IN
  /\ Calling(t, "add")
  /\ \/ Reserve(t)
     \/ CountBucket(t)
     \/ ReadRecord(t, ~Rec(t).live, Answer(t, None))
     \/ SwapRecord(t, LiveRec(c.item), Step(t, [pc |-> "count"]))
     \/ LoseSwap(t, Answer(t, None))
     \/ CountItem(t, top.count + 1, Answer(t, c.item))

StoreRemove(t) ==
  /\ Calling(t, "remove")
  /\ \/ Lookup(t, Answer(t, None))
     \/ ReadRecord(t, Rec(t).live, Answer(t, None))
     \/ SwapRecord(t, Removed, Step(t, [pc |-> "count"]))
     \/ LoseSwap(t, Answer(t, None))
     \/ CountItem(t, top.count - 1, Answer(t, th[t].rec.item))

View(t) == Scan(t, LAMBDA r : r.live, LAMBDA r : r.item)

\* hihat_store_migrate up to the agreement on the next store.
FreezeStore(t) ==
  \/ EnterMigrate(t, "retry", "mark")
  \/ MarkMoving(t)
  \/ MarkEmptyMoved(t)
  \/ NextStore(t, StoreNew(NewSize(Size(th[t].st), LiveIn(th[t].st))))

\* hihat_store_migrate from there on.
MoveStore(t) ==
  \/ MoveHash(t, "move record", "move record")
  \/ MoveRecord(t, Copied(th[t].rec))
  \/ MarkMoved(t)
  \/ InstallUsed(t, LiveIn(th[t].st))
  \/ InstallStore(t)

Next == \E t \in Threads :
  \/ Operation(t) \/ StoreGet(t) \/ StorePut(t) \/ StoreReplace(t) \/ StoreAdd(t) \/ StoreRemove(t)
  \/ View(t) \/ FreezeStore(t) \/ MoveStore(t)

Spec == Init /\ [][Next]_hatVars
=============================================================================
