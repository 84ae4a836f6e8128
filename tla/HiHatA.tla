------------------------------- MODULE HiHatA -------------------------------
(***************************************************************************)
(* hihat_a: hihat with a late helper of a migration that first sleeps,     *)
(* twice, in the hope that the migration ends without it, and then skips   *)
(* the first loop.  A sleep is the time between two steps.                 *)
(***************************************************************************)
EXTENDS RecordHat

StoreNew(size) == EmptyStore(size)

Init == Start(StoreNew(MinSize))

\* The *_mmm operations.
Operation(t) ==
  /\ Begin(t, Locals(IF Head(todo[t]).op = "scan" THEN "scan" ELSE "probe"))
  /\ UNCHANGED <<top, heap>>

StoreGet(t) ==
  /\ Calling(t, "get")
  /\ \/ Lookup(t, Answer(t, None))
     \/ GetRecord(t, IF Rec(t).live THEN Rec(t).item ELSE None)

StorePut(t) ==
  LET c == th[t].call
      r == th[t].rec
  IN /\ Calling(t, "put")
     /\ \/ Reserve(t)
        \/ CountBucket(t)
        \/ ReadRecord(t, TRUE, FALSE)
        \/ SwapRecord(t, Candidate(c.item, r),
                      IF r.live THEN Answer(t, r.item) ELSE Step(t, [pc |-> "count"]))
        \/ LoseSwap(t, Answer(t, c.item))
        \/ CountItem(t, top.count + 1, Answer(t, None))

StoreReplace(t) ==
  LET c == th[t].call
      r == th[t].rec
  IN /\ Calling(t, "replace")
     /\ \/ Lookup(t, Answer(t, None))
        \/ ReadRecord(t, Rec(t).live, Answer(t, None))
        \/ SwapRecord(t, Candidate(c.item, r), Answer(t, r.item))
        \/ LoseSwap(t, IF Rec(t).live THEN Step(t, [rec |-> Rec(t)]) ELSE Answer(t, None))

StoreAdd(t) ==
  LET c == th[t].call IN
  /\ Calling(t, "add")
  /\ \/ Reserve(t)
     \/ CountBucket(t)
     \/ ReadRecord(t, ~Rec(t).live, Answer(t, None))
     \/ SwapRecord(t, LiveRec(c.item), Step(t, [pc |-> "count"]))
     \/ LoseSwap(t, Answer(t, None))
     \/ CountItem(t, top.count + 1, Answer(t, c.item))

StoreRemove(t) ==
  /\ Calling(t, "remove")
  /\ \/ Lookup(t, Answer(t, None))
     \/ ReadRecord(t, Rec(t).live, Answer(t, None))
     \/ SwapRecord(t, Removed, Step(t, [pc |-> "count"]))
     \/ LoseSwap(t, Answer(t, None))
     \/ CountItem(t, top.count - 1, Answer(t, th[t].rec.item))

View(t) == Scan(t, LAMBDA r : r.live, LAMBDA r : r.item)

\* A helper that finds the next store agreed on sleeps once or twice.  If the
\* store is current after a sleep it is done; otherwise it moves buckets.
Sleep(t) ==
  LET next == heap[th[t].st].next IN
  /\ th[t].pc \in {"sleep", "sleep again"}
  /\ \/ next = top.current /\ Migrated(t, next)
     \/ next # top.current /\ th[t].pc = "sleep" /\ Step(t, [pc |-> "sleep again"])
     \/ next # top.current /\ th[t].pc = "sleep again" /\ Step(t, [pc |-> "move", i |-> 0, ns |-> next])
  /\ UNCHANGED <<todo, top, heap>>

\* hihat_a_store_migrate up to the agreement on the next store.
FreezeStore(t) ==
  \/ EnterMigrate(t, "retry", "look")
  \/ /\ th[t].pc = "look"
     /\ Step(t, [pc |-> IF heap[th[t].st].next # 0 THEN "sleep" ELSE "mark"])
     /\ UNCHANGED <<todo, top, heap>>
  \/ MarkMoving(t)
  \/ MarkEmptyMoved(t)
  \/ NextStore(t, StoreNew(NewSize(Size(th[t].st), LiveIn(th[t].st))))

\* have_new_store: the copy of a record is marked as written.
MoveStore(t) ==
  \/ MoveHash(t, "move record", "move record")
  \/ MoveRecord(t, [Copied(th[t].rec) EXCEPT !.inited = TRUE])
  \/ MarkMoved(t)
  \/ InstallUsed(t, LiveIn(th[t].st))
  \/ InstallStore(t)

Next == \E t \in Threads :
  \/ Operation(t) \/ StoreGet(t) \/ StorePut(t) \/ StoreReplace(t) \/ StoreAdd(t) \/ StoreRemove(t)
  \/ View(t) \/ FreezeStore(t) \/ Sleep(t) \/ MoveStore(t)
=============================================================================
