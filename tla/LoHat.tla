------------------------------- MODULE LoHat -------------------------------
(***************************************************************************)
(* lohat, the table with consistent views the others of its family start   *)
(* from: head pointers with two flag bits, swapped whole.                  *)
(***************************************************************************)
EXTENDS HistoryHat

\* lohat_store_new
StoreNew(size) == CellStore(size)

\* lohat_init_size
Init == StartHistory(StoreNew(MinSize))

Operation(t) == Enter(t)

\* lohat_view_mmm
View(t) ==
  /\ Calling(t, "view")
  /\ \/ ViewStore(t, Size(top.current))
     \/ ViewBucket(t, th[t].i)
     \/ HelpCommit(t, "help", "see")
     \/ ViewRecord(t, heap[th[t].st].hv[th[t].i])
     \/ ViewEnd(t)

\* lohat_store_get
StoreGet(t) ==
  /\ Calling(t, "get")
  /\ \/ Lookup(t, Answer(t, None))
     \/ GetHead(t)
     \/ HelpCommit(t, "help", "answer")
     \/ GetItem(t)

\* lohat_store_put
StorePut(t) ==
  LET c == th[t].call
      old == th[t].rec
  IN /\ Calling(t, "put")
     /\ \/ WriterReserve(t)
        \/ CountBucket(t)
        \/ ReadHead(t, TRUE, FALSE, "help")
        \/ HelpCommit(t, "help", "swap")
        \/ SwapHead(t, c.item, TRUE, "commit")
        \/ LoseSwap(t, Answer(t, c.item))
        \/ CommitWrite(t, "end")
        \/ IF LiveCell(old) THEN Retire(t, top.count, ItemIn(old)) ELSE Retire(t, top.count + 1, None)

\* lohat_store_replace: the new record keeps pointing at the head read first.
StoreReplace(t) ==
  LET c == th[t].call IN
  /\ Calling(t, "replace")
  /\ \/ WriterLookup(t, Answer(t, None))
     \/ ReadHead(t, LiveCell(Rec(t)), Answer(t, None), "help")
     \/ HelpCommit(t, "help", "swap")
     \/ SwapHead(t, c.item, TRUE, "commit")
     \/ LoseSwap(t, IF LiveCell(Rec(t)) THEN Step(t, [pc |-> "help", rec |-> Rec(t)]) ELSE Answer(t, None))
     \/ CommitWrite(t, "end")
     \/ Retire(t, top.count, ItemIn(th[t].rec))

\* lohat_store_add: a removed head is committed only after it is replaced.
StoreAdd(t) ==
  LET c == th[t].call IN
  /\ Calling(t, "add")
  /\ \/ WriterReserve(t)
     \/ CountBucket(t)
     \/ ReadHead(t, ~LiveCell(Rec(t)), Answer(t, None), "swap")
     \/ SwapHead(t, c.item, TRUE, "count")
     \/ LoseSwap(t, Answer(t, None))
     \/ CountItem(t, top.count + 1, Step(t, [pc |-> IF th[t].rec.head = 0 THEN "commit" ELSE "help"]))
     \/ HelpCommit(t, "help", "commit")
     \/ CommitWrite(t, "end")
     \/ Retire(t, top.count, c.item)

\* lohat_store_remove
StoreRemove(t) ==
  /\ Calling(t, "remove")
  /\ \/ WriterLookup(t, Answer(t, None))
     \/ ReadHead(t, LiveCell(Rec(t)), Answer(t, None), "swap")
     \/ SwapHead(t, None, FALSE, "help")
     \/ LoseSwap(t, Answer(t, None))
     \/ HelpCommit(t, "help", "commit")
     \/ CommitWrite(t, "end")
     \/ Retire(t, top.count - 1, ItemIn(th[t].rec))

\* lohat_store_migrate up to the agreement on the next store.
FreezeStore(t) ==
  \/ EnterMigrate(t, "retry", "mark")
  \/ MarkHead(t, Size(th[t].st) - 1)
  \/ HelpCommit(t, "help gone", "retire gone")
  \/ RetireGone(t)
  \/ NextHistory(t, Size(th[t].st) - 1, StoreNew(NewSize(Size(th[t].st), LiveHeads(th[t].st))))

\* lohat_store_migrate from there on.
MoveStore(t) ==
  \/ MoveHash(t, "move record", "move record")
  \/ MoveHead(t, "moved")
  \/ MarkMoved(t)
  \/ InstallUsed(t, LiveHeads(th[t].st))
  \/ InstallStore(t)

Next == \E t \in Threads :
  \/ Operation(t) \/ StoreGet(t) \/ StorePut(t) \/ StoreReplace(t) \/ StoreAdd(t) \/ StoreRemove(t)
  \/ View(t) \/ Stamp(t) \/ FreezeStore(t) \/ MoveStore(t)
=============================================================================
