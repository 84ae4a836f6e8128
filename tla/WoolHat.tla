------------------------------- MODULE WoolHat -------------------------------
(***************************************************************************)
(* woolhat, the wait-free lohat: the flags have a word of their own beside *)
(* the head.  A writer does not go round more than once: a remove that     *)
(* loses a race sets a flag that asks whoever comes next to finish it, and *)
(* a writer sent to migrate too often asks for larger stores.  A remove    *)
(* tells only whether there was something to remove: its call is discard.  *)
(*                                                                         *)
(* Four fields of top are history: over and under count the calls that     *)
(* left item_count too large or too small by one when they met a request   *)
(* to remove, leaked is the set of records such a call did not retire, and *)
(* crossed says that two removes got in each other's way: one claimed the  *)
(* removal of the other, or left its request on an item already removed.   *)
(***************************************************************************)
EXTENDS HistoryHat

CONSTANT RetryThreshold   \* HATRACK_RETRY_THRESHOLD

\* woolhat_store_new
StoreNew(size) == CellStore(size)

\* woolhat_init_size
Init ==
  BeginsWith(StoreNew(MinSize), CellOf,
             [epoch |-> Len(Preload) + 1, recs |-> OldRecords(Preload),
              over |-> 0, under |-> 0, leaked |-> {}, crossed |-> FALSE])

Operation(t) == Enter(t)

\* woolhat_view_mmm
View(t) ==
  /\ Calling(t, "view")
  /\ \/ ViewStore(t, Size(top.current))
     \/ ViewBucket(t, th[t].i)
     \/ HelpCommit(t, "help", "see")
     \/ ViewRecord(t, heap[th[t].st].hv[th[t].i])
     \/ ViewEnd(t)

\* woolhat_store_get
StoreGet(t) ==
  /\ Calling(t, "get")
  /\ \/ Lookup(t, Answer(t, None))
     \/ GetHead(t)
     \/ HelpCommit(t, "help", "answer")
     \/ GetItem(t)

\* A call that asked for help withdraws its request before it answers.
Reply(t, res) ==
  IF th[t].tries >= RetryThreshold THEN Step(t, [pc |-> "withdraw", res |-> res]) ELSE Answer(t, res)

Withdraw(t) ==
  /\ th[t].pc = "withdraw"
  /\ top' = [top EXCEPT !.help = @ - 1]
  /\ Answer(t, th[t].res)
  /\ UNCHANGED <<todo, heap>>

\* woolhat_help_required: the RetryThreshold-th retry, and only that one.
AskHelp(t) ==
  /\ th[t].pc = "retry"
  /\ top' = [top EXCEPT !.help = IF th[t].tries + 1 = RetryThreshold THEN @ + 1 ELSE @]
  /\ Step(t, [pc |-> "migrate", tries |-> th[t].tries + 1])
  /\ UNCHANGED <<todo, heap>>

\* found_history_bucket: a writer commits the head it read whatever it is, ...
ReadState(t) ==
  \/ /\ th[t].pc = "record"
     /\ Step(t, [pc |-> IF Rec(t).head = 0 THEN "decide" ELSE "help", rec |-> Rec(t), from |-> Rec(t).head])
     /\ UNCHANGED <<todo, top, heap>>
  \/ HelpCommit(t, "help", "decide")

\* ... and decides then.
Decide(t, chosen) ==
  /\ th[t].pc = "decide"
  /\ chosen
  /\ UNCHANGED <<todo, top, heap>>

Retry(t) == Step(t, [pc |-> "retry"])

\* The head that was replaced is retired, item_count adjusted, the call answered;
\* off says in which history fields a wrong count is noted.
Replaced(t, count, res, off) ==
  LET h == th[t].from IN
  /\ th[t].pc = "end"
  /\ top' = [top EXCEPT !.count = count,
                        !.over  = IF off = "over" THEN @ + 1 ELSE @,
                        !.under = IF off = "under" THEN @ + 1 ELSE @,
                        !.recs  = IF h = 0 THEN @ ELSE [@ EXCEPT ![h].retired = @ + 1]]
  /\ Reply(t, res)
  /\ UNCHANGED <<todo, heap>>

\* woolhat_store_put: over a head that is to be removed the put is an insertion,
\* and the item it inserts makes up for the one removed.  It is not counted either
\* if the request stands on a head that is removed, and counted out, already.
StorePut(t) ==
  LET c == th[t].call
      old == th[t].rec
  IN /\ Calling(t, "put")
     /\ \/ WriterReserve(t)
        \/ CountBucket(t)
        \/ ReadState(t)
        \/ Decide(t, IF old.moving THEN Retry(t) ELSE Step(t, [pc |-> "swap"]))
        \/ SwapHead(t, c.item, TRUE, "commit")
        \/ LoseSwap(t, Reply(t, c.item))
        \/ CommitWrite(t, "end")
        \/ CASE ~LiveCell(old) /\ (old.head = 0 \/ ~old.del) -> Replaced(t, top.count + 1, None, "")
             [] ~LiveCell(old) /\ old.head # 0 /\ old.del    -> Replaced(t, top.count, None, "under")
             [] LiveCell(old) /\ old.del                     -> Replaced(t, top.count, None, "")
             [] OTHER                                        -> Replaced(t, top.count, ItemIn(old), "")

\* A head that is to be removed is removed, but neither committed, retired nor
\* counted out.
FinishRemove(t) ==
  LET n == Len(top.recs) + 1 IN
  /\ th[t].pc = "finish"
  /\ \/ /\ Rec(t) = th[t].rec
        /\ heap' = [heap EXCEPT ![th[t].st].rec[th[t].b] = [EmptyCell EXCEPT !.head = n]]
        /\ top' = [top EXCEPT !.recs = Append(@, Record(None, FALSE, th[t].from)),
                              !.over = @ + 1, !.leaked = @ \cup {th[t].from}]
        /\ Reply(t, None)
     \/ /\ Rec(t) # th[t].rec
        /\ IF Rec(t).moving THEN Retry(t) ELSE Reply(t, None)
        /\ UNCHANGED <<top, heap>>
  /\ UNCHANGED todo

\* woolhat_store_replace
StoreReplace(t) ==
  LET c == th[t].call
      old == th[t].rec
  IN /\ Calling(t, "replace")
     /\ \/ WriterLookup(t, Reply(t, None))
        \/ ReadState(t)
        \/ Decide(t, CASE ~LiveCell(old)               -> Reply(t, None)
                       [] LiveCell(old) /\ old.moving  -> Retry(t)
                       [] OTHER                        -> Step(t, [pc |-> IF old.del THEN "finish" ELSE "swap"]))
        \/ FinishRemove(t)
        \/ SwapHead(t, c.item, TRUE, "commit")
        \/ LoseSwap(t, Reply(t, c.item))
        \/ CommitWrite(t, "end")
        \/ Replaced(t, top.count, ItemIn(old), "")

\* woolhat_store_add: it counts its item even where a remove was asked for.
StoreAdd(t) ==
  LET c == th[t].call
      old == th[t].rec
  IN /\ Calling(t, "add")
     /\ \/ WriterReserve(t)
        \/ CountBucket(t)
        \/ ReadState(t)
        \/ Decide(t, CASE old.moving -> Retry(t)
                       [] ~old.moving /\ LiveCell(old) /\ ~old.del -> Reply(t, None)
                       [] OTHER -> Step(t, [pc |-> "swap"]))
        \/ SwapHead(t, c.item, TRUE, "count")
        \/ LoseSwap(t, Reply(t, None))
        \/ CountItem(t, top.count + 1, Step(t, [pc |-> "commit"]))
        \/ CommitWrite(t, "end")
        \/ Replaced(t, top.count, c.item, IF LiveCell(old) THEN "over" ELSE "")

\* The remove that lost its swap asks others to finish it.  The flags the OR
\* finds are not tested for a migration.  If another remove was faster, the request
\* stays on its record: it makes a put or an add that has read the record lose its
\* swap though nothing was written.
AskRemove(t) ==
  LET mine == th[t].mine /\ ~Rec(t).del IN
  /\ th[t].pc = "ask"
  /\ heap' = [heap EXCEPT ![th[t].st].rec[th[t].b].del = TRUE]
  /\ IF LiveCell(Rec(t))
     THEN Step(t, [pc |-> "swap asked", mine |-> mine, rec |-> [Rec(t) EXCEPT !.del = TRUE], from |-> Rec(t).head])
     ELSE Reply(t, None)
  /\ top' = [top EXCEPT !.crossed = @ \/ ~LiveCell(Rec(t))]
  /\ UNCHANGED todo

\* It tries once more itself; if that fails too, another has removed the item or
\* written another one, unless a migration has only frozen it.  It then reports an
\* item found even if the request was another's.
SwapAsked(t) ==
  LET n == Len(top.recs) + 1
      unserved == Rec(t).del /\ Rec(t).head = th[t].from /\ Rec(t).moving
  IN
  /\ th[t].pc = "swap asked"
  /\ \/ /\ Rec(t) = th[t].rec
        /\ heap' = [heap EXCEPT ![th[t].st].rec[th[t].b] = [EmptyCell EXCEPT !.head = n]]
        /\ top' = [top EXCEPT !.recs = Append(@, Record(None, FALSE, th[t].from))]
        /\ Step(t, [pc |-> "commit", new |-> n, res |-> IF th[t].mine THEN "found" ELSE None])
     \/ /\ Rec(t) # th[t].rec
        /\ IF unserved THEN Retry(t) ELSE Reply(t, "found")
        /\ top' = [top EXCEPT !.crossed = @ \/ (~unserved /\ ~th[t].mine)]
        /\ UNCHANGED heap
  /\ UNCHANGED todo

\* A remove that finds a request of another and serves it with its own first swap
\* reports an item found, as the other does: both claim the one removal.
SwapForAnother(t) ==
  LET n == Len(top.recs) + 1 IN
  /\ th[t].pc = "swap" /\ Rec(t) = th[t].rec
  /\ heap' = [heap EXCEPT ![th[t].st].rec[th[t].b] = [EmptyCell EXCEPT !.head = n]]
  /\ top' = [top EXCEPT !.recs = Append(@, Record(None, FALSE, th[t].from)), !.crossed = TRUE]
  /\ Step(t, [pc |-> "commit", new |-> n])
  /\ UNCHANGED todo

\* woolhat_store_remove
StoreRemove(t) ==
  LET old == th[t].rec IN
  /\ Calling(t, "discard")
  /\ \/ WriterLookup(t, Reply(t, None))
     \/ ReadState(t)
     \/ Decide(t, CASE ~LiveCell(old)              -> Reply(t, None)
                    [] LiveCell(old) /\ old.moving -> Retry(t)
                    [] OTHER                       -> Step(t, [pc |-> "swap", mine |-> ~old.del, res |-> "found"]))
     \/ th[t].mine /\ SwapHead(t, None, FALSE, "commit")
     \/ ~th[t].mine /\ SwapForAnother(t)
     \/ LoseSwap(t, IF th[t].mine /\ LiveCell(Rec(t)) THEN Step(t, [pc |-> "ask"]) ELSE Reply(t, None))
     \/ AskRemove(t)
     \/ SwapAsked(t)
     \/ CommitWrite(t, "end")
     \/ Replaced(t, top.count - 1, th[t].res, "")

\* The first loop marks an empty or removed bucket twice: as moving, as moved.
FreezeBucket(t) ==
  LET s == th[t].st
      i == FirstFrom(s, th[t].i, LAMBDA c : c.moving)
  IN /\ th[t].pc = "mark" /\ i < Size(s)
     /\ heap' = [heap EXCEPT ![s].rec[i].moving = TRUE]
     /\ Step(t, IF LiveCell(heap[s].rec[i]) THEN [i |-> i + 1] ELSE [pc |-> "mark moved", i |-> i])
     /\ UNCHANGED <<todo, top>>

\* The second mark tells who commits and retires the record of a remove.
FreezeGone(t) ==
  LET c == heap[th[t].st].rec[th[t].i] IN
  /\ th[t].pc = "mark moved"
  /\ heap' = [heap EXCEPT ![th[t].st].rec[th[t].i].moved = TRUE]
  /\ Step(t, [i |-> th[t].i + 1]
             @@ IF c.head # 0 /\ ~c.moved THEN [pc |-> "help gone", rec |-> c] ELSE [pc |-> "mark"])
  /\ UNCHANGED <<todo, top>>

\* woolhat_need_to_help: while help is needed the next store is twice as large.
NewStore(s) == StoreNew(IF top.help > 0 THEN 2 * Size(s) ELSE NewSize(Size(s), LiveHeads(s)))

\* woolhat_store_migrate up to the agreement on the next store.
FreezeStore(t) ==
  \/ EnterMigrate(t, "migrate", "mark")
  \/ FreezeBucket(t)
  \/ FreezeGone(t)
  \/ HelpCommit(t, "help gone", "retire gone")
  \/ RetireGone(t)
  \/ NextHistory(t, Size(th[t].st) - 1, NewStore(th[t].st))

\* woolhat_store_migrate from there on.
MoveStore(t) ==
  \/ MoveHash(t, "move record", "move record")
  \/ MoveHead(t, "moved")
  \/ MarkMoved(t)
  \/ InstallUsed(t, LiveHeads(th[t].st))
  \/ InstallStore(t)

Next == \E t \in Threads :
  \/ Operation(t) \/ StoreGet(t) \/ StorePut(t) \/ StoreReplace(t) \/ StoreAdd(t) \/ StoreRemove(t)
  \/ View(t) \/ Stamp(t) \/ AskHelp(t) \/ Withdraw(t) \/ FreezeStore(t) \/ MoveStore(t)
=============================================================================
