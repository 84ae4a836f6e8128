------------------------------ MODULE WitchHat ------------------------------
(***************************************************************************)
(* witchhat: hihat made wait-free.  A writer that lost its swap gives up   *)
(* at once, a writer that overwrote something helps a migration that is    *)
(* due, and a writer sent to migrate too often asks for help: while help   *)
(* is needed every migration doubles the store.                            *)
(*                                                                         *)
(* WITCHHAT_F_MOVED is written as an octal literal and lies inside         *)
(* WITCHHAT_EPOCH_MASK: a record marked as moved reads as having an epoch. *)
(***************************************************************************)
EXTENDS RecordHat

CONSTANT RetryThreshold   \* HATRACK_RETRY_THRESHOLD

\* record.info & WITCHHAT_EPOCH_MASK
HasEpoch(r) == r.live \/ r.moved

\* The item of a record that has an epoch; it is NULL in one without an item.
Value(r) == IF r.item = None THEN "NULL" ELSE r.item

StoreNew(size) == EmptyStore(size)

Init == Start(StoreNew(MinSize))

\* The *_mmm operations.
Operation(t) ==
  /\ Begin(t, Locals(IF Head(todo[t]).op = "scan" THEN "scan" ELSE "probe"))
  /\ UNCHANGED <<top, heap>>

\* An operation that asked for help has to withdraw its request first.
Ends(t, res) ==
  IF th[t].tries >= RetryThreshold
  THEN Step(t, [pc |-> "answer", res |-> res])
  ELSE Answer(t, res)

\* need_to_help_dec
Withdraw(t) ==
  /\ th[t].pc = "answer"
  /\ top' = [top EXCEPT !.help = IF th[t].tries >= RetryThreshold THEN @ - 1 ELSE @]
  /\ Answer(t, th[t].res)
  /\ UNCHANGED <<todo, heap>>

\* migrate_and_retry: the RetryThreshold-th retry, and only that one, asks for help.
AskHelp(t) ==
  /\ th[t].pc = "retry"
  /\ top' = [top EXCEPT !.help = IF th[t].tries + 1 = RetryThreshold THEN @ + 1 ELSE @]
  /\ Step(t, [pc |-> "migrate", tries |-> th[t].tries + 1])
  /\ UNCHANGED <<todo, heap>>

\* A writer that is done helps if the store has reached its threshold.
HelpIfDue(t) ==
  /\ th[t].pc = "due"
  /\ \/ heap[th[t].st].used >= Threshold(Size(th[t].st)) /\ Step(t, [pc |-> "migrate", then |-> "answer"])
     \/ heap[th[t].st].used < Threshold(Size(th[t].st)) /\ Ends(t, th[t].res)
  /\ UNCHANGED <<todo, top, heap>>

StoreGet(t) ==
  /\ Calling(t, "get")
  /\ \/ Lookup(t, Answer(t, None))
     \/ GetRecord(t, IF HasEpoch(Rec(t)) THEN Value(Rec(t)) ELSE None)

\* A put over an old item that loses its swap looks whether a migration is due
\* before it hands its own item back.
StorePut(t) ==
  LET c == th[t].call
      r == th[t].rec
  IN /\ Calling(t, "put")
     /\ \/ Reserve(t)
        \/ CountBucket(t)
        \/ ReadRecord(t, TRUE, FALSE)
        \/ SwapRecord(t, Candidate(c.item, r), IF r.live THEN Ends(t, r.item) ELSE Step(t, [pc |-> "count"]))
        \/ LoseSwap(t, IF r.live THEN Step(t, [pc |-> "due", res |-> c.item]) ELSE Ends(t, c.item))
        \/ CountItem(t, top.count + 1, Ends(t, None))

StoreReplace(t) ==
  LET c == th[t].call
      r == th[t].rec
  IN /\ Calling(t, "replace")
     /\ \/ Lookup(t, Ends(t, None))
        \/ ReadRecord(t, HasEpoch(Rec(t)), Ends(t, None))
        \/ SwapRecord(t, Candidate(c.item, r), Step(t, [pc |-> "due", res |-> r.item]))
        \/ LoseSwap(t, Ends(t, None))

StoreAdd(t) ==
  LET c == th[t].call IN
  /\ Calling(t, "add")
  /\ \/ Reserve(t)
     \/ CountBucket(t)
     \/ ReadRecord(t, ~HasEpoch(Rec(t)), Ends(t, None))
     \/ SwapRecord(t, LiveRec(c.item), Step(t, [pc |-> "count"]))
     \/ LoseSwap(t, Ends(t, None))
     \/ CountItem(t, top.count + 1, Ends(t, c.item))

StoreRemove(t) ==
  /\ Calling(t, "remove")
  /\ \/ Lookup(t, Ends(t, None))
     \/ ReadRecord(t, HasEpoch(Rec(t)), Ends(t, None))
     \/ SwapRecord(t, Removed, Step(t, [pc |-> "count", res |-> th[t].rec.item]))
     \/ LoseSwap(t, Ends(t, None))
     \/ CountItem(t, top.count - 1, Step(t, [pc |-> "due"]))

View(t) == Scan(t, HasEpoch, Value)

\* One bucket of the first loop of witchhat_store_migrate.  The count takes a
\* record that another thread has already marked as moved for an item.
MarkBucket(t) ==
  LET s == th[t].st
      i == th[t].i
      r == heap[s].rec[i]
  IN /\ th[t].pc = "mark" /\ i < Size(s)
     /\ heap' = [heap EXCEPT ![s].rec[i].moving = TRUE]
     /\ Step(t, IF r.moving \/ HasEpoch(r)
                THEN [i |-> i + 1, used |-> th[t].used + (IF HasEpoch(r) THEN 1 ELSE 0)]
                ELSE [pc |-> "mark moved"])
     /\ UNCHANGED <<todo, top>>

\* witchhat_store_migrate up to the agreement on the next store, which is twice
\* as large while somebody needs help.
FreezeStore(t) ==
  \/ EnterMigrate(t, "migrate", "mark")
  \/ MarkBucket(t)
  \/ MarkEmptyMoved(t)
  \/ /\ th[t].pc = "mark" /\ th[t].i = Size(th[t].st)
     /\ AgreeOnNext(t, StoreNew(IF top.help > 0 THEN 2 * Size(th[t].st)
                                ELSE NewSize(Size(th[t].st), th[t].used)))

MoveStore(t) ==
  \/ MoveHash(t, "move record", "move record")
  \/ MoveRecord(t, Copied(th[t].rec))
  \/ MarkMoved(t)
  \/ InstallUsed(t, th[t].used)
  \/ InstallStore(t)

Next == \E t \in Threads :
  \/ Operation(t) \/ StoreGet(t) \/ StorePut(t) \/ StoreReplace(t) \/ StoreAdd(t) \/ StoreRemove(t)
  \/ View(t) \/ AskHelp(t) \/ Withdraw(t) \/ HelpIfDue(t) \/ FreezeStore(t) \/ MoveStore(t)
=============================================================================
