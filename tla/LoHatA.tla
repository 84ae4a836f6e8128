------------------------------- MODULE LoHatA -------------------------------
(***************************************************************************)
(* lohat_a: lohat with the histories in an array of their own, in the      *)
(* order of their first writes.  A bucket is a hash value and a pointer    *)
(* into the array; a history has its hash value again, and its head.  The  *)
(* array is as long as the threshold of the store, and a store whose array *)
(* is used up is migrated.                                                 *)
(***************************************************************************)
EXTENDS HistoryHat

\* lohat_a_store_new: hv and ptr are ptr_buckets (0 is no pointer, n + 1 points
\* at history n), hist and rec the hash values and heads of hist_buckets.
StoreNew(size) ==
  [hv |-> [b \in 0..(size - 1) |-> 0], ptr |-> [b \in 0..(size - 1) |-> 0],
   hist |-> [n \in 0..(Threshold(size) - 1) |-> 0], rec |-> [n \in 0..(Threshold(size) - 1) |-> EmptyCell],
   used |-> 0, next |-> 0, retired |-> 0]

Histories(s) == Cardinality(DOMAIN heap[s].rec)

\* lohat_a_init_size, and the puts of Preload; used stands for hist_next.
Init ==
  LET new  == StoreNew(MinSize)
      hv   == Placed(MinSize, Preload)
      N    == Len(Preload)
  IN /\ \A n \in 1..N : Preload[n][1] \notin {Preload[m][1] : m \in 1..(n - 1)}
     /\ BeginsAs([new EXCEPT
          !.hv   = hv,
          !.ptr  = [b \in DOMAIN hv |-> IF hv[b] = 0 THEN 0 ELSE CHOOSE n \in 1..N : Preload[n][1] = hv[b]],
          !.hist = [n \in DOMAIN new.hist |-> IF n < N THEN Preload[n + 1][1] ELSE 0],
          !.rec  = [n \in DOMAIN new.rec |-> IF n < N THEN [EmptyCell EXCEPT !.head = n + 1] ELSE EmptyCell],
          !.used = N], [epoch |-> N + 1, recs |-> OldRecords(Preload)])

Operation(t) == Enter(t)

\* lohat_a_view_mmm: the histories handed out when the view began.
View(t) ==
  /\ Calling(t, "view")
  /\ \/ ViewStore(t, Min({heap[top.current].used, Histories(top.current)}))
     \/ ViewBucket(t, th[t].i)
     \/ HelpCommit(t, "help", "see")
     \/ ViewRecord(t, heap[th[t].st].hist[th[t].i])
     \/ ViewEnd(t)

\* A writer finds the bucket with the pointer, or, if there is none, absent.
FindPtr(t, absent) ==
  LET s == th[t].st
      k == th[t].call.key
  IN /\ th[t].pc = "probe"
     /\ IF WriterFinds(s, k) THEN Step(t, [pc |-> "ptr", pb |-> WriterStop(s, k)]) /\ UNCHANGED heap
        ELSE absent
     /\ UNCHANGED <<todo, top>>

ReservePtr(t) ==
  LET s == th[t].st
      k == th[t].call.key
  IN \/ /\ WriterFree(s, k)
        /\ heap' = [heap EXCEPT ![s].hv[WriterStop(s, k)] = k]
        /\ Step(t, [pc |-> "ptr", pb |-> WriterStop(s, k)])
     \/ WriterStops(s, k) = {} /\ Step(t, [pc |-> "retry"]) /\ UNCHANGED heap

Missing(t) == Answer(t, None) /\ UNCHANGED heap

\* get looks at every bucket.
GetPtr(t) ==
  LET s == th[t].st
      k == th[t].call.key
  IN /\ th[t].pc = "probe"
     /\ IF Found(s, k) THEN Step(t, [pc |-> "ptr", pb |-> Stop(s, k)]) ELSE Answer(t, None)
     /\ UNCHANGED <<todo, top, heap>>

Ptr(t) == heap[th[t].st].ptr[th[t].pb]

FollowPtr(t, pc, null) ==
  /\ th[t].pc = "ptr"
  /\ IF Ptr(t) = 0 THEN null ELSE Step(t, [pc |-> pc, b |-> Ptr(t) - 1])
  /\ UNCHANGED <<todo, top, heap>>

\* atomic_fetch_add of hist_next: a history for the key, or none is left.
TakeHistory(t) ==
  LET n == heap[th[t].st].used IN
  /\ th[t].pc = "take"
  /\ heap' = [heap EXCEPT ![th[t].st].used = @ + 1]
  /\ Step(t, IF n >= Histories(th[t].st) THEN [pc |-> "retry"] ELSE [pc |-> "take ptr", b |-> n])
  /\ UNCHANGED <<todo, top>>

\* The first to set the pointer decides which history the key has.
InstallPtr(t) ==
  /\ th[t].pc = "take ptr"
  /\ heap' = [heap EXCEPT ![th[t].st].ptr[th[t].pb] = IF @ = 0 THEN th[t].b + 1 ELSE @]
  /\ Step(t, [pc |-> "hist", b |-> heap'[th[t].st].ptr[th[t].pb] - 1])
  /\ UNCHANGED <<todo, top>>

SetHistoryHash(t) ==
  /\ th[t].pc = "hist"
  /\ heap' = [heap EXCEPT ![th[t].st].hist[th[t].b] = IF @ = 0 THEN th[t].call.key ELSE @]
  /\ Step(t, [pc |-> "record"])
  /\ UNCHANGED <<todo, top>>

AcquireHistory(t) ==
  \/ FindPtr(t, ReservePtr(t))
  \/ FollowPtr(t, "hist", Step(t, [pc |-> "take"]))
  \/ TakeHistory(t)
  \/ InstallPtr(t)
  \/ SetHistoryHash(t)

\* lohat_a_store_get
StoreGet(t) ==
  /\ Calling(t, "get")
  /\ \/ GetPtr(t)
     \/ FollowPtr(t, "record", Answer(t, None))
     \/ GetHead(t)
     \/ HelpCommit(t, "help", "answer")
     \/ GetItem(t)

\* lohat_a_store_put
StorePut(t) ==
  LET c == th[t].call
      old == th[t].rec
  IN /\ Calling(t, "put")
     /\ \/ AcquireHistory(t)
        \/ ReadHead(t, TRUE, FALSE, "help")
        \/ HelpCommit(t, "help", "swap")
        \/ SwapHead(t, c.item, TRUE, "commit")
        \/ LoseSwap(t, Answer(t, c.item))
        \/ CommitWrite(t, "end")
        \/ IF LiveCell(old) THEN Retire(t, top.count, ItemIn(old)) ELSE Retire(t, top.count + 1, None)

\* lohat_a_store_replace: the new record keeps pointing at the head read first.
StoreReplace(t) ==
  LET c == th[t].call IN
  /\ Calling(t, "replace")
  /\ \/ FindPtr(t, Missing(t))
     \/ FollowPtr(t, "record", Answer(t, None))
     \/ ReadHead(t, LiveCell(Rec(t)), Answer(t, None), "help")
     \/ HelpCommit(t, "help", "swap")
     \/ SwapHead(t, c.item, TRUE, "commit")
     \/ LoseSwap(t, IF LiveCell(Rec(t)) THEN Step(t, [pc |-> "help", rec |-> Rec(t)]) ELSE Answer(t, None))
     \/ CommitWrite(t, "end")
     \/ Retire(t, top.count, ItemIn(th[t].rec))

\* lohat_a_store_add
StoreAdd(t) ==
  LET c == th[t].call IN
  /\ Calling(t, "add")
  /\ \/ AcquireHistory(t)
     \/ ReadHead(t, ~LiveCell(Rec(t)), Answer(t, None), "swap")
     \/ SwapHead(t, c.item, TRUE, "count")
     \/ LoseSwap(t, Answer(t, None))
     \/ CountItem(t, top.count + 1, Step(t, [pc |-> IF th[t].rec.head = 0 THEN "commit" ELSE "help"]))
     \/ HelpCommit(t, "help", "commit")
     \/ CommitWrite(t, "end")
     \/ Retire(t, top.count, c.item)

\* A history without a hash value has not been written.
HasHistoryHash(t) ==
  /\ th[t].pc = "hist"
  /\ IF heap[th[t].st].hist[th[t].b] = 0 THEN Answer(t, None) ELSE Step(t, [pc |-> "record"])
  /\ UNCHANGED <<todo, top, heap>>

\* lohat_a_store_remove
StoreRemove(t) ==
  /\ Calling(t, "remove")
  /\ \/ FindPtr(t, Missing(t))
     \/ FollowPtr(t, "hist", Answer(t, None))
     \/ HasHistoryHash(t)
     \/ ReadHead(t, LiveCell(Rec(t)), Answer(t, None), "swap")
     \/ SwapHead(t, None, FALSE, "help")
     \/ LoseSwap(t, Answer(t, None))
     \/ HelpCommit(t, "help", "commit")
     \/ CommitWrite(t, "end")
     \/ Retire(t, top.count - 1, ItemIn(th[t].rec))

\* lohat_a_store_migrate up to the agreement on the next store; it does not ask
\* whether the store is still current.
FreezeStore(t) ==
  \/ /\ th[t].pc = "retry"
     /\ Step(t, [pc |-> "mark", i |-> 0])
     /\ UNCHANGED <<todo, top, heap>>
  \/ MarkHead(t, Histories(th[t].st) - 1)
  \/ HelpCommit(t, "help gone", "retire gone")
  \/ RetireGone(t)
  \/ NextHistory(t, Histories(th[t].st) - 1, StoreNew(NewSize(Size(th[t].st), LiveHeads(th[t].st))))

\* The next history to move: it goes to the place after the live ones before it.
Unmoved(s, i) == {n \in DOMAIN heap[s].rec : n >= i /\ ~heap[s].rec[n].moved}
Target(s, n) == Cardinality({m \in 0..(n - 1) : LiveCell(heap[s].rec[m])})

MoveHistory(t) ==
  LET s == th[t].st
      n == Min(Unmoved(s, th[t].i))
  IN /\ th[t].pc = "move" /\ Unmoved(s, th[t].i) # {}
     /\ heap' = [heap EXCEPT ![th[t].ns].hist[Target(s, n)] = IF @ = 0 THEN heap[s].hist[n] ELSE @]
     /\ Step(t, [pc |-> "move record", i |-> n, b |-> Target(s, n), rec |-> heap[s].rec[n]])
     /\ UNCHANGED <<todo, top>>

MovePtrHash(t) ==
  LET k == heap[th[t].st].hist[th[t].i]
      n == th[t].ns
  IN /\ th[t].pc = "move hash"
     /\ heap' = [heap EXCEPT ![n].hv[Stop(n, k)] = k]
     /\ Step(t, [pc |-> "move ptr", pb |-> Stop(n, k)])
     /\ UNCHANGED <<todo, top>>

MovePtr(t) ==
  /\ th[t].pc = "move ptr"
  /\ heap' = [heap EXCEPT ![th[t].ns].ptr[th[t].pb] = IF @ = 0 THEN th[t].b + 1 ELSE @]
  /\ Step(t, [pc |-> "moved"])
  /\ UNCHANGED <<todo, top>>

\* hist_next of the new store, unless it is set.
InstallHistories(t) ==
  /\ th[t].pc = "move" /\ Unmoved(th[t].st, th[t].i) = {}
  /\ heap' = [heap EXCEPT ![th[t].ns].used = IF @ = 0 THEN LiveHeads(th[t].st) ELSE @]
  /\ Step(t, [pc |-> "install"])
  /\ UNCHANGED <<todo, top>>

\* lohat_a_store_migrate from there on.
MoveStore(t) ==
  \/ MoveHistory(t)
  \/ MoveHead(t, "move hash")
  \/ MovePtrHash(t)
  \/ MovePtr(t)
  \/ MarkMoved(t)
  \/ InstallHistories(t)
  \/ InstallStore(t)

Next == \E t \in Threads :
  \/ Operation(t) \/ StoreGet(t) \/ StorePut(t) \/ StoreReplace(t) \/ StoreAdd(t) \/ StoreRemove(t)
  \/ View(t) \/ Stamp(t) \/ FreezeStore(t) \/ MoveStore(t)
=============================================================================
