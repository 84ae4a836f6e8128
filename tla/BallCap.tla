------------------------------ MODULE BallCap ------------------------------
(***************************************************************************)
(* ballcap: lohat's histories, newshat's mutex in every bucket.  A writer  *)
(* locks the bucket of its key, or the free one it means to take; a view   *)
(* locks one bucket after the other; get locks nothing.                    *)
(***************************************************************************)
EXTENDS HistoryHat

\* ballcap_store_new
StoreNew(size) ==
  [lock |-> [b \in 0..(size - 1) |-> 0], migrated |-> [b \in 0..(size - 1) |-> FALSE]] @@ CellStore(size)

\* ballcap_init_size
Init == StartHistory(StoreNew(MinSize))

Operation(t) == Enter(t)

Lock(t)    == heap[th[t].st].lock[th[t].b]
InCurrent  == [pc |-> "probe", st |-> top.current, i |-> 0]

\* ballcap_view_mmm
View(t) ==
  LET s == th[t].st
      i == th[t].i
      m == Shown(heap[s].rec[i].head, th[t].epoch)
  IN /\ Calling(t, "view")
     /\ \/ ViewStore(t, Size(top.current))
        \/ /\ th[t].pc = "scan" /\ i < th[t].end
           /\ heap[s].hv[i] # 0 => heap[s].lock[i] = 0
           /\ Step(t, [i |-> i + 1,
                       seen |-> IF heap[s].hv[i] # 0 /\ m # 0 /\ top.recs[m].live
                                THEN [th[t].seen EXCEPT ![heap[s].hv[i]] = top.recs[m].item]
                                ELSE th[t].seen])
           /\ UNCHANGED <<todo, top, heap>>
        \/ ViewEnd(t)

\* ballcap_store_get: the head may not be committed yet.
StoreGet(t) ==
  /\ Calling(t, "get")
  /\ \/ Lookup(t, Answer(t, None))
     \/ GetRecord(t, IF LiveCell(Rec(t)) THEN ItemIn(Rec(t)) ELSE None)

\* The mutex of the bucket that has the key.
LockFound(t) ==
  /\ th[t].pc = "record" /\ Lock(t) = 0
  /\ \/ /\ heap[th[t].st].migrated[th[t].b]
        /\ Step(t, InCurrent) /\ UNCHANGED heap
     \/ /\ ~heap[th[t].st].migrated[th[t].b]
        /\ heap' = [heap EXCEPT ![th[t].st].lock[th[t].b] = t]
        /\ Step(t, [pc |-> "write", from |-> Rec(t).head])
  /\ UNCHANGED <<todo, top>>

\* put and add probe without a lock ...
Probe(t) ==
  LET s == th[t].st
      k == th[t].call.key
  IN /\ th[t].pc = "probe"
     /\ Step(t, CASE Found(s, k) -> [pc |-> "record", b |-> Stop(s, k)]
                  [] Free(s, k)  -> [pc |-> "take", b |-> Stop(s, k)]
                  [] OTHER       -> [pc |-> "migrate"])
     /\ UNCHANGED <<todo, top, heap>>

\* ... and look again once they have locked the free bucket.
LockFree(t) ==
  LET s == th[t].st
      b == th[t].b
      taken == heap[s].hv[b] # 0
      full == heap[s].used >= Threshold(Size(s))
  IN /\ th[t].pc = "take" /\ Lock(t) = 0
     /\ \/ heap[s].migrated[b] /\ Step(t, InCurrent) /\ UNCHANGED heap
        \/ ~heap[s].migrated[b] /\ taken /\ Step(t, [pc |-> "probe"]) /\ UNCHANGED heap
        \/ ~heap[s].migrated[b] /\ ~taken /\ full /\ Step(t, [pc |-> "migrate"]) /\ UNCHANGED heap
        \/ /\ ~heap[s].migrated[b] /\ ~taken /\ ~full
           /\ heap' = [heap EXCEPT ![s].lock[b] = t, ![s].hv[b] = th[t].call.key, ![s].used = @ + 1]
           /\ Step(t, [pc |-> "write", from |-> 0])
     /\ UNCHANGED <<todo, top>>

\* The new record becomes the head ...
WriteHead(t, item, live, next) ==
  LET n == Len(top.recs) + 1 IN
  /\ th[t].pc = "write"
  /\ heap' = [heap EXCEPT ![th[t].st].rec[th[t].b].head = n]
  /\ top' = [top EXCEPT !.recs = Append(@, Record(item, live, next))]
  /\ Step(t, [pc |-> "end", new |-> n])
  /\ UNCHANGED todo

\* ... and is committed, the old one retired and the bucket unlocked.
Finish(t, count, res) ==
  LET old == th[t].from IN
  /\ th[t].pc = "end"
  /\ top' = [top EXCEPT
       !.count = count,
       !.epoch = @ + 1,
       !.recs  = [n \in DOMAIN @ |-> CASE n = th[t].new -> [@[n] EXCEPT !.epoch = top.epoch + 1]
                                       [] n = old       -> [@[n] EXCEPT !.retired = @ + 1]
                                       [] OTHER         -> @[n]]]
  /\ heap' = [heap EXCEPT ![th[t].st].lock[th[t].b] = 0]
  /\ Answer(t, res)
  /\ UNCHANGED todo

\* Nothing to do: the bucket is unlocked.
Refuse(t) ==
  /\ th[t].pc = "write"
  /\ heap' = [heap EXCEPT ![th[t].st].lock[th[t].b] = 0]
  /\ Answer(t, None)
  /\ UNCHANGED <<todo, top>>

WasLive(t) == th[t].from # 0 /\ top.recs[th[t].from].live
OldItem(t) == IF WasLive(t) THEN top.recs[th[t].from].item ELSE None

\* ballcap_store_put: a record over a removed one does not point at it.
StorePut(t) ==
  /\ Calling(t, "put")
  /\ \/ Probe(t)
     \/ LockFound(t)
     \/ LockFree(t)
     \/ WriteHead(t, th[t].call.item, TRUE, IF WasLive(t) THEN th[t].from ELSE 0)
     \/ Finish(t, IF WasLive(t) THEN top.count ELSE top.count + 1, OldItem(t))

\* ballcap_store_replace
StoreReplace(t) ==
  /\ Calling(t, "replace")
  /\ \/ Lookup(t, Answer(t, None))
     \/ LockFound(t)
     \/ ~WasLive(t) /\ Refuse(t)
     \/ WasLive(t) /\ WriteHead(t, th[t].call.item, TRUE, th[t].from)
     \/ Finish(t, top.count, OldItem(t))

\* ballcap_store_add: only a bucket taken now is counted.
StoreAdd(t) ==
  /\ Calling(t, "add")
  /\ \/ Probe(t)
     \/ LockFound(t)
     \/ LockFree(t)
     \/ WasLive(t) /\ Refuse(t)
     \/ ~WasLive(t) /\ WriteHead(t, th[t].call.item, TRUE, th[t].from)
     \/ Finish(t, IF th[t].from = 0 THEN top.count + 1 ELSE top.count, th[t].call.item)

\* ballcap_store_remove
StoreRemove(t) ==
  /\ Calling(t, "remove")
  /\ \/ Lookup(t, Answer(t, None))
     \/ LockFound(t)
     \/ ~WasLive(t) /\ Refuse(t)
     \/ WasLive(t) /\ WriteHead(t, None, FALSE, th[t].from)
     \/ Finish(t, top.count - 1, OldItem(t))
-----------------------------------------------------------------------------
(* ballcap_store_migrate                                                   *)

LockMigrate(t) ==
  /\ th[t].pc = "migrate" /\ top.mutex = 0
  /\ \/ th[t].st # top.current /\ Step(t, InCurrent) /\ UNCHANGED top
     \/ /\ th[t].st = top.current
        /\ top' = [top EXCEPT !.mutex = t]
        /\ Step(t, [pc |-> "lock", i |-> 0])
  /\ UNCHANGED <<todo, heap>>

LockBucket(t) ==
  LET s == th[t].st IN
  /\ th[t].pc = "lock" /\ th[t].i < Size(s) /\ heap[s].lock[th[t].i] = 0
  /\ heap' = [heap EXCEPT ![s].lock[th[t].i] = t]
  /\ Step(t, [i |-> th[t].i + 1])
  /\ UNCHANGED <<todo, top>>

\* All buckets are locked: the live histories move, removed ones are dropped.
CopyStore(t) ==
  LET s == th[t].st
      live == SelectSeq([n \in 1..Size(s) |-> n - 1], LAMBDA b : LiveCell(heap[s].rec[b]))
      heads == [n \in DOMAIN live |-> <<heap[s].hv[live[n]], heap[s].rec[live[n]].head>>]
      gone == {heap[s].rec[b].head : b \in {c \in Slots(s) : ~LiveCell(heap[s].rec[c])}} \ {0}
  IN /\ th[t].pc = "lock" /\ th[t].i = Size(s) /\ Len(heap) < MaxStores
     /\ heap' = Append([heap EXCEPT ![s].migrated = [b \in Slots(s) |-> TRUE]],
                       Filled(StoreNew(NewSize(Size(s), Len(live) + 1)), heads,
                              LAMBDA h : [EmptyCell EXCEPT !.head = h]))
     /\ top' = [top EXCEPT
          !.current = Len(heap) + 1, !.count = Len(live),
          !.recs = [n \in DOMAIN @ |-> IF n \in gone THEN [@[n] EXCEPT !.retired = @ + 1] ELSE @[n]]]
     /\ Step(t, [pc |-> "unlock"])
     /\ UNCHANGED todo

UnlockAll(t) ==
  LET s == th[t].st IN
  /\ th[t].pc = "unlock"
  /\ heap' = [heap EXCEPT ![s].lock = [b \in Slots(s) |-> 0], ![s].retired = @ + 1]
  /\ top' = [top EXCEPT !.mutex = 0]
  /\ Step(t, InCurrent)
  /\ UNCHANGED todo

StoreMigrate(t) == LockMigrate(t) \/ LockBucket(t) \/ CopyStore(t) \/ UnlockAll(t)

Next == \E t \in Threads :
  \/ Operation(t) \/ StoreGet(t) \/ StorePut(t) \/ StoreReplace(t) \/ StoreAdd(t) \/ StoreRemove(t)
  \/ View(t) \/ StoreMigrate(t)
=============================================================================
