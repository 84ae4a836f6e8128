------------------------------ MODULE NewsHat ------------------------------
(***************************************************************************)
(* newshat: a mutex in every bucket.  A put or add locks each bucket it    *)
(* probes, a replace or remove only the bucket of its key; readers lock    *)
(* nothing.  A migration locks all buckets, copies, publishes the new      *)
(* store and lets go; who was waiting then finds the bucket migrated.      *)
(***************************************************************************)
EXTENDS LockHat

\* What a newshat_bucket_t has besides its hash value and its record.
Unlocked(size) ==
  [lock |-> [b \in 0..(size - 1) |-> 0], migrated |-> [b \in 0..(size - 1) |-> FALSE]]

\* newshat_store_new
StoreNew(size) == Unlocked(size) @@ StoreOf(size)

\* newshat_init_size
Init == Begins(StoreNew(MinSize), LiveRec)

\* The newshat_*_mmm operations read the current store.
Operation(t) ==
  /\ todo[t] # <<>>
  /\ Begin(t, [live |-> 0] @@ Locals(CASE Head(todo[t]).op \in {"put", "add"} -> "find"
                                       [] Head(todo[t]).op = "scan" -> "scan"
                                       [] OTHER -> "probe"))
  /\ UNCHANGED <<top, heap>>

\* newshat_store_get
StoreGet(t) ==
  /\ Calling(t, "get")
  /\ \/ Lookup(t, Answer(t, None))
     \/ GetRecord(t, Answer(t, IF Rec(t).live THEN Rec(t).item ELSE None))

\* newshat_view_mmm
View(t) == Scan(t, EndScan(t))

\* One bucket of the probe of put and add, its mutex held.
ProbeLocked(t) ==
  LET s == th[t].st
      k == th[t].call.key
      b == Bucket(s, k, th[t].i)
      full == heap[s].used >= Threshold(Size(s))
  IN /\ th[t].pc = "find" /\ th[t].i < Size(s) /\ heap[s].lock[b] = 0
     /\ \/ /\ heap[s].migrated[b]
           /\ Step(t, [st |-> top.current, i |-> 0]) /\ UNCHANGED <<top, heap>>
        \/ /\ ~heap[s].migrated[b] /\ heap[s].hv[b] = k
           /\ heap' = [heap EXCEPT ![s].lock[b] = t]
           /\ Step(t, [pc |-> "write", b |-> b]) /\ UNCHANGED top
        \/ /\ ~heap[s].migrated[b] /\ heap[s].hv[b] = 0 /\ ~full
           /\ heap' = [heap EXCEPT ![s].lock[b] = t, ![s].hv[b] = k, ![s].used = @ + 1]
           /\ Step(t, [pc |-> "write", b |-> b]) /\ UNCHANGED top
        \/ /\ ~heap[s].migrated[b] /\ heap[s].hv[b] = 0 /\ full
           /\ Step(t, [pc |-> "migrate"]) /\ UNCHANGED <<top, heap>>
        \/ /\ ~heap[s].migrated[b] /\ heap[s].hv[b] \notin {0, k}
           /\ Step(t, [i |-> th[t].i + 1]) /\ UNCHANGED <<top, heap>>
     /\ UNCHANGED todo

\* No bucket left to probe.
ProbedAll(t) ==
  /\ th[t].pc = "find" /\ th[t].i = Size(th[t].st)
  /\ Step(t, [pc |-> "migrate"])
  /\ UNCHANGED <<todo, top, heap>>

\* The mutex of the bucket that replace or remove has found.
LockFound(t, moved) ==
  LET s == th[t].st
      b == th[t].b
  IN /\ th[t].pc = "record" /\ heap[s].lock[b] = 0
     /\ \/ heap[s].migrated[b] /\ Step(t, moved) /\ UNCHANGED heap
        \/ ~heap[s].migrated[b] /\ Step(t, [pc |-> "write"]) /\ heap' = [heap EXCEPT ![s].lock[b] = t]
     /\ UNCHANGED <<todo, top>>

\* The record is stored, the bucket's mutex released, the call answered.
Store(t, rec, res, count) ==
  /\ th[t].pc = "write"
  /\ heap' = [heap EXCEPT ![th[t].st].rec[th[t].b] = rec, ![th[t].st].lock[th[t].b] = 0]
  /\ top' = [top EXCEPT !.count = count]
  /\ Answer(t, res)
  /\ UNCHANGED todo

\* newshat_store_put; a replace that met a migrated bucket goes on as a put.
StorePut(t) ==
  /\ Calling(t, "put") \/ Calling(t, "replace")
  /\ \/ ProbeLocked(t)
     \/ ProbedAll(t)
     \/ /\ Calling(t, "put") \/ th[t].res = "put"
        /\ Store(t, LiveRec(th[t].call.item), IF Rec(t).live THEN Rec(t).item ELSE None, Counted(Rec(t)))

\* newshat_store_replace
StoreReplace(t) ==
  /\ Calling(t, "replace") /\ th[t].res # "put"
  /\ \/ Lookup(t, Answer(t, None))
     \/ LockFound(t, [pc |-> "find", st |-> top.current, i |-> 0, res |-> "put"])
     \/ Rec(t).live /\ Store(t, LiveRec(th[t].call.item), Rec(t).item, top.count)
     \/ ~Rec(t).live /\ Store(t, Rec(t), None, top.count)

\* newshat_store_add
StoreAdd(t) ==
  /\ Calling(t, "add")
  /\ \/ ProbeLocked(t)
     \/ ProbedAll(t)
     \/ ~Rec(t).live /\ Store(t, LiveRec(th[t].call.item), th[t].call.item, top.count + 1)
     \/ Rec(t).live /\ Store(t, Rec(t), None, top.count)

\* newshat_store_remove
StoreRemove(t) ==
  /\ Calling(t, "remove")
  /\ \/ Lookup(t, Answer(t, None))
     \/ LockFound(t, [pc |-> "probe", st |-> top.current])
     \/ Rec(t).live /\ Store(t, [Rec(t) EXCEPT !.live = FALSE], Rec(t).item, top.count - 1)
     \/ ~Rec(t).live /\ Store(t, Rec(t), None, top.count)
-----------------------------------------------------------------------------
(* newshat_store_migrate                                                   *)

\* migrate_mutex; somebody may have migrated while this thread waited for it.
LockMigrate(t) ==
  /\ th[t].pc = "migrate" /\ top.mutex = 0
  /\ \/ /\ th[t].st # top.current
        /\ Step(t, [pc |-> "find", st |-> top.current, i |-> 0]) /\ UNCHANGED top
     \/ /\ th[t].st = top.current
        /\ top' = [top EXCEPT !.mutex = t]
        /\ Step(t, [pc |-> "count", i |-> 0, live |-> 0])
  /\ UNCHANGED <<todo, heap>>

\* The record is read before its bucket is locked: what is counted may be old.
CountRecord(t) ==
  LET s == th[t].st IN
  /\ th[t].pc = "count" /\ th[t].i < Size(s)
  /\ Step(t, [pc |-> "lock", live |-> IF heap[s].rec[th[t].i].live THEN th[t].live + 1 ELSE th[t].live])
  /\ UNCHANGED <<todo, top, heap>>

LockBucket(t) ==
  LET s == th[t].st IN
  /\ th[t].pc = "lock" /\ heap[s].lock[th[t].i] = 0
  /\ heap' = [heap EXCEPT ![s].lock[th[t].i] = t]
  /\ Step(t, [pc |-> "count", i |-> th[t].i + 1])
  /\ UNCHANGED <<todo, top>>

\* Only the buckets with an item are marked as migrated.
CopyStore(t) ==
  LET s == th[t].st
      new == Filled(StoreNew(NewSize(Size(s), th[t].live + 1)), LivePairs(s), LiveRec)
  IN /\ th[t].pc = "count" /\ th[t].i = Size(s) /\ Len(heap) < MaxStores
     /\ heap' = Append([heap EXCEPT ![s].migrated = [b \in Slots(s) |-> heap[s].rec[b].live],
                                    ![s].retired = @ + 1],
                       [new EXCEPT !.used = th[t].live])
     /\ top' = [top EXCEPT !.current = Len(heap) + 1, !.count = th[t].live]
     /\ Step(t, [pc |-> "unlock"])
     /\ UNCHANGED todo

UnlockAll(t) ==
  /\ th[t].pc = "unlock"
  /\ heap' = [heap EXCEPT ![th[t].st].lock = [b \in Slots(th[t].st) |-> 0]]
  /\ top' = [top EXCEPT !.mutex = 0]
  /\ Step(t, [pc |-> "find", st |-> top.current, i |-> 0])
  /\ UNCHANGED todo

StoreMigrate(t) == LockMigrate(t) \/ CountRecord(t) \/ LockBucket(t) \/ CopyStore(t) \/ UnlockAll(t)

Next == \E t \in Threads :
  \/ Operation(t) \/ StoreGet(t) \/ StorePut(t) \/ StoreReplace(t) \/ StoreAdd(t) \/ StoreRemove(t)
  \/ View(t) \/ StoreMigrate(t)
=============================================================================
