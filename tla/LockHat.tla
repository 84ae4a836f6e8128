------------------------------ MODULE LockHat ------------------------------
(***************************************************************************)
(* What duncecap, swimcap and refhat share: one writer at a time, which    *)
(* rebuilds the store by itself, and readers that hold no lock while they  *)
(* probe.  A record is (item, epoch); the epoch is kept as zero or not.    *)
(*                                                                         *)
(* A write is two steps a reader can tell apart: the hash value, then the  *)
(* record.  A hash value read while it is written may be torn; it then     *)
(* matches nothing, as before the write, and the record is still empty.    *)
(***************************************************************************)
EXTENDS Hat

EmptyRec == [item |-> None, live |-> FALSE]
LiveRec(item) == [item |-> item, live |-> TRUE]
Rec(t) == heap[th[t].st].rec[th[t].b]

StoreOf(size) == [readers |-> 0] @@ BareStore(size, EmptyRec)

Locals(pc) == [pc |-> pc, st |-> top.current, b |-> 0, i |-> 0, want |-> Keys, res |-> None, old |-> 0]

\* The live records of store s, in the order of their buckets.
LivePairs(s) ==
  LET at == [n \in 1..Size(s) |-> n - 1]
      live == SelectSeq(at, LAMBDA b : heap[s].rec[b].live)
  IN [n \in DOMAIN live |-> <<heap[s].hv[live[n]], heap[s].rec[live[n]].item>>]

\* The store a migration builds: the live records put into a new one.
Rebuilt(s, size) ==
  CHOOSE new \in {Filled(StoreOf(size), pairs, LiveRec) : pairs \in {LivePairs(s)}} : TRUE

\* get: probe, then read the record.
Lookup(t, absent) ==
  LET s == th[t].st
      k == th[t].call.key
  IN /\ th[t].pc = "probe"
     /\ \/ Found(s, k) /\ Step(t, [pc |-> "record", b |-> Stop(s, k)])
        \/ ~Found(s, k) /\ absent
     /\ UNCHANGED <<todo, top, heap>>

GetRecord(t, done) ==
  /\ th[t].pc = "record"
  /\ done
  /\ UNCHANGED <<todo, top, heap>>

\* A view reads every bucket of the store once.
Scan(t, ends) ==
  LET s == th[t].st
      b == th[t].i
      r == heap[s].rec[b]
  IN /\ th[t].pc = "scan"
     /\ \/ b = Size(s) /\ ends
        \/ b < Size(s) /\ ~r.live /\ Step(t, [i |-> b + 1])
        \/ b < Size(s) /\ r.live /\ Report(t, heap[s].hv[b], r.item, [i |-> b + 1])
     /\ UNCHANGED <<todo, top, heap>>

\* Mutant: the probe looks for a free bucket before it looks for the key.
FindOrTake_FreeFirst(t, migrate) ==
  LET s == th[t].st
      k == th[t].call.key
      b == Bucket(s, k, Min({i \in Slots(s) : heap[s].hv[Bucket(s, k, i)] = 0}))
  IN /\ th[t].pc = "find"
     /\ \/ /\ heap[s].used + 1 # Threshold(Size(s))
           /\ heap' = [heap EXCEPT ![s].hv[b] = k, ![s].used = @ + 1]
           /\ Step(t, [pc |-> "write", b |-> b]) /\ UNCHANGED top
        \/ heap[s].used + 1 = Threshold(Size(s)) /\ migrate
     /\ UNCHANGED todo

\* The writer finds the bucket of its key, or takes a free one; the bucket that
\* would make used_count the threshold is not taken, the store is rebuilt.
FindOrTake(t, migrate) ==
  LET s == th[t].st
      k == th[t].call.key
  IN /\ th[t].pc = "find"
     /\ \/ /\ Found(s, k)
           /\ Step(t, [pc |-> "write", b |-> Stop(s, k)]) /\ UNCHANGED <<top, heap>>
        \/ /\ Free(s, k) /\ heap[s].used + 1 # Threshold(Size(s))
           /\ heap' = [heap EXCEPT ![s].hv[Stop(s, k)] = k, ![s].used = @ + 1]
           /\ Step(t, [pc |-> "write", b |-> Stop(s, k)]) /\ UNCHANGED top
        \/ /\ Free(s, k) /\ heap[s].used + 1 = Threshold(Size(s))
           /\ migrate
     /\ UNCHANGED todo

FindOnly(t, absent) ==
  LET s == th[t].st
      k == th[t].call.key
  IN /\ th[t].pc = "find"
     /\ \/ Found(s, k) /\ Step(t, [pc |-> "write", b |-> Stop(s, k)]) /\ UNCHANGED top
        \/ ~Found(s, k) /\ absent
     /\ UNCHANGED <<todo, heap>>

\* A new store, current at once.
Publish(t) ==
  LET s == th[t].st IN
  /\ Len(heap) < MaxStores
  /\ heap' = Append(heap, Rebuilt(s, NewSize(Size(s), top.count + 1)))
  /\ top' = [top EXCEPT !.current = Len(heap) + 1]

\* The mutex is released and the call answers.
Unlock(t, res, count) ==
  /\ top' = [top EXCEPT !.mutex = 0, !.count = count]
  /\ Answer(t, res)

\* The record is written, the mutex released, the call answered.
Write(t, rec, res, count) ==
  /\ th[t].pc = "write"
  /\ heap' = [heap EXCEPT ![th[t].st].rec[th[t].b] = rec]
  /\ Unlock(t, res, count)
  /\ UNCHANGED todo

\* top->item_count after a write over record r makes it live.
Counted(r) == IF r.live THEN top.count ELSE top.count + 1
-----------------------------------------------------------------------------
(* duncecap: writers take a mutex, readers take it only to count           *)
(* themselves in the store they are about to read.  A writer that replaces *)
(* the store waits until the old one has no reader and frees it.           *)

DunceStoreNew(size) == StoreOf(size)

DunceInit == Begins(DunceStoreNew(MinSize), LiveRec)

\* duncecap_reader_enter, also used by views
DunceReaderEnter(t) ==
  /\ todo[t] # <<>> /\ Head(todo[t]).op \in {"get", "scan"} /\ top.mutex = 0
  /\ Begin(t, Locals(IF Head(todo[t]).op = "scan" THEN "scan" ELSE "probe"))
  /\ heap' = [heap EXCEPT ![top.current].readers = @ + 1]
  /\ UNCHANGED top

\* duncecap_reader_exit
DunceReaderExit(t) ==
  /\ th[t].pc = "exit"
  /\ heap' = [heap EXCEPT ![th[t].st].readers = @ - 1]
  /\ IF th[t].call.op = "get" THEN Answer(t, th[t].res) ELSE EndScan(t)
  /\ UNCHANGED <<todo, top>>

\* duncecap_put, _replace, _add and _remove take the mutex.
DunceWriterEnter(t) ==
  /\ todo[t] # <<>> /\ Head(todo[t]).op \in {"put", "replace", "add", "remove"} /\ top.mutex = 0
  /\ Begin(t, Locals("find"))
  /\ top' = [top EXCEPT !.mutex = t]
  /\ UNCHANGED heap

DunceStoreGet(t) ==
  /\ Calling(t, "get")
  /\ \/ Lookup(t, Step(t, [pc |-> "exit"]))
     \/ GetRecord(t, Step(t, [pc |-> "exit", res |-> IF Rec(t).live THEN Rec(t).item ELSE None]))

DunceView(t) == Scan(t, Step(t, [pc |-> "exit"]))

\* duncecap_migrate: publish a new store, wait for the readers of the old one,
\* free it, and go on in the new store.
DuncePublishStore(t) ==
  Publish(t) /\ Step(t, [pc |-> "drain", st |-> top'.current, old |-> th[t].st])

DunceFreeStore(t) ==
  /\ th[t].pc = "drain" /\ heap[th[t].old].readers = 0
  /\ heap' = [heap EXCEPT ![th[t].old].retired = @ + 1]
  /\ Step(t, [pc |-> "find"])
  /\ UNCHANGED <<todo, top>>

\* Mutant: a put over a live record is counted as a new item.
DunceStorePut_AlwaysCounts(t) ==
  /\ Calling(t, "put")
  /\ \/ FindOrTake(t, DuncePublishStore(t))
     \/ Write(t, LiveRec(th[t].call.item), IF Rec(t).live THEN Rec(t).item ELSE None, top.count + 1)

DunceStorePut(t) ==
  /\ Calling(t, "put")
  /\ \/ FindOrTake(t, DuncePublishStore(t))
     \/ Write(t, LiveRec(th[t].call.item), IF Rec(t).live THEN Rec(t).item ELSE None, Counted(Rec(t)))

DunceStoreReplace(t) ==
  /\ Calling(t, "replace")
  /\ \/ FindOnly(t, Unlock(t, None, top.count))
     \/ Rec(t).live /\ Write(t, LiveRec(th[t].call.item), Rec(t).item, top.count)
     \/ ~Rec(t).live /\ Write(t, Rec(t), None, top.count)

DunceStoreAdd(t) ==
  /\ Calling(t, "add")
  /\ \/ FindOrTake(t, DuncePublishStore(t))
     \/ ~Rec(t).live /\ Write(t, LiveRec(th[t].call.item), th[t].call.item, top.count + 1)
     \/ Rec(t).live /\ Write(t, Rec(t), None, top.count)

\* The item stays in a removed record.
DunceStoreRemove(t) ==
  /\ Calling(t, "remove")
  /\ \/ FindOnly(t, Unlock(t, None, top.count))
     \/ Rec(t).live /\ Write(t, [Rec(t) EXCEPT !.live = FALSE], Rec(t).item, top.count - 1)
     \/ ~Rec(t).live /\ Write(t, Rec(t), None, top.count)

DunceNext == \E t \in Threads :
  \/ DunceReaderEnter(t) \/ DunceReaderExit(t) \/ DunceWriterEnter(t) \/ DunceFreeStore(t)
  \/ DunceStoreGet(t) \/ DunceView(t) \/ DunceStorePut(t) \/ DunceStoreReplace(t) \/ DunceStoreAdd(t) \/ DunceStoreRemove(t)
-----------------------------------------------------------------------------
(* swimcap: duncecap whose readers take no lock at all; the old store is   *)
(* left to the memory manager.                                             *)

SwimStoreNew(size) == StoreOf(size)

SwimInit == Begins(SwimStoreNew(MinSize), LiveRec)

\* swimcap_get_mmm and swimcap_view_mmm read the current store.
SwimReaderEnter(t) ==
  /\ todo[t] # <<>> /\ Head(todo[t]).op \in {"get", "scan"}
  /\ Begin(t, Locals(IF Head(todo[t]).op = "scan" THEN "scan" ELSE "probe"))
  /\ UNCHANGED <<top, heap>>

\* Mutant: the writers take no mutex.
SwimWriterEnter_Unlocked(t) ==
  /\ todo[t] # <<>> /\ Head(todo[t]).op \in {"put", "replace", "add", "remove"}
  /\ Begin(t, Locals("find"))
  /\ UNCHANGED <<top, heap>>

\* swimcap_put_mmm, _replace_mmm, _add_mmm and _remove_mmm take the mutex.
SwimWriterEnter(t) ==
  /\ todo[t] # <<>> /\ Head(todo[t]).op \in {"put", "replace", "add", "remove"} /\ top.mutex = 0
  /\ Begin(t, Locals("find"))
  /\ top' = [top EXCEPT !.mutex = t]
  /\ UNCHANGED heap

SwimStoreGet(t) ==
  /\ Calling(t, "get")
  /\ \/ Lookup(t, Answer(t, None))
     \/ GetRecord(t, Answer(t, IF Rec(t).live THEN Rec(t).item ELSE None))

SwimView(t) == Scan(t, EndScan(t))

\* swimcap_migrate
SwimMigrate(t) == Publish(t) /\ Step(t, [pc |-> "retire", st |-> top'.current, old |-> th[t].st])

SwimRetireStore(t) ==
  /\ th[t].pc = "retire"
  /\ heap' = [heap EXCEPT ![th[t].old].retired = @ + 1]
  /\ Step(t, [pc |-> "find"])
  /\ UNCHANGED <<todo, top>>

SwimStorePut(t) ==
  /\ Calling(t, "put")
  /\ \/ FindOrTake(t, SwimMigrate(t))
     \/ Write(t, LiveRec(th[t].call.item), IF Rec(t).live THEN Rec(t).item ELSE None, Counted(Rec(t)))

SwimStoreReplace(t) ==
  /\ Calling(t, "replace")
  /\ \/ FindOnly(t, Unlock(t, None, top.count))
     \/ Rec(t).live /\ Write(t, LiveRec(th[t].call.item), Rec(t).item, top.count)
     \/ ~Rec(t).live /\ Write(t, Rec(t), None, top.count)

SwimStoreAdd(t) ==
  /\ Calling(t, "add")
  /\ \/ FindOrTake(t, SwimMigrate(t))
     \/ ~Rec(t).live /\ Write(t, LiveRec(th[t].call.item), th[t].call.item, top.count + 1)
     \/ Rec(t).live /\ Write(t, Rec(t), None, top.count)

SwimStoreRemove(t) ==
  /\ Calling(t, "remove")
  /\ \/ FindOnly(t, Unlock(t, None, top.count))
     \/ Rec(t).live /\ Write(t, [Rec(t) EXCEPT !.live = FALSE], Rec(t).item, top.count - 1)
     \/ ~Rec(t).live /\ Write(t, Rec(t), None, top.count)

SwimNext == \E t \in Threads :
  \/ SwimReaderEnter(t) \/ SwimWriterEnter(t) \/ SwimRetireStore(t)
  \/ SwimStoreGet(t) \/ SwimView(t) \/ SwimStorePut(t) \/ SwimStoreReplace(t) \/ SwimStoreAdd(t) \/ SwimStoreRemove(t)
-----------------------------------------------------------------------------
(* refhat, the table for one thread that the others are measured against.  *)
(* The caller keeps others out, so an operation starts when none runs.     *)

\* refhat_init_size
RefInit == Begins(StoreOf(MinSize), LiveRec)

\* The refhat_*_mmm entry points: the calling thread has the table to itself.
RefOperation(t) ==
  /\ \A u \in Threads : th[u].pc = "idle"
  /\ Begin(t, Locals("find"))
  /\ UNCHANGED <<top, heap>>

RefStoreGet(t) ==
  /\ Calling(t, "get")
  /\ \/ FindOnly(t, Unlock(t, None, top.count))
     \/ Write(t, Rec(t), IF Rec(t).live THEN Rec(t).item ELSE None, top.count)

\* refhat_migrate: the new buckets take the place of the old ones, which are
\* freed; every item is assumed to have found a place in them.
RefMigrate(t) ==
  LET s == th[t].st IN
  /\ Len(heap) < MaxStores
  /\ heap' = Append([heap EXCEPT ![s].retired = @ + 1],
                    [Rebuilt(s, NewSize(Size(s), top.count + 1)) EXCEPT !.used = top.count])
  /\ top' = [top EXCEPT !.current = Len(heap) + 1]
  /\ Step(t, [st |-> top'.current])

RefStorePut(t) ==
  /\ Calling(t, "put")
  /\ \/ FindOrTake(t, RefMigrate(t))
     \/ Write(t, LiveRec(th[t].call.item), IF Rec(t).live THEN Rec(t).item ELSE None, Counted(Rec(t)))

RefStoreReplace(t) ==
  /\ Calling(t, "replace")
  /\ \/ FindOnly(t, Unlock(t, None, top.count))
     \/ Rec(t).live /\ Write(t, LiveRec(th[t].call.item), Rec(t).item, top.count)
     \/ ~Rec(t).live /\ Write(t, Rec(t), None, top.count)

RefStoreAdd(t) ==
  /\ Calling(t, "add")
  /\ \/ FindOrTake(t, RefMigrate(t))
     \/ ~Rec(t).live /\ Write(t, LiveRec(th[t].call.item), th[t].call.item, top.count + 1)
     \/ Rec(t).live /\ Write(t, Rec(t), None, top.count)

RefStoreRemove(t) ==
  /\ Calling(t, "remove")
  /\ \/ FindOnly(t, Unlock(t, None, top.count))
     \/ Rec(t).live /\ Write(t, [Rec(t) EXCEPT !.live = FALSE], Rec(t).item, top.count - 1)
     \/ ~Rec(t).live /\ Write(t, Rec(t), None, top.count)

\* refhat_view: the live records of all buckets, item_count of them.
RefView(t) ==
  LET pairs == LivePairs(th[t].st) IN
  /\ Calling(t, "view")
  /\ Answer(t, IF Len(pairs) = top.count THEN InitialDict(pairs) ELSE None)
  /\ UNCHANGED <<todo, top, heap>>

RefNext == \E t \in Threads :
  \/ RefOperation(t) \/ RefStoreGet(t) \/ RefStorePut(t) \/ RefStoreReplace(t) \/ RefStoreAdd(t) \/ RefStoreRemove(t)
  \/ RefView(t)
=============================================================================
