------------------------------- MODULE Crown -------------------------------
(***************************************************************************)
(* crown: witchhat with a cache of linear probing, the table behind        *)
(* dictionaries and sets.  The map of bucket N holds the distances at      *)
(* which keys that hash to N were stored; a probe visits those first and   *)
(* goes on linearly after the last.  The map is kept as a set of distances.*)
(***************************************************************************)
EXTENDS RecordHat

CONSTANT RetryThreshold   \* HATRACK_RETRY_THRESHOLD

\* The bucket a hash value maps to.
Home(s, k) == k % Size(s)

StoreNew(size) == [map |-> [b \in 0..(size - 1) |-> {}], claimed |-> FALSE] @@ EmptyStore(size)

\* The first store, with every key of Preload in the map of its home.
FirstStore ==
  LET hv == Placed(MinSize, Preload)
  IN [StoreNew(MinSize) EXCEPT
        !.map = [b \in DOMAIN hv |-> {i \in DOMAIN hv : LET k == hv[(b + i) % MinSize]
                                                        IN k # 0 /\ k % MinSize = b}]]

Init == Start(FirstStore)

\* The *_mmm operations: announce the operation and read the current store.
Operation(t) ==
  /\ Begin(t, [then |-> "map"] @@
              Locals(CASE Head(todo[t]).op = "scan" -> "scan"
                       [] Head(todo[t]).op = "view" -> "claim"
                       [] OTHER -> "map"))
  /\ UNCHANGED <<top, heap>>

\* An operation that asked for help has to withdraw its request first.
Ends(t, res) ==
  IF th[t].tries >= RetryThreshold
  THEN Step(t, [pc |-> "answer", res |-> res])
  ELSE Answer(t, res)

\* crown_help_dec
Withdraw(t) ==
  /\ th[t].pc = "answer"
  /\ top' = [top EXCEPT !.help = IF th[t].tries >= RetryThreshold THEN @ - 1 ELSE @]
  /\ Answer(t, th[t].res)
  /\ UNCHANGED <<todo, heap>>

\* migrate_and_retry: the RetryThreshold-th retry, and only that one, asks for help.
AskHelp(t) ==
  /\ th[t].pc = "retry"
  /\ top' = [top EXCEPT !.help = IF th[t].tries + 1 = RetryThreshold THEN @ + 1 ELSE @]
  /\ Step(t, [pc |-> "migrate", tries |-> th[t].tries + 1])
  /\ UNCHANGED <<todo, heap>>

\* A writer that is done helps if the store has reached its threshold.
HelpIfDue(t) ==
  /\ th[t].pc = "due"
  /\ \/ heap[th[t].st].used >= Threshold(Size(th[t].st)) /\ Step(t, [pc |-> "migrate", then |-> "answer"])
     \/ heap[th[t].st].used < Threshold(Size(th[t].st)) /\ Ends(t, th[t].res)
  /\ UNCHANGED <<todo, top, heap>>
-----------------------------------------------------------------------------
(* Finding the bucket.                                                     *)

\* atomic_read(&self->buckets[bix].neighbor_map)
ReadMap(t) ==
  /\ th[t].pc = "map"
  /\ Step(t, [pc |-> "hop", map |-> heap[th[t].st].map[Home(th[t].st, th[t].call.key)]])
  /\ UNCHANGED <<todo, top, heap>>

\* while (map): the cached distances, nearest first; then one past the last.
Hop(t) ==
  LET s   == th[t].st
      k   == th[t].call.key
      hit == {i \in th[t].map : heap[s].hv[Bucket(s, k, i)] = k}
  IN /\ th[t].pc = "hop"
     /\ Step(t, IF hit # {} THEN [pc |-> "record", b |-> Bucket(s, k, Min(hit))]
                ELSE [pc |-> "linear", i |-> IF th[t].map = {} THEN 0 ELSE Max(th[t].map) + 1])
     /\ UNCHANGED <<todo, top, heap>>

\* Linear probing from there up to the distance last.
ProbeOn(t, last) ==
  LET s  == th[t].st
      k  == th[t].call.key
      at == {i \in Stops(s, k) : i \in th[t].i..last}
  IN /\ th[t].pc = "linear"
     /\ IF at # {} /\ heap[s].hv[Bucket(s, k, Min(at))] = k
        THEN Step(t, [pc |-> "record", b |-> Bucket(s, k, Min(at))])
        ELSE Ends(t, None)
     /\ UNCHANGED <<todo, top, heap>>

Find(t, last) == ReadMap(t) \/ Hop(t) \/ ProbeOn(t, last)

\* The linear probe of put and add stops at its key, at a free bucket, and at a
\* key of the same home that is missing in the map.
Halts(s, k, from) ==
  {i \in from..(Size(s) - 1) :
     LET hv == heap[s].hv[Bucket(s, k, i)]
     IN hv \in {0, k} \/ (Home(s, hv) = Home(s, k) /\ i \notin heap[s].map[Home(s, k)])}

ProbeOrReserve(t) ==
  LET s  == th[t].st
      k  == th[t].call.key
      H  == Halts(s, k, th[t].i)
      i  == Min(H)
      b  == Bucket(s, k, i)
      hv == heap[s].hv[b]
  IN /\ th[t].pc = "linear"
     /\ \/ H = {} /\ Step(t, [pc |-> "retry"]) /\ UNCHANGED heap
        \/ H # {} /\ hv = k /\ Step(t, [pc |-> "record", b |-> b]) /\ UNCHANGED heap
        \/ /\ H # {} /\ hv = 0
           /\ heap' = [heap EXCEPT ![s].hv[b] = k]
           /\ Step(t, [pc |-> "used", b |-> b, i |-> i])
        \/ /\ H # {} /\ hv \notin {0, k}     \* help the map, then go on
           /\ heap' = [heap EXCEPT ![s].map[Home(s, k)] = @ \cup {i}]
           /\ Step(t, [i |-> i + 1])
     /\ UNCHANGED <<todo, top>>

CountNewBucket(t) ==
  /\ th[t].pc = "used"
  /\ heap' = [heap EXCEPT ![th[t].st].used = @ + 1]
  /\ Step(t, [pc |-> IF heap[th[t].st].used >= Threshold(Size(th[t].st)) THEN "retry" ELSE "set map"])
  /\ UNCHANGED <<todo, top>>

\* The new bucket enters the map before its record is written.
SetMap(t) ==
  /\ th[t].pc = "set map"
  /\ heap' = [heap EXCEPT ![th[t].st].map[Home(th[t].st, th[t].call.key)] = @ \cup {th[t].i}]
  /\ Step(t, [pc |-> "record"])
  /\ UNCHANGED <<todo, top>>

FindOrReserve(t) == ReadMap(t) \/ Hop(t) \/ ProbeOrReserve(t) \/ CountNewBucket(t) \/ SetMap(t)
-----------------------------------------------------------------------------
(* The operations of a store.                                              *)

\* The linear probe of a get stops one bucket earlier than the others'.
StoreGet(t) ==
  /\ Calling(t, "get")
  /\ \/ Find(t, Size(th[t].st) - 2)
     \/ GetRecord(t, IF Rec(t).live THEN Rec(t).item ELSE None)

StorePut(t) ==
  LET c == th[t].call
      r == th[t].rec
  IN /\ Calling(t, "put")
     /\ \/ FindOrReserve(t)
        \/ ReadRecord(t, TRUE, FALSE)
        \/ SwapRecord(t, Candidate(c.item, r), IF r.live THEN Ends(t, r.item) ELSE Step(t, [pc |-> "count"]))
        \/ LoseSwap(t, IF r.live THEN Step(t, [pc |-> "due", res |-> c.item]) ELSE Ends(t, c.item))
        \/ CountItem(t, top.count + 1, Ends(t, None))

StoreReplace(t) ==
  LET c == th[t].call
      r == th[t].rec
  IN /\ Calling(t, "replace")
     /\ \/ Find(t, Size(th[t].st) - 1)
        \/ ReadRecord(t, Rec(t).live, Ends(t, None))
        \/ SwapRecord(t, Candidate(c.item, r), Step(t, [pc |-> "due", res |-> r.item]))
        \/ LoseSwap(t, Ends(t, None))

\* A replace of one particular item.
StoreCas(t) ==
  LET c == th[t].call
      r == th[t].rec
  IN /\ Calling(t, "cas")
     /\ \/ Find(t, Size(th[t].st) - 1)
        \/ ReadRecord(t, Rec(t).live /\ Rec(t).item = c.expected, Ends(t, None))
        \/ SwapRecord(t, Candidate(c.item, r), Step(t, [pc |-> "due", res |-> r.item]))
        \/ LoseSwap(t, Ends(t, None))

StoreAdd(t) ==
  LET c == th[t].call IN
  /\ Calling(t, "add")
  /\ \/ FindOrReserve(t)
     \/ ReadRecord(t, ~Rec(t).live, Ends(t, None))
     \/ SwapRecord(t, LiveRec(c.item), Step(t, [pc |-> "count"]))
     \/ LoseSwap(t, Ends(t, None))
     \/ CountItem(t, top.count + 1, Ends(t, c.item))

StoreRemove(t) ==
  /\ Calling(t, "remove")
  /\ \/ Find(t, Size(th[t].st) - 1)
     \/ ReadRecord(t, Rec(t).live, Ends(t, None))
     \/ SwapRecord(t, Removed, Step(t, [pc |-> "count", res |-> th[t].rec.item]))
     \/ LoseSwap(t, Ends(t, None))
     \/ CountItem(t, top.count - 1, Step(t, [pc |-> "due"]))
-----------------------------------------------------------------------------
(* Views.                                                                  *)

\* crown_view_fast_mmm reads every bucket of the store once.
ViewFast(t) == Scan(t, LAMBDA r : r.live, LAMBDA r : r.item)

\* crown_view_slow_mmm claims a store, has it migrated so that it is frozen, and
\* reads it at leisure.  Somebody else's claim is waited for by migrating.
Claim(t) ==
  LET s == th[t].st IN
  /\ th[t].pc = "claim"
  /\ heap' = [heap EXCEPT ![s].claimed = TRUE]
  /\ Step(t, [pc |-> "migrate", then |-> IF heap[s].claimed THEN "reclaim" ELSE "frozen"])
  /\ UNCHANGED <<todo, top>>

\* Read the current store again, to claim that one.
Reclaim(t) ==
  /\ th[t].pc = "reclaim"
  /\ Step(t, [pc |-> "claim", st |-> top.current])
  /\ UNCHANGED <<todo, top, heap>>

\* The frozen records are the view; the claimed store is retired by the viewer,
\* which does not retire it if there is nothing to show.
ReadFrozen(t) ==
  LET s == th[t].st
      b(k) == {i \in Slots(s) : heap[s].hv[i] = k /\ heap[s].rec[i].live}
  IN /\ th[t].pc = "frozen"
     /\ heap' = IF LiveIn(s) = 0 THEN heap ELSE [heap EXCEPT ![s].retired = @ + 1]
     /\ Answer(t, [k \in Keys |-> IF b(k) = {} THEN None ELSE heap[s].rec[Min(b(k))].item])
     /\ UNCHANGED <<todo, top>>

ViewSlow(t) == Claim(t) \/ Reclaim(t) \/ ReadFrozen(t)
-----------------------------------------------------------------------------
(* Migration.                                                              *)

\* crown_store_migrate up to the agreement on the next store.
FreezeStore(t) ==
  \/ EnterMigrate(t, "migrate", "mark")
  \/ MarkMoving(t)
  \/ MarkEmptyMoved(t)
  \/ NextStore(t, StoreNew(IF top.help > 0 THEN 2 * Size(th[t].st)
                           ELSE NewSize(Size(th[t].st), LiveIn(th[t].st))))

\* The hash value being moved, and its distance from home in the next store.
Moving(t)   == heap[th[t].st].hv[th[t].i]
Distance(t) == (th[t].b + Size(th[t].ns) - Home(th[t].ns, Moving(t))) % Size(th[t].ns)

ReadNextMap(t) ==
  /\ th[t].pc = "read map"
  /\ Step(t, [pc |-> "swap map", map |-> heap[th[t].ns].map[Home(th[t].ns, Moving(t))]])
  /\ UNCHANGED <<todo, top, heap>>

\* One compare-and-swap, whose failure is ignored.
SwapNextMap(t) ==
  LET n == th[t].ns
      h == Home(n, Moving(t))
  IN /\ th[t].pc = "swap map"
     /\ heap' = [heap EXCEPT ![n].map[h] = IF @ = th[t].map THEN @ \cup {Distance(t)} ELSE @]
     /\ Step(t, [pc |-> "move record", map |-> {}])
     /\ UNCHANGED <<todo, top>>

\* Make the next store current ...
InstallNext(t) ==
  /\ th[t].pc = "install"
  /\ \/ top.current = th[t].st /\ top' = [top EXCEPT !.current = th[t].ns] /\ Step(t, [pc |-> "retire"])
     \/ top.current # th[t].st /\ UNCHANGED top /\ Migrated(t, top.current)
  /\ UNCHANGED <<todo, heap>>

\* ... and retire the old one, unless a viewer has claimed it.
RetireStore(t) ==
  /\ th[t].pc = "retire"
  /\ heap' = [heap EXCEPT ![th[t].st].retired = IF heap[th[t].st].claimed THEN @ ELSE @ + 1]
  /\ Migrated(t, top.current)
  /\ UNCHANGED <<todo, top>>

\* The rest of crown_store_migrate.  The thread that reserves a bucket of the
\* next store, and only that thread, notes its distance in the map.
MoveStore(t) ==
  \/ MoveHash(t, "read map", "move record")
  \/ ReadNextMap(t)
  \/ SwapNextMap(t)
  \/ MoveRecord(t, Copied(th[t].rec))
  \/ MarkMoved(t)
  \/ InstallUsed(t, LiveIn(th[t].st))
  \/ InstallNext(t)
  \/ RetireStore(t)

Next == \E t \in Threads :
  \/ Operation(t) \/ StoreGet(t) \/ StorePut(t) \/ StoreReplace(t) \/ StoreCas(t) \/ StoreAdd(t) \/ StoreRemove(t)
  \/ ViewFast(t) \/ ViewSlow(t) \/ AskHelp(t) \/ Withdraw(t) \/ HelpIfDue(t) \/ FreezeStore(t) \/ MoveStore(t)
=============================================================================
