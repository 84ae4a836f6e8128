------------------------------- MODULE Tiara -------------------------------
(***************************************************************************)
(* tiara: a 64-bit hash value and a pointer with three flag bits, swapped  *)
(* together.  A removed bucket keeps its item; only views look at used.    *)
(* item_count is never changed.                                            *)
(***************************************************************************)
EXTENDS CellHat

\* tiara_store_new
StoreNew(size) == BareStore(size, EmptyRec)

\* tiara_init_size
Init == Start(StoreNew(MinSize))

Operation(t) == Enter(t)

\* tiara_store_get
StoreGet(t) ==
  /\ Calling(t, "get")
  /\ Probe(t, Quit(t, Here(t).item), Quit(t, None))

\* tiara_store_put; a put that loses its swap answers NULL.
StorePut(t) ==
  LET c == th[t].call IN
  /\ Calling(t, "put")
  /\ \/ Probe(t, Load(t, TRUE, FALSE), Claim(t, LiveRec(c.item), "used"))
     \/ Swap(t, LiveRec(c.item), Answer(t, th[t].rec.item), Answer(t, None))
     \/ CountUsed(t, None)
     \/ Done(t)

\* tiara_store_replace
StoreReplace(t) ==
  LET c == th[t].call IN
  /\ Calling(t, "replace")
  /\ \/ Probe(t, Load(t, TRUE, FALSE), Quit(t, None))
     \/ Swap(t, LiveRec(c.item), Answer(t, th[t].rec.item), Answer(t, None))

\* tiara_store_add looks neither at used nor at moving.
StoreAdd(t) ==
  LET c == th[t].call IN
  /\ Calling(t, "add")
  /\ \/ Probe(t, Quit(t, None), Claim(t, LiveRec(c.item), "used"))
     \/ CountUsed(t, c.item)
     \/ Done(t)

\* tiara_store_remove
StoreRemove(t) ==
  /\ Calling(t, "remove")
  /\ \/ Probe(t, Load(t, TRUE, FALSE), Quit(t, None))
     \/ Swap(t, [th[t].rec EXCEPT !.live = FALSE], Answer(t, th[t].rec.item), Answer(t, None))

\* tiara_view_mmm
View(t) == Scan(t)

\* tiara_store_migrate.  The first loop reads the hash value of a bucket once
\* and writes it back with every attempt to mark the bucket.
MarkMoving(t) ==
  LET s == th[t].st
      i == th[t].i
      r == heap[s].rec[i]
  IN \/ /\ th[t].pc = "migrate"
        /\ Step(t, IF top.current = s THEN [pc |-> "mark", i |-> 0, used |-> 0]
                   ELSE [pc |-> th[t].then, st |-> top.current])
        /\ UNCHANGED <<todo, top, heap>>
     \/ /\ th[t].pc = "mark" /\ i < Size(s)
        /\ Step(t, [pc |-> "mark swap", hv |-> heap[s].hv[i]])
        /\ UNCHANGED <<todo, top, heap>>
     \/ /\ th[t].pc = "mark swap"
        /\ heap' = IF r.moving THEN heap
                   ELSE [heap EXCEPT ![s].hv[i] = th[t].hv,
                                     ![s].rec[i] = IF r.live THEN [r EXCEPT !.moving = TRUE]
                                                   ELSE [EmptyRec EXCEPT !.moving = TRUE, !.moved = TRUE]]
        /\ Step(t, [pc |-> "mark", i |-> i + 1, used |-> IF r.live THEN th[t].used + 1 ELSE th[t].used])
        /\ UNCHANGED <<todo, top>>

NextStore(t) ==
  /\ th[t].pc = "mark" /\ th[t].i = Size(th[t].st)
  /\ AgreeOnNext(t, StoreNew(NewSize(Size(th[t].st), th[t].used)))

\* The second loop (whose probe ends one bucket short of a round, which a store at
\* most half full does not tell): copy a bucket, then mark it as moved with the hash value
\* last copied by this thread, th[t].hv.
MoveRecords(t) ==
  LET s == th[t].st
      i == th[t].i
      k == heap[s].hv[i]
      r == heap[s].rec[i]
  IN \/ /\ th[t].pc = "move" /\ i < Size(s)
        /\ \/ r.moved /\ Step(t, [i |-> i + 1]) /\ UNCHANGED heap
           \/ /\ ~r.moved
              /\ heap' = MovedTo(th[t].ns, k, [r EXCEPT !.moving = FALSE])
              /\ Step(t, [pc |-> "moved", rec |-> r, b |-> k, hv |-> IF Free(th[t].ns, k) THEN k ELSE th[t].hv])
        /\ UNCHANGED <<todo, top>>
     \/ /\ th[t].pc = "moved"
        /\ heap' = IF r = th[t].rec /\ k = th[t].b
                   THEN [heap EXCEPT ![s].hv[i] = th[t].hv, ![s].rec[i].moved = TRUE] ELSE heap
        /\ Step(t, [pc |-> "move", i |-> i + 1])
        /\ UNCHANGED <<todo, top>>

Install(t) ==
  \/ /\ th[t].pc = "move" /\ th[t].i = Size(th[t].st)
     /\ InstallUsed(t, th[t].used)
  \/ InstallStore(t)

Next == \E t \in Threads :
  \/ Operation(t) \/ StoreGet(t) \/ StorePut(t) \/ StoreReplace(t) \/ StoreAdd(t) \/ StoreRemove(t)
  \/ View(t) \/ MarkMoving(t) \/ NextStore(t) \/ MoveRecords(t) \/ Install(t)
=============================================================================
