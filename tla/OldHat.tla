------------------------------- MODULE OldHat -------------------------------
(***************************************************************************)
(* oldhat: a bucket is a pointer to an immutable record.  A bucket without *)
(* a record has hash value 0 here; the record that a migration puts into   *)
(* an empty bucket has the hash value 0 there and ZeroHash here.           *)
(***************************************************************************)
EXTENDS CellHat

ZeroHash == Max(Keys) + 1

\* oldhat_store_new
StoreNew(size) == BareStore(size, EmptyRec)

\* oldhat_init_size
Init == Start(StoreNew(MinSize))

Operation(t) == Enter(t)

\* oldhat_store_get
StoreGet(t) ==
  /\ Calling(t, "get")
  /\ Probe(t, Quit(t, IF Here(t).live THEN Here(t).item ELSE None), Quit(t, None))

\* oldhat_store_put; found is left unset when the swap is lost.
StorePut(t) ==
  LET c == th[t].call IN
  /\ Calling(t, "put")
  /\ \/ Probe(t, Load(t, TRUE, FALSE), Claim(t, LiveRec(c.item), "count"))
     \/ Swap(t, LiveRec(c.item),
             IF th[t].rec.live THEN Answer(t, th[t].rec.item) ELSE Step(t, [pc |-> "count"]),
             Answer(t, c.item))
     \/ CountItem(t, top.count + 1,
                  IF th[t].rec = EmptyRec THEN Step(t, [pc |-> "used"]) ELSE Answer(t, None))
     \/ CountUsed(t, None)
     \/ Done(t)

\* oldhat_store_replace
StoreReplace(t) ==
  LET c == th[t].call IN
  /\ Calling(t, "replace")
  /\ \/ Probe(t, Load(t, Here(t).live, Answer(t, None)), Quit(t, None))
     \/ Swap(t, LiveRec(c.item), Answer(t, th[t].rec.item), Answer(t, c.item))

\* oldhat_store_add; an item added to a new bucket is not counted.
StoreAdd(t) ==
  LET c == th[t].call IN
  /\ Calling(t, "add")
  /\ \/ Probe(t, Load(t, ~Here(t).live, Answer(t, None)), Claim(t, LiveRec(c.item), "used"))
     \/ Swap(t, LiveRec(c.item), Step(t, [pc |-> "count"]), Answer(t, None))
     \/ CountItem(t, top.count + 1, Answer(t, c.item))
     \/ CountUsed(t, c.item)
     \/ Done(t)

\* oldhat_store_remove
StoreRemove(t) ==
  LET c == th[t].call IN
  /\ Calling(t, "remove")
  /\ \/ Probe(t, Load(t, Here(t).live, Answer(t, None)), Quit(t, None))
     \/ Swap(t, [EmptyRec EXCEPT !.item = c.item], Step(t, [pc |-> "count"]), Answer(t, None))
     \/ CountItem(t, top.count - 1, Answer(t, th[t].rec.item))

\* oldhat_view_mmm
View(t) == Scan(t)

\* oldhat_store_migrate, the first loop.  A bucket without a record has nothing
\* to move.  A marked record is frozen, so every thread counts the same items.
MarkMoving(t) ==
  LET s == th[t].st
      i == Min({Size(s)} \cup {b \in th[t].i..(Size(s) - 1) : ~heap[s].rec[b].moving})
      empty == heap[s].hv[i] = 0
  IN \/ th[t].pc = "migrate" /\ Step(t, [pc |-> "mark", i |-> 0]) /\ UNCHANGED <<todo, top, heap>>
     \/ /\ th[t].pc = "mark" /\ i < Size(s)
        /\ heap' = [heap EXCEPT ![s].hv[i] = IF empty THEN ZeroHash ELSE @,
                                ![s].rec[i].moving = TRUE, ![s].rec[i].moved = empty]
        /\ Step(t, [i |-> i + 1])
        /\ UNCHANGED <<todo, top>>

LiveIn(s) == Cardinality({b \in Slots(s) : heap[s].rec[b].live})

\* store_next
NextStore(t) ==
  LET s == th[t].st IN
  /\ th[t].pc = "mark" /\ \A b \in th[t].i..(Size(s) - 1) : heap[s].rec[b].moving
  /\ AgreeOnNext(t, StoreNew(NewSize(Size(s), LiveIn(s))))

\* The second loop: copy.  A removed record is copied as one in use.
MoveRecords(t) ==
  LET s == th[t].st
      i == Min({Size(s)} \cup {b \in th[t].i..(Size(s) - 1) : ~heap[s].rec[b].moved})
  IN /\ th[t].pc = "move"
     /\ \/ /\ i < Size(s)
           /\ heap' = MovedTo(th[t].ns, heap[s].hv[i], LiveRec(heap[s].rec[i].item))
           /\ Step(t, [i |-> i + 1])
        \/ i = Size(s) /\ Step(t, [pc |-> "moved", i |-> 0]) /\ UNCHANGED heap
     /\ UNCHANGED <<todo, top>>

\* The third loop.
MarkMoved(t) ==
  LET s == th[t].st
      i == Min({Size(s)} \cup {b \in th[t].i..(Size(s) - 1) : ~heap[s].rec[b].moved})
  IN /\ th[t].pc = "moved" /\ i < Size(s)
     /\ heap' = [heap EXCEPT ![s].rec[i].moved = TRUE]
     /\ Step(t, [i |-> i + 1])
     /\ UNCHANGED <<todo, top>>

\* used_count and store_current; the store replaced is retired.
Install(t) ==
  LET s == th[t].st IN
  \/ /\ th[t].pc = "moved" /\ \A b \in th[t].i..(Size(s) - 1) : heap[s].rec[b].moved
     /\ InstallUsed(t, LiveIn(s))
  \/ InstallStore(t)

Next == \E t \in Threads :
  \/ Operation(t) \/ StoreGet(t) \/ StorePut(t) \/ StoreReplace(t) \/ StoreAdd(t) \/ StoreRemove(t)
  \/ View(t) \/ MarkMoving(t) \/ NextStore(t) \/ MoveRecords(t) \/ MarkMoved(t) \/ Install(t)
=============================================================================
