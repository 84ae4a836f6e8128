------------------------------- MODULE HatRing -------------------------------
(***************************************************************************)
(* hatring: a ring of cells that never refuses an item: the put of epoch e *)
(* takes the cell of epoch e - Capacity, also from an item that is still   *)
(* there.  That is the oldest one, unless calls overtake one another: a    *)
(* slow put or dequeue keeps its epoch, and its cell, while others go on.  *)
(* One word holds the epochs of the next write and the next read; a cell   *)
(* holds an item and the epoch of the last write or read that claimed it,  *)
(* and only a later epoch may claim it again.                              *)
(***************************************************************************)
EXTENDS Fifo

CONSTANT DropHandler   \* whether a drop handler is set

Cell(item, epoch, enqueued) == [item |-> item, epoch |-> epoch, enqueued |-> enqueued]

Slot(epoch) == epoch % Capacity

\* hatring_new, and the enqueues of Preload; epochs start at the size of the ring.
Init ==
  Begins([cells |-> [n \in 0..(Capacity - 1) |->
                       IF n < Len(Preload) THEN Cell(Preload[n + 1], Capacity + n, TRUE) ELSE Cell(None, 0, FALSE)],
          retired |-> 0],
         [write |-> Capacity + Len(Preload), read |-> Capacity, dropped |-> {}, taken |-> {}])

\* hatring_is_lagging
Lagging == top.read + Capacity < top.write

\* A swap of the cell of epoch e that th[t] has read.
Unchanged(t, e) == heap[1].cells[Slot(e)] = th[t].saw
SetCell(e, c) == heap' = [heap EXCEPT ![1].cells[Slot(e)] = c]

\* The drop handler is called for an item pushed out of its cell.
Drop(c) == top' = [top EXCEPT !.dropped = IF DropHandler /\ c.enqueued THEN @ \cup {c.item} ELSE @]

\* History: the item a dequeue answers, beside the ones the drop handler was given.
Take(item) == top' = [top EXCEPT !.taken = IF DropHandler THEN @ \cup {item} ELSE @]

\* hatring_enqueue: a write epoch ...
EnqueueEpoch(t) ==
  /\ \/ /\ th[t].pc = "epochs"
        /\ Step(t, [pc |-> IF Lagging THEN "catch up" ELSE "claim", read |-> top.read, epoch |-> top.write])
        /\ UNCHANGED top
     \/ \* the ring is full: the read epoch is pushed on with the write epoch
        /\ th[t].pc = "catch up"
        /\ \/ /\ top.read = th[t].read /\ top.write = th[t].epoch
              /\ top' = [top EXCEPT !.write = @ + 1, !.read = top.write + 1 - Capacity]
              /\ Step(t, [pc |-> "cell"])
           \/ /\ ~(top.read = th[t].read /\ top.write = th[t].epoch)
              /\ Step(t, [pc |-> "epochs"]) /\ UNCHANGED top
     \/ /\ th[t].pc = "claim"
        /\ top' = [top EXCEPT !.write = @ + 1]
        /\ Step(t, [pc |-> IF top.write < top.read THEN "claim" ELSE "cell", epoch |-> top.write])
  /\ UNCHANGED <<todo, heap>>

\* ... and the cell of that epoch, unless a later one has claimed it.  Done is what
\* the caller goes on with.
EnqueueCell(t, item, Done) ==
  LET e == th[t].epoch
      c == heap[1].cells[Slot(e)]
  IN /\ \/ /\ (th[t].pc = "cell") \/ (th[t].pc = "swap" /\ ~Unchanged(t, e))
           /\ Step(t, [pc |-> IF c.epoch < e THEN "swap" ELSE "epochs", saw |-> c])
           /\ UNCHANGED <<top, heap>>
        \/ /\ th[t].pc = "swap" /\ Unchanged(t, e)
           /\ SetCell(e, Cell(item, e, TRUE))
           /\ Drop(c)
           /\ Done
     /\ UNCHANGED todo

RingLocals == [epoch |-> 0, read |-> 0, write |-> 0, saw |-> Cell(None, 0, FALSE)]

BeginRing(t, op) ==
  /\ todo[t] # <<>> /\ Head(todo[t]).op = op
  /\ Begin(t, [pc |-> "epochs"] @@ RingLocals)
  /\ UNCHANGED <<top, heap>>

Putting(t) == Calling(t, "ring") \/ Calling(t, "lap")

Enqueue(t) ==
  \/ BeginRing(t, "ring") \/ BeginRing(t, "lap")
  \/ Putting(t) /\ (EnqueueEpoch(t) \/ EnqueueCell(t, th[t].call.item, Answer(t, Ok)))

\* hatring_dequeue: a read epoch, if there is something to read, ...
DequeueEpoch(t) ==
  /\ \/ /\ th[t].pc = "epochs"
        /\ IF top.read >= top.write THEN Answer(t, None) ELSE Step(t, [pc |-> "claim"])
        /\ UNCHANGED top
     \/ /\ th[t].pc = "claim"
        /\ top' = [top EXCEPT !.read = @ + 1]
        /\ Step(t, [pc |-> "cell", epoch |-> top.read, write |-> top.write])
  /\ UNCHANGED <<todo, heap>>

\* ... and its cell.  A cell of an older epoch is spoilt for its slow writer; a
\* cell of a newer one means that a whole round was missed.
DequeueCell(t, Found(_), Spoilt) ==
  LET e == th[t].epoch
      c == heap[1].cells[Slot(e)]
  IN /\ \/ /\ th[t].pc = "cell"
           /\ Step(t, [pc |-> IF c.epoch <= e THEN "swap" ELSE "epochs", saw |-> c])
           /\ UNCHANGED <<top, heap>>
        \/ /\ th[t].pc = "swap" /\ Unchanged(t, e)
           /\ SetCell(e, Cell(None, e, FALSE))
           /\ \/ c.epoch = e /\ Found(c.item) /\ Take(c.item)
              \/ c.epoch < e /\ Drop(c) /\ Spoilt
        \/ /\ th[t].pc = "swap" /\ ~Unchanged(t, e)
           /\ IF th[t].saw.epoch = e /\ ~DropHandler
              THEN Found(th[t].saw.item) /\ Take(th[t].saw.item)
              ELSE Step(t, [pc |-> IF c.epoch <= e THEN "swap" ELSE "epochs", saw |-> c]) /\ UNCHANGED top
           /\ UNCHANGED heap
     /\ UNCHANGED todo

Dequeue(t) ==
  \/ BeginRing(t, "dequeue")
  \/ /\ Calling(t, "dequeue")
     /\ \/ DequeueEpoch(t)
        \/ DequeueCell(t, LAMBDA item : Answer(t, item),
                       IF th[t].epoch + 1 = th[t].write THEN Answer(t, None) ELSE Step(t, [pc |-> "epochs"]))

\* hatring_view: the cells from the read epoch on, while the writers go on.
View(t) ==
  \/ /\ todo[t] # <<>> /\ Head(todo[t]).op = "glance"
     /\ Begin(t, [pc |-> IF top.read < top.write THEN "glance" ELSE "empty", epoch |-> top.read, items |-> <<>>])
     /\ UNCHANGED <<top, heap>>
  \/ /\ Calling(t, "glance")
     /\ LET c == heap[1].cells[Slot(th[t].epoch)] IN
        \/ /\ th[t].pc = "glance"
           /\ Step(t, [pc |-> "end", epoch |-> th[t].epoch + 1,
                       items |-> IF c.enqueued /\ c.epoch = th[t].epoch
                                 THEN Append(th[t].items, c.item) ELSE th[t].items])
        \/ th[t].pc = "empty" /\ Answer(t, Ok)
        \/ /\ th[t].pc = "end"
           /\ IF th[t].epoch < top.write THEN Step(t, [pc |-> "glance"]) ELSE Answer(t, Ok)
     /\ UNCHANGED <<todo, top, heap>>

Next == \E t \in Threads : Enqueue(t) \/ Dequeue(t) \/ View(t)

\* No item goes both to the drop handler, which may free it, and to a dequeuer.
DroppedIsGone == top.dropped \cap top.taken = {}
=============================================================================
