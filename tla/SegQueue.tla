------------------------------ MODULE SegQueue ------------------------------
(***************************************************************************)
(* What queue and q64 share: a queue in segments of cells.  An enqueuer    *)
(* takes an index with a fetch-and-add and swaps its item into the cell; a *)
(* dequeuer takes an index and, if the cell is still empty, marks it so    *)
(* that its enqueuer comes too late and takes another one, twice as far    *)
(* on.  Who finds the segment used up links a new one with its item in it. *)
(***************************************************************************)
EXTENDS Fifo

CONSTANTS
  SegSize,     \* default_segment_size
  HelpSteps    \* QUEUE_HELP_STEPS

Empty   == [state |-> "empty", item |-> None]
TooSlow == [state |-> "too slow", item |-> None]
Used(item) == [state |-> "used", item |-> item]

Segment(size) == [cells |-> [n \in 0..(size - 1) |-> Empty], enq |-> 0, deq |-> 0, next |-> 0, retired |-> 0]

SegSizeOf(s) == Cardinality(DOMAIN heap[s].cells)

\* The queue with the items of Preload, which are fewer than SegSize; stored is
\* what becomes of an item in its cell.
StartQueue(stored(_)) ==
  Begins([Segment(SegSize) EXCEPT
            !.cells = [n \in DOMAIN @ |-> IF n < Len(Preload) THEN Used(stored(Preload[n + 1])) ELSE Empty],
            !.enq = Len(Preload)],
         [enq |-> 1, deq |-> 1, help |-> 0, len |-> Len(Preload)])

\* The segment is read; the size read with it is the bound for all indexes the
\* call will take, in this segment and in later ones.
BeginEnqueue(t) ==
  /\ todo[t] # <<>> /\ Head(todo[t]).op = "enqueue"
  /\ Begin(t, [pc |-> "claim", s |-> top.enq, end |-> SegSizeOf(top.enq), step |-> 1, ix |-> 0,
               need |-> FALSE, asked |-> FALSE, size |-> 0, new |-> 0])
  /\ UNCHANGED <<top, heap>>

\* atomic_fetch_add of enqueue_index
Claim(t) ==
  LET ix == heap[th[t].s].enq IN
  /\ th[t].pc = "claim"
  /\ heap' = [heap EXCEPT ![th[t].s].enq = @ + th[t].step]
  /\ Step(t, [pc |-> IF ix < th[t].end THEN "put" ELSE "full", ix |-> ix])
  /\ UNCHANGED <<todo, top>>

\* The cell takes the item if no dequeuer was faster.  The bound of the index may be
\* that of an earlier, larger segment: a cell beyond the end of this one is memory
\* that is not the queue's, and what comes of it is not followed (fault).
PutCell(t, item) ==
  LET s == th[t].s IN
  /\ th[t].pc = "put"
  /\ \/ /\ th[t].ix < SegSizeOf(s) /\ heap[s].cells[th[t].ix] = Empty
        /\ heap' = [heap EXCEPT ![s].cells[th[t].ix] = Used(item)]
        /\ Step(t, [pc |-> IF th[t].need THEN "helped" ELSE "counted"])
     \/ /\ th[t].ix < SegSizeOf(s) /\ heap[s].cells[th[t].ix] # Empty
        /\ Step(t, [pc |-> "claim", step |-> 2 * th[t].step]) /\ UNCHANGED heap
     \/ /\ th[t].ix >= SegSizeOf(s)
        /\ Step(t, [pc |-> "fault"]) /\ UNCHANGED heap
  /\ UNCHANGED <<todo, top>>

\* A call that had to go too far asks, once, for larger segments.
SegmentFull(t) ==
  LET ask == th[t].step >= 2^HelpSteps /\ ~th[t].need IN
  /\ th[t].pc = "full"
  /\ top' = [top EXCEPT !.help = IF ask THEN @ + 1 ELSE @]
  /\ Step(t, [pc |-> "look", need |-> th[t].need \/ ask, asked |-> ask])
  /\ UNCHANGED <<todo, heap>>

\* Another segment may be in use by now.
LookAgain(t) ==
  /\ th[t].pc = "look"
  /\ Step(t, CASE top.enq # th[t].s -> [pc |-> "claim", s |-> top.enq]
               [] top.enq = th[t].s /\ th[t].asked -> [pc |-> "link", size |-> 2 * SegSizeOf(th[t].s)]
               [] OTHER -> [pc |-> "help"])
  /\ UNCHANGED <<todo, top, heap>>

\* Others may have asked for help: the new segment is twice as large.
LookForHelp(t) ==
  /\ th[t].pc = "help"
  /\ Step(t, [pc |-> "link", size |-> IF top.help > 0 THEN 2 * SegSizeOf(th[t].s) ELSE SegSize])
  /\ UNCHANGED <<todo, top, heap>>

\* The new segment, with the item in its first cell, is linked; or another's is.
LinkSegment(t, item) ==
  LET s == th[t].s
      n == Len(heap) + 1
  IN /\ th[t].pc = "link"
     /\ \/ /\ heap[s].next = 0 /\ Len(heap) < MaxBlocks
           /\ heap' = Append([heap EXCEPT ![s].next = n],
                             [Segment(th[t].size) EXCEPT !.cells[0] = Used(item), !.enq = 1])
           /\ Step(t, [pc |-> "swing", new |-> n, ix |-> 0])
        \/ /\ heap[s].next # 0
           /\ Step(t, [pc |-> "swing again", new |-> heap[s].next]) /\ UNCHANGED heap
     /\ UNCHANGED <<todo, top>>

\* The linked segment becomes the one to enqueue to, by whoever comes first.
SwingEnqueue(t) ==
  /\ th[t].pc \in {"swing", "swing again"}
  /\ top' = [top EXCEPT !.enq = IF @ = th[t].s THEN th[t].new ELSE @]
  /\ Step(t, CASE th[t].pc = "swing again" -> [pc |-> "claim", s |-> th[t].new]
               [] th[t].pc = "swing" /\ th[t].need -> [pc |-> "helped"]
               [] OTHER -> [pc |-> "counted"])
  /\ UNCHANGED <<todo, heap>>

\* The request for help is withdrawn, ...
EndHelp(t) ==
  /\ th[t].pc = "helped"
  /\ top' = [top EXCEPT !.help = @ - 1]
  /\ Step(t, [pc |-> "counted"])
  /\ UNCHANGED <<todo, heap>>

\* ... and then len is counted.
EndEnqueue(t) ==
  /\ th[t].pc = "counted"
  /\ top' = [top EXCEPT !.len = @ + 1]
  /\ Answer(t, Ok)
  /\ UNCHANGED <<todo, heap>>

BeginDequeue(t) ==
  /\ todo[t] # <<>> /\ Head(todo[t]).op = "dequeue"
  /\ Begin(t, [pc |-> "index", s |-> top.deq, ix |-> 0, new |-> 0])
  /\ UNCHANGED <<top, heap>>

\* dequeue_index and then enqueue_index are read ...
ReadIndex(t) ==
  /\ th[t].pc = "index"
  /\ Step(t, [pc |-> "limit", ix |-> heap[th[t].s].deq])
  /\ UNCHANGED <<todo, top, heap>>

ReadLimit(t) ==
  LET s == th[t].s IN
  /\ th[t].pc = "limit"
  /\ CASE th[t].ix >= SegSizeOf(s) -> Step(t, [pc |-> "next"])
       [] th[t].ix < SegSizeOf(s) /\ th[t].ix >= heap[s].enq -> Answer(t, None)
       [] OTHER -> Step(t, [pc |-> "take"])
  /\ UNCHANGED <<todo, top, heap>>

\* ... before an index is taken.
TakeIndex(t) ==
  LET ix == heap[th[t].s].deq IN
  /\ th[t].pc = "take"
  /\ heap' = [heap EXCEPT ![th[t].s].deq = @ + 1]
  /\ Step(t, [pc |-> IF ix >= SegSizeOf(th[t].s) THEN "next" ELSE "cell", ix |-> ix])
  /\ UNCHANGED <<todo, top>>

\* Mutant: a spoilt cell is counted as dequeued.
TakeCell_CountsSpoilt(t) ==
  LET s == th[t].s
      c == heap[s].cells[th[t].ix]
  IN /\ th[t].pc = "cell"
     /\ top' = [top EXCEPT !.len = @ - 1]
     /\ \/ /\ c = Empty
           /\ heap' = [heap EXCEPT ![s].cells[th[t].ix] = TooSlow]
           /\ Step(t, [pc |-> "index"])
        \/ c # Empty /\ Answer(t, c.item) /\ UNCHANGED heap
     /\ UNCHANGED todo

\* A cell still empty is spoilt for its enqueuer.
TakeCell(t) ==
  LET s == th[t].s
      c == heap[s].cells[th[t].ix]
  IN /\ th[t].pc = "cell"
     /\ \/ /\ c = Empty
           /\ heap' = [heap EXCEPT ![s].cells[th[t].ix] = TooSlow]
           /\ Step(t, [pc |-> "index"]) /\ UNCHANGED top
        \/ /\ c # Empty
           /\ top' = [top EXCEPT !.len = @ - 1]
           /\ Answer(t, c.item) /\ UNCHANGED heap
     /\ UNCHANGED todo

ReadNext(t) ==
  LET n == heap[th[t].s].next IN
  /\ th[t].pc = "next"
  /\ IF n = 0 THEN Answer(t, None) ELSE Step(t, [pc |-> "advance", new |-> n])
  /\ UNCHANGED <<todo, top, heap>>

\* Who makes the next segment the one to dequeue from retires the segment.
Advance(t) ==
  /\ th[t].pc = "advance"
  /\ \/ /\ top.deq = th[t].s
        /\ top' = [top EXCEPT !.deq = th[t].new]
        /\ heap' = [heap EXCEPT ![th[t].s].retired = @ + 1]
     \/ top.deq # th[t].s /\ UNCHANGED <<top, heap>>
  /\ Step(t, [pc |-> "index", s |-> top'.deq])
  /\ UNCHANGED todo

-----------------------------------------------------------------------------
(* queue: cells of two words, an item and the cell's state.                *)

QueueStored(item) == item

\* queue_init_size
QueueInit == StartQueue(QueueStored)

\* queue_enqueue_mmm
QueueEnqueue(t) ==
  \/ BeginEnqueue(t)
  \/ /\ Calling(t, "enqueue")
     /\ \/ Claim(t)
        \/ PutCell(t, QueueStored(th[t].call.item))
        \/ SegmentFull(t)
        \/ LookAgain(t)
        \/ LookForHelp(t)
        \/ LinkSegment(t, QueueStored(th[t].call.item))
        \/ SwingEnqueue(t)
        \/ EndHelp(t)
        \/ EndEnqueue(t)

\* queue_dequeue_mmm
QueueDequeue(t) ==
  \/ BeginDequeue(t)
  \/ /\ Calling(t, "dequeue")
     /\ \/ ReadIndex(t)
        \/ ReadLimit(t)
        \/ TakeIndex(t)
        \/ TakeCell(t)
        \/ ReadNext(t)
        \/ Advance(t)

QueueNext == \E t \in Threads : QueueEnqueue(t) \/ QueueDequeue(t)
-----------------------------------------------------------------------------
(* q64: cells of one word.  The two low bits are the cell's state, so an   *)
(* item that is not a multiple of four comes out changed: items here are   *)
(* numbers.                                                                *)

\* item & value_mask
Q64Stored(item) == item - (item % 4)

\* q64_init_size
Q64Init == StartQueue(Q64Stored)

\* q64_enqueue_mmm
Q64Enqueue(t) ==
  \/ BeginEnqueue(t)
  \/ /\ Calling(t, "enqueue")
     /\ \/ Claim(t)
        \/ PutCell(t, Q64Stored(th[t].call.item))
        \/ SegmentFull(t)
        \/ LookAgain(t)
        \/ LookForHelp(t)
        \/ LinkSegment(t, Q64Stored(th[t].call.item))
        \/ SwingEnqueue(t)
        \/ EndHelp(t)
        \/ EndEnqueue(t)

\* q64_dequeue_mmm
Q64Dequeue(t) ==
  \/ BeginDequeue(t)
  \/ /\ Calling(t, "dequeue")
     /\ \/ ReadIndex(t)
        \/ ReadLimit(t)
        \/ TakeIndex(t)
        \/ TakeCell(t)
        \/ ReadNext(t)
        \/ Advance(t)

Q64Next == \E t \in Threads : Q64Enqueue(t) \/ Q64Dequeue(t)
=============================================================================
