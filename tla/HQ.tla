--------------------------------- MODULE HQ ---------------------------------
(***************************************************************************)
(* hq: a queue in a ring that doubles when it is full.  Enqueuers and      *)
(* dequeuers take numbers; a cell holds an item and the number (epoch) of  *)
(* the last enqueue or dequeue that got it.                                *)
(***************************************************************************)
EXTENDS Fifo

CONSTANT Huge   \* stands for an epoch no operation reaches

Flags == [used |-> FALSE, slow |-> FALSE, moving |-> FALSE, moved |-> FALSE]
EmptyCell == [item |-> None, epoch |-> 0] @@ Flags
UsedCell(item, epoch) == [EmptyCell EXCEPT !.item = item, !.epoch = epoch, !.used = TRUE]

\* hq_new_store; an index 0 is HQ_STORE_INITIALIZING.
NewStore(size) ==
  [cells |-> [n \in 0..(size - 1) |-> EmptyCell], enq |-> 0, deq |-> 0, flagged |-> FALSE,
   next |-> 0, claimed |-> FALSE, retired |-> 0]

\* hq_init_size, and the enqueues of Preload
Init ==
  Begins([NewStore(Capacity) EXCEPT
            !.cells = [n \in DOMAIN @ |-> IF n < Len(Preload) THEN UsedCell(Preload[n + 1], Capacity + n) ELSE @[n]],
            !.enq = Capacity + Len(Preload), !.deq = Capacity],
         [store |-> 1, len |-> Len(Preload)])

\* Locals of every call: the cell read, and the highest and lowest epoch to move.
Locals == [saw |-> EmptyCell, hi |-> 0, low |-> 0]

MyCell(t) == heap[th[t].s].cells[Ix(th[t].s, th[t].ix)]
SetMyCell(t, c) == heap' = [heap EXCEPT ![th[t].s].cells[Ix(th[t].s, th[t].ix)] = c]
-----------------------------------------------------------------------------
\* hq_enqueue_mmm
Enqueue(t) ==
  \/ /\ todo[t] # <<>> /\ Head(todo[t]).op = "enqueue"
     /\ Begin(t, [pc |-> "start", s |-> 0, ix |-> 0, step |-> 1] @@ Migrating("start") @@ Locals)
     /\ UNCHANGED <<top, heap>>
  \/ /\ Calling(t, "enqueue")
     /\ LET c == MyCell(t) IN
        \/ /\ th[t].pc = "start"
           /\ Step(t, [pc |-> "claim", s |-> top.store, step |-> 1]) /\ UNCHANGED <<top, heap>>
        \/ /\ th[t].pc = "claim"
           /\ heap' = [heap EXCEPT ![th[t].s].enq = @ + th[t].step]
           /\ Step(t, [pc |-> "bound", ix |-> heap[th[t].s].enq]) /\ UNCHANGED top
        \/ /\ th[t].pc = "bound"
           /\ Step(t, IF heap[th[t].s].flagged \/ th[t].ix >= heap[th[t].s].deq + SizeOf(th[t].s)
                      THEN Migrating("start") ELSE [pc |-> "cell"])
           /\ UNCHANGED <<top, heap>>
        \/ /\ th[t].pc = "cell"
           /\ Step(t, CASE c.epoch > th[t].ix \/ c.moving \/ (c.epoch < th[t].ix /\ c.used) -> Migrating("start")
                        [] ~c.moving /\ c.epoch = th[t].ix /\ c.slow -> [pc |-> "claim", step |-> 2 * th[t].step]
                        [] OTHER -> [pc |-> "put", saw |-> c])
           /\ UNCHANGED <<top, heap>>
        \/ /\ th[t].pc = "put" /\ c = th[t].saw
           /\ SetMyCell(t, UsedCell(th[t].call.item, th[t].ix))
           /\ Step(t, [pc |-> "count"]) /\ UNCHANGED top
        \/ /\ th[t].pc = "put" /\ c # th[t].saw
           /\ Step(t, IF c.epoch # th[t].ix \/ c.moving
                      THEN Migrating("start") ELSE [pc |-> "claim", step |-> 2 * th[t].step])
           /\ UNCHANGED <<top, heap>>
        \/ /\ th[t].pc = "count"
           /\ top' = [top EXCEPT !.len = @ + 1]
           /\ Answer(t, Ok) /\ UNCHANGED heap
     /\ UNCHANGED todo
-----------------------------------------------------------------------------
\* What a dequeuer does when its cell holds c.
DequeueSees(t, c) ==
  CASE c.epoch < th[t].ix /\ c.used  -> Answer(t, None)
    [] c.epoch < th[t].ix /\ ~c.used -> Step(t, [pc |-> "spoil", saw |-> c])
    [] c.epoch > th[t].ix            -> Step(t, Migrating("restart"))
    [] c.epoch = th[t].ix            -> Step(t, IF c.moving THEN Migrating("resume") ELSE [pc |-> "take", saw |-> c])

\* hq_dequeue_mmm: a number, if there is something to dequeue
DequeueIndex(t) ==
  \/ /\ todo[t] # <<>> /\ Head(todo[t]).op = "dequeue"
     /\ Begin(t, [pc |-> "index", s |-> top.store, ix |-> 0, end |-> 0] @@ Migrating("restart") @@ Locals)
     /\ UNCHANGED <<top, heap>>
  \/ /\ Calling(t, "dequeue")
     /\ LET st == heap[th[t].s] IN
        \/ /\ th[t].pc = "restart"
           /\ Step(t, [pc |-> "index", s |-> top.store]) /\ UNCHANGED heap
        \/ /\ th[t].pc = "index"
           /\ Step(t, IF st.flagged THEN Migrating("restart") ELSE [pc |-> "limit", ix |-> st.deq])
           /\ UNCHANGED heap
        \/ /\ th[t].pc = "limit"
           /\ IF th[t].ix >= st.enq THEN Answer(t, None) ELSE Step(t, [pc |-> "number", end |-> st.enq])
           /\ UNCHANGED heap
        \/ /\ th[t].pc = "number"
           /\ heap' = [heap EXCEPT ![th[t].s].deq = @ + 1]
           /\ Step(t, [ix |-> st.deq] @@ IF st.flagged THEN Migrating("resume") ELSE [pc |-> "cell"])
     /\ UNCHANGED <<todo, top>>

\* ... and the cell of that number.  A cell nobody has filled yet is spoilt for its
\* enqueuer.  A number lower than what the migration copies is served from the old
\* store.
DequeueCell(t) ==
  /\ Calling(t, "dequeue")
  /\ LET c == MyCell(t) IN
     \/ /\ th[t].pc = "cell" \/ (th[t].pc = "spoil" /\ c # th[t].saw)
        /\ DequeueSees(t, c) /\ UNCHANGED <<top, heap>>
     \/ /\ th[t].pc = "spoil" /\ c = th[t].saw
        /\ SetMyCell(t, [EmptyCell EXCEPT !.epoch = th[t].ix, !.slow = TRUE])
        /\ IF th[t].ix + 1 = th[t].end THEN Answer(t, None) ELSE Step(t, [pc |-> "index"])
        /\ UNCHANGED top
     \/ /\ th[t].pc = "take" /\ c = th[t].saw
        /\ SetMyCell(t, [EmptyCell EXCEPT !.epoch = th[t].ix])
        /\ top' = [top EXCEPT !.len = @ - 1]
        /\ Answer(t, c.item)
     \/ /\ th[t].pc = "take" /\ c # th[t].saw
        /\ Step(t, Migrating("resume")) /\ UNCHANGED <<top, heap>>
     \/ /\ th[t].pc = "resume"
        /\ IF th[t].low <= th[t].ix \/ c.epoch # th[t].ix
           THEN Step(t, [pc |-> "restart"]) /\ UNCHANGED top
           ELSE top' = [top EXCEPT !.len = @ - 1] /\ Answer(t, c.item)
        /\ UNCHANGED heap
  /\ UNCHANGED todo

Dequeue(t) == DequeueIndex(t) \/ DequeueCell(t)
-----------------------------------------------------------------------------
\* hq_migrate: the cells are marked.  A cell is read first, and marked for what was
\* read then: as moved if it held no item.
MarkCells(t) ==
  LET s == th[t].s
      c == heap[s].cells[th[t].i]
      After == [pc |-> IF th[t].i + 1 = SizeOf(s) THEN "link" ELSE "mark", i |-> th[t].i + 1]
  IN /\ \/ /\ th[t].pc = "migrate"
           /\ heap' = [heap EXCEPT ![s].flagged = TRUE]
           /\ Step(t, [pc |-> "mark", hi |-> 0])
        \/ /\ th[t].pc = "mark"
           /\ Step(t, [hi |-> IF c.used /\ c.epoch > th[t].hi THEN c.epoch ELSE th[t].hi, saw |-> c]
                      @@ IF c.moving THEN After ELSE [pc |-> "or"])
           /\ UNCHANGED heap
        \/ /\ th[t].pc = "or"
           /\ heap' = [heap EXCEPT ![s].cells[th[t].i] = [@ EXCEPT !.moving = TRUE, !.moved = @ \/ ~th[t].saw.used]]
           /\ Step(t, After)
     /\ UNCHANGED <<todo, top>>

\* The lowest epoch to copy: that of the last cell, counting down from the highest,
\* that holds no item.  The subtraction wraps when nothing is queued.
Lowest(t) ==
  LET s == th[t].s
      hi == th[t].hi
      size == SizeOf(s)
      from == IF hi = 0 THEN Huge ELSE hi - size
      Cellat(k) == heap[s].cells[(hi + size - k) % size]
      stops == {k \in 1..size : ~Cellat(k).used /\ Cellat(k).epoch >= from}
  IN IF stops = {} THEN from ELSE Cellat(Min(stops)).epoch

LinkNext(t) ==
  LinkStore(t, NewStore(2 * SizeOf(th[t].s)), [pc |-> "move", low |-> Lowest(t), i |-> Lowest(t), n |-> 0])

\* The items are copied in order, their epochs counted anew.
MoveCells(t) ==
  LET s == th[t].s
      new == th[t].new
      c == heap[s].cells[Ix(s, th[t].i)]
  IN /\ \/ /\ th[t].pc = "move" /\ th[t].i > th[t].hi
           /\ Step(t, [pc |-> "start store"]) /\ UNCHANGED heap
        \/ /\ th[t].pc = "move" /\ th[t].i <= th[t].hi
           /\ Step(t, IF ~c.moved /\ c.epoch >= th[t].low THEN [pc |-> "copy"]
                      ELSE [i |-> th[t].i + 1, n |-> IF c.moved /\ c.used THEN th[t].n + 1 ELSE th[t].n])
           /\ UNCHANGED heap
        \/ /\ th[t].pc = "copy"
           /\ heap' = [heap EXCEPT ![new].cells[th[t].n] =
                         IF @ = EmptyCell THEN UsedCell(c.item, th[t].n + SizeOf(new)) ELSE @]
           /\ Step(t, [pc |-> "copied", n |-> th[t].n + 1])
        \/ /\ th[t].pc = "copied"
           /\ heap' = [heap EXCEPT ![s].cells[Ix(s, th[t].i)] = [@ EXCEPT !.moving = TRUE, !.moved = TRUE]]
           /\ Step(t, [pc |-> "move", i |-> th[t].i + 1])
        \/ /\ th[t].pc = "start store"
           /\ heap' = [heap EXCEPT ![new] = [@ EXCEPT
                         !.deq = IF @ = 0 THEN SizeOf(new) ELSE @,
                         !.enq = IF @ = 0 THEN th[t].n + SizeOf(new) ELSE @]]
           /\ Step(t, [pc |-> "install"])
     /\ UNCHANGED <<todo, top>>

Migrate(t) ==
  th[t].pc # "idle" /\ (MarkCells(t) \/ LinkNext(t) \/ MoveCells(t) \/ InstallStore(t) \/ RetireStore(t))

\* hq_view_mmm, hq_view_next, hq_view_delete
View(t) ==
  \/ BeginView(t, Locals)
  \/ /\ Calling(t, "view")
     /\ \/ LookStore(t)
        \/ ClaimStore(t)
        \/ LET s == th[t].s
               inOrder == [k \in 1..SizeOf(s) |-> heap[s].cells[Ix(s, th[t].low + k - 1)]]
               queued == SelectSeq(inOrder, LAMBDA c : c.used /\ c.epoch >= th[t].low)
           IN ReadView(t, [k \in DOMAIN queued |-> queued[k].item])

Next == \E t \in Threads : Enqueue(t) \/ Dequeue(t) \/ View(t) \/ Migrate(t)
=============================================================================
