------------------------------ MODULE HatStack ------------------------------
(***************************************************************************)
(* hatstack: a stack in an array.  The head is the index of the next push  *)
(* and an epoch that every pop advances; a pop writes its epoch into the   *)
(* cell, and a push that took its index in that epoch or before may no     *)
(* longer use it.  The code is that without HATSTACK_WAIT_FREE.            *)
(***************************************************************************)
EXTENDS Fifo

\* state 0, HATSTACK_PUSHED or HATSTACK_POPPED, with the two flags of a migration
EmptyCell == [item |-> None, pushed |-> FALSE, popped |-> FALSE, moving |-> FALSE, moved |-> FALSE, after |-> 0]
Pushed(item, after) == [EmptyCell EXCEPT !.item = item, !.pushed = TRUE, !.after = after]
Popped(after) == [EmptyCell EXCEPT !.popped = TRUE, !.after = after]

HeadAt(ix) == [epoch |-> 1, ix |-> ix]
Initializing == [epoch |-> 0, ix |-> 0]

\* hatstack_new_store
NewStore(size) ==
  [cells |-> [n \in 0..(size - 1) |-> EmptyCell], head |-> Initializing,
   next |-> 0, claimed |-> FALSE, retired |-> 0]

\* hatstack_init, and the pushes of Preload, the last of which is on top
Init ==
  Begins([NewStore(Capacity) EXCEPT
            !.cells = [n \in DOMAIN @ |-> IF n < Len(Preload) THEN Pushed(Reverse(Preload)[n + 1], 0) ELSE @[n]],
            !.head = HeadAt(Len(Preload))],
         [store |-> 1])

\* head_is_moving
HeadIsMoving(s, h) == h.ix >= SizeOf(s)

MyCell(t) == heap[th[t].s].cells[th[t].ix]
SetMyCell(t, c) == heap' = [heap EXCEPT ![th[t].s].cells[th[t].ix] = c]

Starts(t, op, pc) ==
  /\ todo[t] # <<>> /\ Head(todo[t]).op = op
  /\ Begin(t, [pc |-> pc, s |-> top.store, ix |-> 0, head |-> Initializing, saw |-> EmptyCell] @@ Migrating("claim"))
  /\ UNCHANGED <<top, heap>>
-----------------------------------------------------------------------------
\* hatstack_push_mmm
Push(t) ==
  \/ Starts(t, "push", "claim")
  \/ /\ Calling(t, "push")
     /\ LET s == IF th[t].pc = "grown" THEN th[t].new ELSE th[t].s
            h == heap[s].head
            c == MyCell(t)
            mine == Pushed(th[t].call.item, th[t].head.epoch - 1)
        IN
        \/ /\ th[t].pc \in {"claim", "grown"}
           /\ heap' = [heap EXCEPT ![s].head.ix = @ + 1]
           /\ Step(t, [s |-> s, head |-> h, ix |-> h.ix] @@
                      IF HeadIsMoving(s, h) THEN Migrating("grown") ELSE [pc |-> "empty"])
        \/ /\ th[t].pc = "empty" /\ c = EmptyCell
           /\ SetMyCell(t, mine) /\ Answer(t, Ok)
        \/ /\ th[t].pc = "empty" /\ c # EmptyCell
           /\ Step(t, CASE c.moving -> Migrating("grown")
                        [] ~c.moving /\ c.after >= th[t].head.epoch -> [pc |-> "claim"]
                        [] OTHER -> [pc |-> "put", saw |-> c])
           /\ UNCHANGED heap
        \/ /\ th[t].pc = "put" /\ c = th[t].saw
           /\ SetMyCell(t, mine) /\ Answer(t, Ok)
        \/ /\ th[t].pc = "put" /\ c # th[t].saw
           /\ Step(t, [pc |-> "claim"]) /\ UNCHANGED heap
     /\ UNCHANGED <<todo, top>>
-----------------------------------------------------------------------------
\* hatstack_pop_mmm goes on with the cell below, or finds the stack empty.
Below(t) == IF th[t].ix = 0 THEN Answer(t, None) ELSE Step(t, [pc |-> "cell", ix |-> th[t].ix - 1])

\* hatstack_pop_mmm: what it does with the cell c it has read
PopSees(t, c) ==
  CASE c.moving -> Step(t, [pc |-> "start"])
    [] ~c.moving /\ ~c.pushed /\ c.after >= th[t].head.epoch -> Below(t)
    [] OTHER -> Step(t, [pc |-> "mark popped", saw |-> c])

\* hatstack_pop_mmm: from the head down.  An empty cell is marked, so that a slow
\* push does not put an item below one that is popped later.
Pop(t) ==
  \/ Starts(t, "pop", "start")
  \/ /\ Calling(t, "pop")
     /\ LET c == MyCell(t)
            h == heap[th[t].s].head
            epoch == th[t].head.epoch
        IN
        \/ /\ th[t].pc = "start"
           /\ Step(t, [pc |-> "head", s |-> top.store]) /\ UNCHANGED heap
        \/ /\ th[t].pc = "head"
           /\ CASE HeadIsMoving(th[t].s, h) -> Step(t, Migrating("start"))
                [] h.ix = 0 -> Answer(t, None)
                [] OTHER -> Step(t, [pc |-> "cell", head |-> h, ix |-> h.ix - 1])
           /\ UNCHANGED heap
        \/ /\ th[t].pc = "cell"
           /\ PopSees(t, c) /\ UNCHANGED heap
        \/ /\ th[t].pc = "mark popped" /\ c = th[t].saw
           /\ SetMyCell(t, Popped(epoch))
           /\ Step(t, [pc |-> IF c.pushed THEN "lower" ELSE "cell"])
        \/ /\ th[t].pc = "mark popped" /\ c # th[t].saw
           /\ IF th[t].saw.pushed THEN Below(t) ELSE PopSees(t, c)
           /\ UNCHANGED heap
        \/ \* the head comes down with a new epoch, unless another call moved it
           /\ th[t].pc = "lower"
           /\ heap' = IF h = th[t].head
                      THEN [heap EXCEPT ![th[t].s].head = [epoch |-> epoch + 1, ix |-> th[t].ix]]
                      ELSE heap
           /\ Answer(t, th[t].saw.item)
     /\ UNCHANGED <<todo, top>>

\* hatstack_peek_mmm: from the head down; the head may be beyond the cells
Peek(t) ==
  \/ Starts(t, "top", "head")
  \/ /\ Calling(t, "top")
     /\ \/ /\ th[t].pc = "head"
           /\ Step(t, [pc |-> "cell", ix |-> heap[th[t].s].head.ix])
        \/ /\ th[t].pc = "cell" /\ th[t].ix = 0 /\ Answer(t, None)
        \/ /\ th[t].pc = "cell" /\ th[t].ix \in 1..SizeOf(th[t].s)
           /\ LET c == heap[th[t].s].cells[th[t].ix - 1] IN
              IF c.pushed THEN Answer(t, c.item) ELSE Step(t, [ix |-> th[t].ix - 1])
     /\ UNCHANGED <<todo, top, heap>>
-----------------------------------------------------------------------------
\* hatstack_grow_store: nothing to do, help, or mark the cells.  n counts the items.
MarkCells(t) ==
  LET s == th[t].s
      c == heap[s].cells[th[t].i]
  IN /\ \/ /\ th[t].pc = "migrate"
           /\ Step(t, IF top.store # s THEN [pc |-> th[t].back, new |-> top.store] ELSE [pc |-> "help"])
           /\ UNCHANGED heap
        \/ /\ th[t].pc = "help"
           /\ Step(t, IF heap[s].next # 0 THEN [pc |-> "move", new |-> heap[s].next] ELSE [pc |-> "mark"])
           /\ UNCHANGED heap
        \/ /\ th[t].pc = "mark"
           /\ heap' = [heap EXCEPT ![s].cells[th[t].i] =
                         IF c.moving THEN @
                         ELSE IF c.pushed THEN [@ EXCEPT !.moving = TRUE]
                         ELSE [@ EXCEPT !.moving = TRUE, !.moved = TRUE, !.item = None]]
           /\ Step(t, [i |-> th[t].i + 1, n |-> IF c.pushed THEN th[t].n + 1 ELSE th[t].n,
                       pc |-> IF th[t].i + 1 = SizeOf(s) THEN "link" ELSE "mark"])
     /\ UNCHANGED <<todo, top>>

\* The next store is as large if fewer than half of the cells hold an item.
LinkNext(t) ==
  LET size == SizeOf(th[t].s) IN
  LinkStore(t, NewStore(IF th[t].n < size \div 2 THEN size ELSE 2 * size), [pc |-> "move", i |-> 0, n |-> 0])

MoveCells(t) ==
  LET s == th[t].s
      new == th[t].new
      c == heap[s].cells[th[t].i]
      After == [pc |-> "move", i |-> th[t].i + 1]
  IN /\ \/ /\ th[t].pc = "move" /\ th[t].i = SizeOf(s)
           /\ heap' = [heap EXCEPT ![new].head = IF @ = Initializing THEN HeadAt(th[t].n) ELSE @]
           /\ Step(t, [pc |-> "install"])
        \/ /\ th[t].pc = "move" /\ th[t].i < SizeOf(s)
           /\ Step(t, CASE c.moved /\ c.pushed -> After @@ [n |-> th[t].n + 1]
                        [] c.moved /\ ~c.pushed -> After
                        [] OTHER -> [pc |-> "copy"])
           /\ UNCHANGED heap
        \/ /\ th[t].pc = "copy"
           /\ heap' = [heap EXCEPT ![new].cells[th[t].n] = IF @ = EmptyCell THEN Pushed(c.item, 0) ELSE @]
           /\ Step(t, [pc |-> "copied", n |-> th[t].n + 1])
        \/ /\ th[t].pc = "copied"
           /\ heap' = [heap EXCEPT ![s].cells[th[t].i].moved = TRUE]
           /\ Step(t, After)
     /\ UNCHANGED <<todo, top>>

Grow(t) ==
  th[t].pc # "idle" /\ (MarkCells(t) \/ LinkNext(t) \/ MoveCells(t) \/ InstallStore(t) \/ RetireStore(t))

\* hatstack_view_mmm, hatstack_view_next (the oldest first), hatstack_view_delete
View(t) ==
  \/ BeginView(t, [saw |-> EmptyCell])
  \/ /\ Calling(t, "view")
     /\ \/ LookStore(t)
        \/ ClaimStore(t)
        \/ LET s == th[t].s
               oldestFirst == SelectSeq([n \in 1..SizeOf(s) |-> heap[s].cells[n - 1]], LAMBDA c : c.pushed)
           IN ReadView(t, Reverse([n \in DOMAIN oldestFirst |-> oldestFirst[n].item]))

Next == \E t \in Threads : Push(t) \/ Pop(t) \/ Peek(t) \/ View(t) \/ Grow(t)
=============================================================================
