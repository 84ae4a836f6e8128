-------------------------------- MODULE CapQ --------------------------------
(***************************************************************************)
(* capq: a queue whose head can be looked at (top) and then removed if it  *)
(* is still the head (cap, compare and pop).  A dequeue is the two in a    *)
(* loop.  A cell keeps the number of the enqueue that filled it, also when *)
(* it is copied to a larger store: numbers start there at the next         *)
(* multiple of Jump, which no run of one store reaches.                    *)
(***************************************************************************)
EXTENDS Fifo

CONSTANTS
  Jump,      \* 1 << 32
  Suspend    \* CAPQ_TOP_SUSPEND_THRESHOLD

Flags == [enqueued |-> FALSE, dequeued |-> FALSE, moving |-> FALSE, moved |-> FALSE]
EmptyCell == [item |-> None, epoch |-> 0] @@ Flags
Enqueued(item, epoch) == [EmptyCell EXCEPT !.item = item, !.epoch = epoch, !.enqueued = TRUE]

\* capq_should_return
ShouldReturn(c) == c.enqueued \/ c.dequeued

\* capq_new_store; an index 0 stands for CAPQ_STORE_INITIALIZING.
NewStore(size) ==
  [cells |-> [n \in 0..(size - 1) |-> EmptyCell], enq |-> 0, deq |-> 0,
   next |-> 0, claimed |-> FALSE, retired |-> 0]

\* capq_init_size, and the enqueues of Preload
Init ==
  Begins([NewStore(Capacity) EXCEPT
            !.cells = [n \in DOMAIN @ |-> IF n < Len(Preload) THEN Enqueued(Preload[n + 1], Jump + n) ELSE @[n]],
            !.enq = Jump + Len(Preload), !.deq = Jump],
         [store |-> 1, len |-> Len(Preload)])

MyCell(t) == heap[th[t].s].cells[Ix(th[t].s, th[t].ix)]
SetMyCell(t, c) == heap' = [heap EXCEPT ![th[t].s].cells[Ix(th[t].s, th[t].ix)] = c]

\* The cell a migration counts from.
Locals == [saw |-> EmptyCell, low |-> 0]
-----------------------------------------------------------------------------
\* capq_enqueue_mmm
Enqueue(t) ==
  \/ /\ todo[t] # <<>> /\ Head(todo[t]).op = "enqueue"
     /\ Begin(t, [pc |-> "start", s |-> 0, ix |-> 0, step |-> 1] @@ Migrating("start") @@ Locals)
     /\ UNCHANGED <<top, heap>>
  \/ /\ Calling(t, "enqueue")
     /\ LET c == MyCell(t)
            Further == [pc |-> "claim", step |-> 2 * th[t].step]
        IN
        \/ /\ th[t].pc = "start"
           /\ Step(t, [pc |-> "claim", s |-> top.store, step |-> 1]) /\ UNCHANGED <<top, heap>>
        \/ /\ th[t].pc = "claim"
           /\ heap' = [heap EXCEPT ![th[t].s].enq = @ + th[t].step]
           /\ Step(t, [pc |-> "bound", ix |-> heap[th[t].s].enq]) /\ UNCHANGED top
        \/ /\ th[t].pc = "bound"
           /\ Step(t, IF th[t].ix >= heap[th[t].s].deq + SizeOf(th[t].s)
                      THEN Migrating("start") ELSE [pc |-> "cell"])
           /\ UNCHANGED <<top, heap>>
        \/ /\ th[t].pc = "cell"
           /\ Step(t, CASE c.moving -> Migrating("start")
                        [] ~c.moving /\ c.epoch >= th[t].ix -> Further
                        [] OTHER -> [pc |-> "put", saw |-> c])
           /\ UNCHANGED <<top, heap>>
        \/ /\ th[t].pc = "put" /\ c = th[t].saw
           /\ SetMyCell(t, Enqueued(th[t].call.item, th[t].ix))
           /\ Step(t, [pc |-> "count"]) /\ UNCHANGED top
        \/ /\ th[t].pc = "put" /\ c # th[t].saw
           /\ Step(t, IF c.moving THEN Migrating("start") ELSE Further)
           /\ UNCHANGED <<top, heap>>
        \/ /\ th[t].pc = "count"
           /\ top' = [top EXCEPT !.len = @ + 1]
           /\ Answer(t, Ok) /\ UNCHANGED heap
     /\ UNCHANGED todo
-----------------------------------------------------------------------------
\* What capq_top_mmm does with the head c it has found: it is the answer of a top,
\* also when it has been dequeued since, and what a dequeue tries to cap.
Found(t, c) ==
  IF th[t].call.op = "top" THEN Answer(t, c.item) ELSE Step(t, [pc |-> "cap", saw |-> c])

\* capq_top_mmm: the indexes, and whether there is anything between them.  The size
\* of the store is read once: after a migration the indexes are those of the new
\* store, and sz that of the old one.
TopIndexes(t) ==
  /\ \/ /\ th[t].pc = "top"
        /\ Step(t, [pc |-> "deq", s |-> top.store, sz |-> SizeOf(top.store), retries |-> 0])
     \/ /\ th[t].pc = "reload"
        /\ Step(t, [pc |-> "deq", s |-> top.store])
     \/ /\ th[t].pc = "deq"
        /\ Step(t, [pc |-> "enq", ix |-> heap[th[t].s].deq])
     \/ /\ th[t].pc = "enq"
        /\ Step(t, [pc |-> "between", end |-> heap[th[t].s].enq])
     \/ /\ th[t].pc = "between"
        /\ IF th[t].ix < th[t].end THEN Step(t, [pc |-> "head"]) ELSE Answer(t, None)
  /\ UNCHANGED <<todo, top, heap>>

\* capq_top_mmm: the cell at the head.  A cell nobody has filled yet is spoilt for
\* its enqueuer; one that is a round ahead means the indexes are old.
TopCell(t) ==
  LET n == th[t].ix % th[t].sz
      st == heap[th[t].s]
      c == st.cells[n]
  IN /\ \/ /\ th[t].pc = "head" /\ c.epoch = th[t].ix
           /\ IF ShouldReturn(c) THEN Found(t, c) ELSE Step(t, [pc |-> "next slot"])
           /\ UNCHANGED heap
        \/ /\ th[t].pc = "head" /\ c.epoch < th[t].ix
           /\ CASE ShouldReturn(c) -> Found(t, c)
                [] ~ShouldReturn(c) /\ c.moving -> Step(t, [pc |-> "between", ix |-> th[t].ix + 1])
                [] OTHER -> Step(t, [pc |-> "spoil", saw |-> c])
           /\ UNCHANGED heap
        \/ /\ th[t].pc = "head" /\ c.epoch > th[t].ix
           /\ LET retries == (th[t].retries + 1) % Suspend IN
              Step(t, [retries |-> retries] @@ IF retries = 0 THEN Migrating("reload") ELSE [pc |-> "deq"])
           /\ UNCHANGED heap
        \/ /\ th[t].pc = "spoil"
           /\ IF c = th[t].saw
              THEN /\ heap' = [heap EXCEPT ![th[t].s].cells[n] = [EmptyCell EXCEPT !.epoch = th[t].ix]]
                   /\ Step(t, [pc |-> "next slot"])
              ELSE Step(t, [pc |-> "between"]) /\ UNCHANGED heap
        \/ /\ th[t].pc = "next slot"
           /\ heap' = IF st.deq = th[t].ix THEN [heap EXCEPT ![th[t].s].deq = @ + 1] ELSE heap
           /\ Step(t, [pc |-> "between", ix |-> IF st.deq = th[t].ix THEN st.deq + 1 ELSE st.deq])
     /\ UNCHANGED <<todo, top>>

\* capq_cap_mmm: the head is removed if its epoch is still the one th[t].saw had.
Cap(t) ==
  LET c == MyCell(t)
      epoch == th[t].saw.epoch
      st == heap[th[t].s]
  IN /\ \/ /\ th[t].pc = "cap"
           /\ Step(t, [pc |-> "cap index", s |-> top.store]) /\ UNCHANGED heap
        \/ /\ th[t].pc = "cap index"
           /\ Step(t, [pc |-> "cap cell", ix |-> st.deq]) /\ UNCHANGED heap
        \/ /\ th[t].pc = "cap cell"
           /\ Step(t, CASE c.epoch # epoch \/ ~c.enqueued -> [pc |-> "top"]
                        [] c.epoch = epoch /\ c.enqueued /\ c.moving -> Migrating("cap")
                        [] OTHER -> [pc |-> "cap swap", saw |-> c])
           /\ UNCHANGED heap
        \/ /\ th[t].pc = "cap swap" /\ c = th[t].saw
           /\ SetMyCell(t, [c EXCEPT !.enqueued = FALSE, !.dequeued = TRUE])
           /\ Step(t, [pc |-> "cap next"])
        \/ /\ th[t].pc = "cap swap" /\ c # th[t].saw
           /\ Step(t, IF c.moving THEN Migrating("cap") ELSE [pc |-> "top"]) /\ UNCHANGED heap
        \/ /\ th[t].pc = "cap next"
           /\ heap' = IF st.deq = th[t].ix THEN [heap EXCEPT ![th[t].s].deq = @ + 1] ELSE heap
           /\ Answer(t, th[t].saw.item)
     /\ UNCHANGED <<todo, top>>

BeginTop(t, op) ==
  /\ todo[t] # <<>> /\ Head(todo[t]).op = op
  /\ Begin(t, [pc |-> "top", s |-> 0, sz |-> 0, ix |-> 0, end |-> 0, retries |-> 0] @@ Migrating("top") @@ Locals)
  /\ UNCHANGED <<top, heap>>

\* capq_top
Top(t) == BeginTop(t, "top") \/ (Calling(t, "top") /\ (TopIndexes(t) \/ TopCell(t)))

\* capq_dequeue_mmm
Dequeue(t) ==
  BeginTop(t, "dequeue") \/ (Calling(t, "dequeue") /\ (TopIndexes(t) \/ TopCell(t) \/ Cap(t)))
-----------------------------------------------------------------------------
\* capq_migrate: every cell is marked, with what it held as the mark was made.
MarkCells(t) ==
  LET s == th[t].s
      i == th[t].i
      c == heap[s].cells[i]
  IN /\ th[t].pc = "migrate"
     /\ heap' = [heap EXCEPT ![s].cells[i] = [@ EXCEPT !.moving = TRUE, !.moved = @ \/ ~c.enqueued]]
     /\ Step(t, [i |-> i + 1, pc |-> IF i + 1 = SizeOf(s) THEN "link" ELSE "migrate"])
     /\ UNCHANGED <<todo, top>>

\* The items to copy, and the cell of the lowest epoch.
Items(s) == {i \in DOMAIN heap[s].cells : heap[s].cells[i].enqueued}
LowestIx(s) ==
  IF Items(s) = {} THEN 0
  ELSE CHOOSE i \in Items(s) : \A j \in Items(s) : heap[s].cells[i].epoch <= heap[s].cells[j].epoch

LinkNext(t) == LinkStore(t, NewStore(2 * SizeOf(th[t].s)), [pc |-> "move", i |-> LowestIx(th[t].s), n |-> 0])

MoveCells(t) ==
  LET s == th[t].s
      new == th[t].new
      i == th[t].i
      c == heap[s].cells[i]
      After == [pc |-> "move", i |-> (i + 1) % SizeOf(s)]
      first == (heap[s].deq \div Jump + 1) * Jump
  IN /\ \/ /\ th[t].pc = "move" /\ th[t].n = Cardinality(Items(s))
           /\ Step(t, [pc |-> "start store"]) /\ UNCHANGED heap
        \/ /\ th[t].pc = "move" /\ th[t].n < Cardinality(Items(s))
           /\ Step(t, CASE ~c.enqueued -> After
                        [] c.enqueued /\ c.moved -> After @@ [n |-> th[t].n + 1]
                        [] OTHER -> [pc |-> "copy"])
           /\ UNCHANGED heap
        \/ /\ th[t].pc = "copy"
           /\ heap' = [heap EXCEPT ![new].cells[th[t].n] =
                         IF @ = EmptyCell THEN Enqueued(c.item, c.epoch) ELSE @]
           /\ Step(t, [pc |-> "copied", n |-> th[t].n + 1])
        \/ /\ th[t].pc = "copied"
           /\ heap' = [heap EXCEPT ![s].cells[i] = [@ EXCEPT !.moving = TRUE, !.moved = TRUE]]
           /\ Step(t, After)
        \/ /\ th[t].pc = "start store"
           /\ heap' = [heap EXCEPT ![new] = [@ EXCEPT
                         !.deq = IF @ = 0 THEN first ELSE @,
                         !.enq = IF @ = 0 THEN first + th[t].n ELSE @]]
           /\ Step(t, [pc |-> "install"])
     /\ UNCHANGED <<todo, top>>

Migrate(t) ==
  th[t].pc # "idle" /\ (MarkCells(t) \/ LinkNext(t) \/ MoveCells(t) \/ InstallStore(t) \/ RetireStore(t))

Next == \E t \in Threads : Enqueue(t) \/ Dequeue(t) \/ Top(t) \/ Migrate(t)
=============================================================================
