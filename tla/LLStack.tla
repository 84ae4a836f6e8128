------------------------------- MODULE LLStack -------------------------------
(***************************************************************************)
(* llstack: a linked list whose head is swapped.  A popped node is         *)
(* retired; its memory comes back only when no running operation can hold  *)
(* it, so that a swap never mistakes a new node for an old one.            *)
(***************************************************************************)
EXTENDS Fifo

Node(item, next) == [item |-> item, next |-> next, retired |-> 0]

\* llstack_new, llstack_init, and the pushes of Preload
Init ==
  /\ heap = [n \in 1..Len(Preload) |-> Node(Preload[n], IF n = Len(Preload) THEN 0 ELSE n + 1)]
  /\ top = [head |-> IF Len(Preload) = 0 THEN 0 ELSE 1]
  /\ th = [t \in Threads |-> Idle]
  /\ todo \in Workloads
  /\ lin = L!Fresh(Preload)

\* The head is read.
BeginOp(t, op) ==
  /\ todo[t] # <<>> /\ Head(todo[t]).op = op
  /\ Begin(t, [pc |-> "swap", head |-> top.head])
  /\ UNCHANGED <<top, heap>>

\* A swap that fails reads the head anew.
SwapFails(t) ==
  /\ top.head # th[t].head
  /\ Step(t, [head |-> top.head])
  /\ UNCHANGED <<todo, top, heap>>

\* llstack_push_mmm
Push(t) ==
  \/ BeginOp(t, "push")
  \/ /\ Calling(t, "push") /\ th[t].pc = "swap"
     /\ \/ SwapFails(t)
        \/ /\ top.head = th[t].head /\ Len(heap) < MaxBlocks
           /\ heap' = Append(heap, Node(th[t].call.item, th[t].head))
           /\ top' = [top EXCEPT !.head = Len(heap')]
           /\ Answer(t, Ok) /\ UNCHANGED todo

\* Mutant: the head is stored, not swapped.
Pop_Stores(t) ==
  \/ BeginOp(t, "pop")
  \/ /\ Calling(t, "pop") /\ th[t].head # 0
     /\ top' = [top EXCEPT !.head = heap[th[t].head].next]
     /\ heap' = [heap EXCEPT ![th[t].head].retired = @ + 1]
     /\ Answer(t, heap[th[t].head].item) /\ UNCHANGED todo
  \/ /\ Calling(t, "pop") /\ th[t].head = 0
     /\ Answer(t, None) /\ UNCHANGED <<todo, top, heap>>

\* llstack_pop_mmm
Pop(t) ==
  \/ BeginOp(t, "pop")
  \/ /\ Calling(t, "pop") /\ th[t].pc = "swap"
     /\ \/ /\ th[t].head = 0
           /\ Answer(t, None) /\ UNCHANGED <<todo, top, heap>>
        \/ th[t].head # 0 /\ SwapFails(t)
        \/ /\ th[t].head # 0 /\ top.head = th[t].head
           /\ top' = [top EXCEPT !.head = heap[th[t].head].next]
           /\ Step(t, [pc |-> "retire"]) /\ UNCHANGED <<todo, heap>>
  \/ /\ Calling(t, "pop") /\ th[t].pc = "retire"
     /\ heap' = [heap EXCEPT ![th[t].head].retired = @ + 1]
     /\ Answer(t, heap[th[t].head].item) /\ UNCHANGED <<todo, top>>

Next == \E t \in Threads : Push(t) \/ Pop(t)

Spec == Init /\ [][Next]_fifoVars
=============================================================================
