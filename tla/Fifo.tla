-------------------------------- MODULE Fifo --------------------------------
(***************************************************************************)
(* What the hatrack queues, stacks and arrays share: threads that call     *)
(* operations, memory blocks, and the sequential object the answers are    *)
(* compared with, a sequence of items.  No two calls add the same item.    *)
(***************************************************************************)
EXTENDS Naturals, FiniteSets, FiniteSetsExt, Sequences, SequencesExt, TLC

CONSTANTS
  Threads,
  Workloads,   \* functions from threads to sequences of calls
  Preload,     \* the items in the container before the threads begin
  Capacity,    \* a ring keeps at most so many items
  MaxBlocks,   \* bound: blocks of memory allocated in one run
  None         \* no item

ASSUME FifoAssumption ==
  /\ IsFiniteSet(Threads)
  /\ Preload \in Seq(Range(Preload))
  /\ Capacity \in Nat \ {0}
  /\ MaxBlocks \in Nat \ {0}

Ok == "ok"

VARIABLES
  top,    \* the container's own fields
  heap,   \* the blocks allocated so far, in order
  th,     \* what each thread is doing
  todo,   \* the calls each thread has still to make
  lin     \* the sequential executions that explain the answers so far

fifoVars == <<top, heap, th, todo, lin>>
-----------------------------------------------------------------------------
(* The sequential object.  Items enter at the end or at the front and      *)
(* leave at the front.  A put into a full ring pushes the oldest item out. *)
(* Where other calls run past a put or a dequeue of the ring, which the    *)
(* workload says with "lap" for "ring", a put may push out any one item,   *)
(* full or not: what is left is still in the order of the puts.            *)

Line(q, c) ==
  CASE c.op = "enqueue" -> {[obj |-> Append(q, c.item), res |-> Ok]}
    [] c.op = "ring"    -> {[obj |-> Append(IF Len(q) < Capacity THEN q ELSE Tail(q), c.item), res |-> Ok]}
    [] c.op = "lap"     -> {[obj |-> Append(r, c.item), res |-> Ok] :
                              r \in {q} \cup {RemoveAt(q, n) : n \in DOMAIN q}}
    [] c.op = "push"    -> {[obj |-> <<c.item>> \o q, res |-> Ok]}
    [] c.op \in {"dequeue", "pop"} ->
         {IF q = <<>> THEN [obj |-> q, res |-> None] ELSE [obj |-> Tail(q), res |-> q[1]]}
    [] c.op = "top"     -> {[obj |-> q, res |-> IF q = <<>> THEN None ELSE q[1]]}
    \* a view, and a dequeue, that promise nothing
    [] c.op = "glance"  -> {[obj |-> q, res |-> Ok]}
    [] c.op = "glean"   -> {[obj |-> r, res |-> Ok] : r \in {q, SubSeq(q, 2, Len(q))}}
    [] c.op = "view"    -> {[obj |-> q, res |-> SelectSeq(q, LAMBDA x : x # None)]}
    \* an array: cell n, or nothing beyond the end
    [] c.op = "get"     -> {[obj |-> q, res |-> IF c.at <= Len(q) THEN q[c.at] ELSE None]}
    [] c.op = "set"     -> {IF c.at <= Len(q) THEN [obj |-> [q EXCEPT ![c.at] = c.item], res |-> Ok]
                                              ELSE [obj |-> q, res |-> None]}
    [] c.op = "grow"    -> {[obj |-> IF c.at <= Len(q) THEN q ELSE q \o [n \in 1..(c.at - Len(q)) |-> None], res |-> Ok]}
    [] c.op = "shrink"  -> {[obj |-> IF c.at >= Len(q) THEN q ELSE SubSeq(q, 1, c.at), res |-> Ok]}
    [] c.op = "append"  -> {[obj |-> Append(q, c.item), res |-> Ok]}
    [] c.op = "back"    -> {IF q = <<>> THEN [obj |-> q, res |-> None]
                                        ELSE [obj |-> Front(q), res |-> Last(q)]}

Nothing(c) == {}
Unrelated(c, other) == FALSE

L == INSTANCE Linearizer WITH Apply <- Line, Yields <- Nothing, Touches <- Unrelated
-----------------------------------------------------------------------------
(* Calls.                                                                  *)

Idle == [pc |-> "idle"]

Calls == [t \in {u \in Threads : th[u].pc # "idle"} |-> th[t].call]

\* Record r with the fields of upd changed or added.
With(r, upd) == [f \in DOMAIN upd \cup DOMAIN r |-> IF f \in DOMAIN upd THEN upd[f] ELSE r[f]]

\* Thread t takes its next call.
Begin(t, first) ==
  /\ th[t].pc = "idle" /\ todo[t] # <<>>
  /\ th' = [th EXCEPT ![t] = With(first, [call |-> Head(todo[t])])]
  /\ todo' = [todo EXCEPT ![t] = Tail(@)]
  /\ UNCHANGED lin

\* Thread t goes on at upd.pc with the local variables of upd changed.
Step(t, upd) == th' = [th EXCEPT ![t] = With(@, upd)] /\ UNCHANGED lin

Calling(t, op) == th[t].pc # "idle" /\ th[t].call.op = op

\* The operation answers res: the call ends.
Answer(t, res) ==
  /\ th' = [th EXCEPT ![t] = Idle]
  /\ lin' = L!Answered(lin, Calls, t, res)

\* The container holds Preload in its first block.
Begins(first, fields) ==
  /\ heap = <<first>>
  /\ top = fields
  /\ th = [t \in Threads |-> Idle]
  /\ todo \in Workloads
  /\ lin = L!Fresh(Preload)

\* Every answer so far is that of the sequential object.
Linearizable == lin # {}

\* No block of memory is retired twice.
BlocksRetiredOnce == \A b \in DOMAIN heap : heap[b].retired <= 1

\* No block is retired twice, but for a store a view claims after the migration
\* that replaced it has retired it: then the view retires it again.
RetiredOnceButForViews ==
  \A b \in DOMAIN heap : \/ heap[b].retired <= 1
                         \/ heap[b].retired = 2 /\ heap[b].claimed /\ heap[b].late

\* Nothing is left to do.
Finished == \A t \in Threads : th[t].pc = "idle" /\ todo[t] = <<>>
-----------------------------------------------------------------------------
(* What hq, capq, the stack and the growing arrays share: an array of      *)
(* cells, the store, that is replaced by a larger one.  Whoever meets a    *)
(* migration helps: the cells are marked, a new store is linked, the items *)
(* are copied to it and it is installed.  Every step may be done by        *)
(* several helpers; a swap makes the first one count.                      *)
(*                                                                         *)
(* Stores are records with cells (a function from 0..n-1), next (the store *)
(* that replaces it, or 0), claimed (by a view), retired (how often) and,  *)
(* once a view has claimed it, late: whether it was retired by then.       *)

SizeOf(s) == Cardinality(DOMAIN heap[s].cells)

\* The cell seq counts to.
Ix(s, seq) == seq % SizeOf(s)

\* Thread t is about to migrate its store; afterwards it goes on at back.
Migrating(back) == [pc |-> "migrate", back |-> back, i |-> 0, n |-> 0, new |-> 0]

\* Compare-and-swap of next_store: fresh, or the store another helper linked.
LinkStore(t, fresh, then) ==
  LET s == th[t].s IN
  /\ th[t].pc = "link"
  /\ \/ /\ heap[s].next = 0 /\ Len(heap) < MaxBlocks
        /\ heap' = Append([heap EXCEPT ![s].next = Len(heap) + 1], fresh)
        /\ Step(t, [new |-> Len(heap) + 1] @@ then)
     \/ /\ heap[s].next # 0
        /\ Step(t, [new |-> heap[s].next] @@ then) /\ UNCHANGED heap
  /\ UNCHANGED <<todo, top>>

\* Mutant: a helper that comes second retires the store, too.
InstallStore_AllRetire(t) ==
  /\ th[t].pc = "install"
  /\ top' = [top EXCEPT !.store = IF @ = th[t].s THEN th[t].new ELSE @]
  /\ Step(t, [pc |-> "retire"])
  /\ UNCHANGED <<todo, heap>>

\* Compare-and-swap of the container's store.
InstallStore(t) ==
  /\ th[t].pc = "install"
  /\ \/ /\ top.store = th[t].s
        /\ top' = [top EXCEPT !.store = th[t].new]
        /\ Step(t, [pc |-> "retire"])
     \/ top.store # th[t].s /\ Step(t, [pc |-> th[t].back]) /\ UNCHANGED top
  /\ UNCHANGED <<todo, heap>>

\* The thread that installed the new store retires the old one, unless a view
\* has claimed it.
RetireStore(t) ==
  /\ th[t].pc = "retire"
  /\ heap' = IF heap[th[t].s].claimed THEN heap ELSE [heap EXCEPT ![th[t].s].retired = @ + 1]
  /\ Step(t, [pc |-> th[t].back])
  /\ UNCHANGED <<todo, top>>

\* A view is a store nobody else will change: it is claimed, and then replaced.
BeginView(t, locals) ==
  /\ todo[t] # <<>> /\ Head(todo[t]).op = "view"
  /\ Begin(t, [pc |-> "look", s |-> 0] @@ Migrating("look") @@ locals)
  /\ UNCHANGED <<top, heap>>

LookStore(t) ==
  /\ th[t].pc = "look"
  /\ Step(t, [pc |-> "claim store", s |-> top.store])
  /\ UNCHANGED <<todo, top, heap>>

ClaimStore(t) ==
  /\ th[t].pc = "claim store"
  /\ \/ /\ ~heap[th[t].s].claimed
        /\ heap' = [heap EXCEPT ![th[t].s] = With(@, [claimed |-> TRUE, late |-> @.retired > 0])]
        /\ Step(t, Migrating("read view"))
     \/ heap[th[t].s].claimed /\ Step(t, Migrating("look")) /\ UNCHANGED heap
  /\ UNCHANGED <<todo, top>>

\* view_next until the end, and view_delete, which retires the claimed store.
ReadView(t, items) ==
  /\ th[t].pc = "read view"
  /\ heap' = [heap EXCEPT ![th[t].s].retired = @ + 1]
  /\ Answer(t, items)
  /\ UNCHANGED <<todo, top>>
=============================================================================
