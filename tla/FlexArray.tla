------------------------------ MODULE FlexArray ------------------------------
(***************************************************************************)
(* The flexible array: reads and writes by index, and growth.  The array   *)
(* may be longer than its store; whoever needs a cell beyond the store     *)
(* migrates.  Calls count indices from 1.                                  *)
(***************************************************************************)
EXTENDS Fifo

EmptyCell == [item |-> None, used |-> FALSE, moving |-> FALSE, moved |-> FALSE]
UsedCell(item) == [EmptyCell EXCEPT !.item = item, !.used = TRUE]

\* flexarray_new_store
NewStore(len, size) ==
  [cells |-> [n \in 0..(size - 1) |-> EmptyCell], len |-> len, next |-> 0, claimed |-> FALSE, retired |-> 0]

\* hatrack_round_up_to_power_of_2
RoundUp(n) == Min({2^k : k \in 0..n} \ 0..(n - 1))

\* flexarray_init, and a set for every item of Preload
Init ==
  Begins([NewStore(Len(Preload), Capacity) EXCEPT
            !.cells = [n \in DOMAIN @ |-> IF n < Len(Preload) THEN UsedCell(Preload[n + 1]) ELSE @[n]]],
         [store |-> 1])

Locals == [saw |-> EmptyCell, len |-> 0]

Begins1(t, op) ==
  /\ todo[t] # <<>> /\ Head(todo[t]).op = op
  /\ Begin(t, [pc |-> "size", s |-> top.store] @@ Migrating("start") @@ Locals)

Restart(t) == th[t].pc = "start" /\ Step(t, [pc |-> "size", s |-> top.store])

\* The cell thread t's call is about, and what the array's length is.
Index(t) == th[t].call.at - 1
MyCell(t) == heap[th[t].s].cells[Index(t)]
Length(t) == heap[th[t].s].len
-----------------------------------------------------------------------------
\* flexarray_get_mmm
Get(t) ==
  /\ \/ Begins1(t, "get")
     \/ /\ Calling(t, "get")
        /\ \/ /\ th[t].pc = "size"
              /\ IF Index(t) >= Length(t) \/ Index(t) >= SizeOf(th[t].s)
                 THEN Answer(t, None) ELSE Step(t, [pc |-> "cell"])
           \/ /\ th[t].pc = "cell"
              /\ Answer(t, IF MyCell(t).used THEN MyCell(t).item ELSE None)
        /\ UNCHANGED todo
  /\ UNCHANGED <<top, heap>>

\* flexarray_set_mmm.  A writer that loses the swap to another writer is done: its
\* item has been overwritten already.
Set(t) ==
  \/ Begins1(t, "set") /\ UNCHANGED <<top, heap>>
  \/ /\ Calling(t, "set")
     /\ \/ Restart(t) /\ UNCHANGED heap
        \/ /\ th[t].pc = "size"
           /\ CASE Index(t) >= Length(t)      -> Answer(t, None)
                [] /\ Index(t) < Length(t)
                   /\ Index(t) >= SizeOf(th[t].s) -> Step(t, Migrating("start"))
                [] OTHER                      -> Step(t, [pc |-> "cell"])
           /\ UNCHANGED heap
        \/ /\ th[t].pc = "cell"
           /\ Step(t, IF MyCell(t).moving THEN Migrating("start") ELSE [pc |-> "swap", saw |-> MyCell(t)])
           /\ UNCHANGED heap
        \/ /\ th[t].pc = "swap" /\ MyCell(t) = th[t].saw
           /\ heap' = [heap EXCEPT ![th[t].s].cells[Index(t)] = UsedCell(th[t].call.item)]
           /\ Answer(t, Ok)
        \/ /\ th[t].pc = "swap" /\ MyCell(t) # th[t].saw
           /\ IF MyCell(t).moving THEN Step(t, Migrating("start")) ELSE Answer(t, Ok)
           /\ UNCHANGED heap
     /\ UNCHANGED <<todo, top>>

\* flexarray_grow_mmm: the length first, and then a store for it.
Grow(t) ==
  \/ Begins1(t, "grow") /\ UNCHANGED <<top, heap>>
  \/ /\ Calling(t, "grow")
     /\ LET length == th[t].call.at IN
        \/ Restart(t) /\ UNCHANGED heap
        \/ /\ th[t].pc = "size"
           /\ IF length < Length(t) THEN Answer(t, Ok) ELSE Step(t, [pc |-> "swap", len |-> Length(t)])
           /\ UNCHANGED heap
        \/ /\ th[t].pc = "swap" /\ Length(t) = th[t].len
           /\ heap' = [heap EXCEPT ![th[t].s].len = length]
           /\ IF length > SizeOf(th[t].s) THEN Step(t, Migrating("done")) ELSE Answer(t, Ok)
        \/ th[t].pc = "swap" /\ Length(t) # th[t].len /\ Step(t, [pc |-> "start"]) /\ UNCHANGED heap
        \/ th[t].pc = "done" /\ Answer(t, Ok) /\ UNCHANGED heap
     /\ UNCHANGED <<todo, top>>

\* flexarray_shrink_mmm compares the wanted length with its highest bit set
\* (FLEX_ARRAY_SHRINK) with the array's: it is always the larger, and nothing is done.
Shrink(t) ==
  /\ \/ Begins1(t, "shrink")
     \/ Calling(t, "shrink") /\ th[t].pc = "size" /\ Answer(t, Ok) /\ UNCHANGED todo
  /\ UNCHANGED <<top, heap>>
-----------------------------------------------------------------------------
\* flexarray_migrate: nothing to do for a store replaced already; a store with a
\* successor is copied; otherwise its cells are marked first.  A cell is read, and
\* marked for what was read then: as moved if it held no item.
MarkCells(t) ==
  LET s == th[t].s
      c == heap[s].cells[th[t].i]
      After == [pc |-> IF th[t].i + 1 = SizeOf(s) THEN "length" ELSE "mark", i |-> th[t].i + 1]
  IN /\ \/ /\ th[t].pc = "migrate"
           /\ Step(t, [pc |-> IF top.store # s THEN th[t].back ELSE "next"]) /\ UNCHANGED heap
        \/ /\ th[t].pc = "next"
           /\ Step(t, [new |-> heap[s].next, pc |-> IF heap[s].next = 0 THEN "mark" ELSE "length"])
           /\ UNCHANGED heap
        \/ /\ th[t].pc = "mark"
           /\ Step(t, [saw |-> c] @@ IF c.moving THEN After ELSE [pc |-> "or"]) /\ UNCHANGED heap
        \/ /\ th[t].pc = "or"
           /\ heap' = [heap EXCEPT ![s].cells[th[t].i] = [@ EXCEPT !.moving = TRUE, !.moved = @ \/ ~th[t].saw.used]]
           /\ Step(t, After)
        \/ /\ th[t].pc = "length"
           /\ Step(t, [n |-> heap[s].len, i |-> 0, pc |-> IF th[t].new = 0 THEN "link" ELSE "move"])
           /\ UNCHANGED heap
     /\ UNCHANGED <<todo, top>>

LinkNext(t) == LinkStore(t, NewStore(th[t].n, 2 * RoundUp(th[t].n)), [pc |-> "move"])

MoveCells(t) ==
  LET s == th[t].s
      c == heap[s].cells[th[t].i]
  IN /\ \/ /\ th[t].pc = "move" /\ th[t].i = SizeOf(s)
           /\ Step(t, [pc |-> "install"]) /\ UNCHANGED heap
        \/ /\ th[t].pc = "move" /\ th[t].i < SizeOf(s)
           /\ Step(t, CASE c.moved                         -> [i |-> th[t].i + 1]
                        [] ~c.moved /\ th[t].i < th[t].n   -> [pc |-> "copy", saw |-> c]
                        [] ~c.moved /\ th[t].i >= th[t].n  -> [pc |-> "copied"])
           /\ UNCHANGED heap
        \/ /\ th[t].pc = "copy"
           /\ heap' = [heap EXCEPT ![th[t].new].cells[th[t].i] =
                         IF @ = EmptyCell THEN UsedCell(th[t].saw.item) ELSE @]
           /\ Step(t, [pc |-> "copied"])
        \/ /\ th[t].pc = "copied"
           /\ heap' = [heap EXCEPT ![s].cells[th[t].i] = [@ EXCEPT !.moved = TRUE]]
           /\ Step(t, [pc |-> "move", i |-> th[t].i + 1])
     /\ UNCHANGED <<todo, top>>

Migrate(t) ==
  th[t].pc # "idle" /\ (MarkCells(t) \/ LinkNext(t) \/ MoveCells(t) \/ InstallStore(t) \/ RetireStore(t))

\* flexarray_view_mmm, flexarray_view_next, flexarray_view_delete_mmm
View(t) ==
  \/ BeginView(t, Locals)
  \/ /\ Calling(t, "view")
     /\ \/ LookStore(t)
        \/ ClaimStore(t)
        \/ LET st == heap[th[t].s]
               used == SelectSeq([n \in 1..st.len |-> st.cells[n - 1]], LAMBDA c : c.used)
           IN ReadView(t, [n \in DOMAIN used |-> used[n].item])

Next == \E t \in Threads : Get(t) \/ Set(t) \/ Grow(t) \/ Shrink(t) \/ View(t) \/ Migrate(t)
=============================================================================
