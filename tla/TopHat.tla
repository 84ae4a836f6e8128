------------------------------- MODULE TopHat -------------------------------
(***************************************************************************)
(* tophat: a table for one writer that turns into one for many when two    *)
(* writers meet.  Until then it is an array of buckets, written under a    *)
(* mutex and read without; who finds the mutex taken moves the items into  *)
(* a newshat, witchhat, ballcap or woolhat, and calls are passed on to     *)
(* that from then on.                                                      *)
(*                                                                         *)
(* heap holds the arrays of buckets, current is ctx->buckets and last      *)
(* ctx->last_slot, which readers fetch again for every bucket.  The        *)
(* multi-threaded table is what its own module shows it to be: a           *)
(* dictionary whose operations are atomic; mt is that dictionary, and moved *)
(* tells that mt_table points at it.                                       *)
(***************************************************************************)
EXTENDS LockHat

Kinds == {"newshat", "witchhat", "ballcap", "woolhat"}

StoreNew(size) == StoreOf(size)

\* tophat_init_base
InitBase(kind) ==
  BeginsWith(StoreNew(MinSize), LiveRec,
             [last |-> MinSize - 1, kind |-> kind, moved |-> FALSE, mt |-> [k \in Keys |-> None], mtcount |-> 0])

\* tophat_init_fast_mx_size, fast_wf_size, cst_mx_size, cst_wf_size
Init == \E kind \in Kinds : InitBase(kind)

\* Every operation starts with a look at mt_table.
FirstLook(op) ==
  IF top.moved THEN [pc |-> "mt"]
  ELSE [pc |-> CASE op = "get" -> "probe" [] op = "scan" -> "scan" [] OTHER -> "try"]

Operation(t) ==
  /\ todo[t] # <<>>
  /\ Begin(t, [st |-> top.current, i |-> 0, want |-> Keys, res |-> None, bix |-> 0, end |-> top.last + 1, b |-> 0]
              @@ FirstLook(Head(todo[t]).op))
  /\ UNCHANGED <<top, heap>>

\* The call is passed on to the multi-threaded table; a view of it reports one
\* key after the other.
PassOn(t) ==
  /\ th[t].pc = "mt"
  /\ IF th[t].call.op = "scan"
     THEN /\ IF \E k \in th[t].want : top.mt[k] # None
             THEN \E k \in th[t].want : top.mt[k] # None /\ Report(t, k, top.mt[k], [pc |-> "mt"])
             ELSE EndScan(t)
          /\ UNCHANGED top
     ELSE /\ top' = [top EXCEPT !.mt = Dict(top.mt, th[t].call).obj]
          /\ Answer(t, Dict(top.mt, th[t].call).res)
  /\ UNCHANGED <<todo, heap>>

\* tophat_get_mmm, without a lock: one bucket of the array that is current.
TopGet(t) ==
  LET k == th[t].call.key
      b == (k + th[t].i) % (top.last + 1)
      hv == heap[top.current].hv[b]
  IN /\ Calling(t, "get")
     /\ \/ /\ th[t].pc = "probe"
           /\ CASE hv = k -> Step(t, [pc |-> "record", st |-> top.current, b |-> b])
                [] hv = 0 -> Answer(t, None)
                [] OTHER  -> Step(t, [i |-> th[t].i + 1])
           /\ UNCHANGED <<todo, top, heap>>
        \/ GetRecord(t, Answer(t, IF Rec(t).live THEN Rec(t).item ELSE None))

\* tophat_view_mmm
View(t) == Calling(t, "scan") /\ Scan(t, EndScan(t))

\* pthread_mutex_trylock; mt_table is not looked at again when it succeeds.
TryLock(t) ==
  /\ th[t].pc = "try"
  /\ \/ /\ top.mutex = 0
        /\ top' = [top EXCEPT !.mutex = t]
        /\ Step(t, [pc |-> "find", st |-> top.current])
     \/ /\ top.mutex # 0
        /\ Step(t, [pc |-> "wait"]) /\ UNCHANGED top
  /\ UNCHANGED <<todo, heap>>

\* The mutex was taken: the table has two writers and is moved, once.
WaitLock(t) ==
  /\ th[t].pc = "wait" /\ top.mutex = 0
  /\ \/ top.moved /\ Step(t, [pc |-> "mt"]) /\ UNCHANGED top
     \/ ~top.moved /\ Step(t, [pc |-> "migrate"]) /\ top' = [top EXCEPT !.mutex = t]
  /\ UNCHANGED <<todo, heap>>

Lock(t) == TryLock(t) \/ WaitLock(t)

\* tophat_st_migrate: the new array is current before its size is known.
StMigrate(t) ==
  LET s == top.current IN
  /\ Len(heap) < MaxStores
  /\ heap' = Append([heap EXCEPT ![s].retired = @ + 1],
                    [Rebuilt(s, NewSize(Size(s), top.count + 1)) EXCEPT !.used = top.count])
  /\ top' = [top EXCEPT !.current = Len(heap) + 1]
  /\ Step(t, [pc |-> "resize"])

\* Its last_slot is stored, the mutex released, the operation called again.
Resize(t) ==
  /\ th[t].pc = "resize"
  /\ top' = [top EXCEPT !.last = Size(top.current) - 1, !.mutex = 0]
  /\ Step(t, FirstLook(th[t].call.op))
  /\ UNCHANGED <<todo, heap>>

\* tophat_put_mmm under the mutex
TopPut(t) ==
  /\ Calling(t, "put")
  /\ \/ FindOrTake(t, StMigrate(t))
     \/ Resize(t)
     \/ Write(t, LiveRec(th[t].call.item), IF Rec(t).live THEN Rec(t).item ELSE None, Counted(Rec(t)))

\* tophat_replace_mmm under the mutex
TopReplace(t) ==
  /\ Calling(t, "replace")
  /\ \/ FindOnly(t, Unlock(t, None, top.count))
     \/ Rec(t).live /\ Write(t, LiveRec(th[t].call.item), Rec(t).item, top.count)
     \/ ~Rec(t).live /\ Write(t, Rec(t), None, top.count)

\* tophat_add_mmm under the mutex
TopAdd(t) ==
  /\ Calling(t, "add")
  /\ \/ FindOrTake(t, StMigrate(t))
     \/ Resize(t)
     \/ ~Rec(t).live /\ Write(t, LiveRec(th[t].call.item), th[t].call.item, top.count + 1)
     \/ Rec(t).live /\ Write(t, Rec(t), None, top.count)

\* tophat_remove_mmm under the mutex
TopRemove(t) ==
  /\ Calling(t, "remove")
  /\ \/ FindOnly(t, Unlock(t, None, top.count))
     \/ Rec(t).live /\ Write(t, [Rec(t) EXCEPT !.live = FALSE], Rec(t).item, top.count - 1)
     \/ ~Rec(t).live /\ Write(t, Rec(t), None, top.count)
-----------------------------------------------------------------------------
(* tophat_migrate                                                          *)

\* The dictionary that the live records of the array are.
Moved ==
  LET s == top.current IN
  [k \in Keys |-> IF \E b \in Slots(s) : heap[s].hv[b] = k /\ heap[s].rec[b].live
                  THEN heap[s].rec[CHOOSE b \in Slots(s) : heap[s].hv[b] = k].item
                  ELSE None]

\* mt_table is stored when the table is complete; count is its item_count.
MoveTo(t, kind, counts) ==
  /\ th[t].pc = "migrate" /\ top.kind = kind
  /\ \E n \in counts : top' = [top EXCEPT !.moved = TRUE, !.mt = Moved, !.mtcount = n]
  /\ heap' = [heap EXCEPT ![top.current].retired = @ + 1]
  /\ Step(t, [pc |-> "unlock"])
  /\ UNCHANGED todo

MigrateToNewshat(t)  == MoveTo(t, "newshat", {top.count})
MigrateToWitchhat(t) == MoveTo(t, "witchhat", {top.count})
MigrateToBallcap(t)  == MoveTo(t, "ballcap", {top.count})

\* item_count is left as it was allocated.
MigrateToWoolhat(t)  == MoveTo(t, "woolhat", 0..Cardinality(Keys))

UnlockMoved(t) ==
  /\ th[t].pc = "unlock"
  /\ top' = [top EXCEPT !.mutex = 0]
  /\ Step(t, [pc |-> "mt"])
  /\ UNCHANGED <<todo, heap>>

Next == \E t \in Threads :
  \/ Operation(t) \/ PassOn(t) \/ TopGet(t) \/ View(t) \/ Lock(t) \/ TopPut(t) \/ TopReplace(t) \/ TopAdd(t) \/ TopRemove(t)
  \/ MigrateToNewshat(t) \/ MigrateToWitchhat(t) \/ MigrateToBallcap(t) \/ MigrateToWoolhat(t) \/ UnlockMoved(t)
=============================================================================
