------------------------------ MODULE CellHat ------------------------------
(***************************************************************************)
(* What oldhat and tiara share: hash value, item and flags of a bucket are *)
(* replaced together by one compare-and-swap (of a pointer to a record, or *)
(* of the 128 bits of one).  live is the flag used.  The call that removes *)
(* a key names the record it leaves behind as any other call names its     *)
(* item.                                                                   *)
(***************************************************************************)
EXTENDS Hat

EmptyRec == [item |-> None, live |-> FALSE, moving |-> FALSE, moved |-> FALSE]
LiveRec(item) == [EmptyRec EXCEPT !.item = item, !.live = TRUE]

Start(store) == Begins(store, LiveRec)

Locals(pc) == [pc |-> pc, st |-> top.current, b |-> 0, rec |-> EmptyRec, i |-> 0, ns |-> 0, hv |-> 0,
               used |-> 0, want |-> Keys, res |-> None, then |-> "probe"]

Rec(t) == heap[th[t].st].rec[th[t].b]

\* The record that ends the probe of t for its key.
Here(t) == heap[th[t].st].rec[Stop(th[t].st, th[t].call.key)]

\* The *_mmm operations read the current store.
Enter(t) ==
  /\ todo[t] # <<>>
  /\ Begin(t, Locals(IF Head(todo[t]).op = "scan" THEN "scan" ELSE "probe"))
  /\ UNCHANGED <<top, heap>>

\* The probe ends at the record of the key, or elsewhere.
Probe(t, found, absent) ==
  LET s == th[t].st
      k == th[t].call.key
  IN /\ th[t].pc = "probe"
     /\ \/ Found(s, k) /\ found
        \/ ~Found(s, k) /\ absent
     /\ UNCHANGED <<todo, top>>

Quit(t, res) == Answer(t, res) /\ UNCHANGED heap

\* A free bucket is claimed and filled by one compare-and-swap, which fails only
\* if another has filled it, and that is as if it had been seen so.
Claim(t, rec, pc) ==
  LET s == th[t].st
      k == th[t].call.key
  IN \/ /\ Free(s, k)
        /\ heap' = [heap EXCEPT ![s].hv[Stop(s, k)] = k, ![s].rec[Stop(s, k)] = rec]
        /\ Step(t, [pc |-> pc])
     \/ Stops(s, k) = {} /\ Step(t, [pc |-> "migrate"]) /\ UNCHANGED heap

\* found_bucket: help to migrate, or go on to swap, or refuse.
Load(t, applies, refuse) ==
  /\ \/ Here(t).moving /\ Step(t, [pc |-> "migrate"])
     \/ ~Here(t).moving /\ applies /\ Step(t, [pc |-> "swap", b |-> Stop(th[t].st, th[t].call.key), rec |-> Here(t)])
     \/ ~Here(t).moving /\ ~applies /\ refuse
  /\ UNCHANGED heap

Swap(t, candidate, done, lost) ==
  /\ th[t].pc = "swap"
  /\ \/ /\ Rec(t) = th[t].rec
        /\ heap' = [heap EXCEPT ![th[t].st].rec[th[t].b] = candidate]
        /\ done
     \/ Rec(t) # th[t].rec /\ Rec(t).moving /\ Step(t, [pc |-> "migrate"]) /\ UNCHANGED heap
     \/ Rec(t) # th[t].rec /\ ~Rec(t).moving /\ lost /\ UNCHANGED heap
  /\ UNCHANGED <<todo, top>>

\* The new bucket is counted; at the threshold the caller migrates the store
\* before it answers.
CountUsed(t, res) ==
  /\ th[t].pc = "used"
  /\ heap' = [heap EXCEPT ![th[t].st].used = @ + 1]
  /\ IF heap[th[t].st].used >= Threshold(Size(th[t].st))
     THEN Step(t, [pc |-> "migrate", then |-> "done", res |-> res])
     ELSE Answer(t, res)
  /\ UNCHANGED <<todo, top>>

\* Back from the migration that follows a successful write.
Done(t) ==
  /\ th[t].pc = "done"
  /\ Answer(t, th[t].res)
  /\ UNCHANGED <<todo, top, heap>>

CountItem(t, count, done) ==
  /\ th[t].pc = "count"
  /\ top' = [top EXCEPT !.count = count]
  /\ done
  /\ UNCHANGED <<todo, heap>>

Scan(t) ==
  LET s == th[t].st
      b == th[t].i
      r == heap[s].rec[b]
  IN /\ th[t].pc = "scan"
     /\ \/ b = Size(s) /\ EndScan(t)
        \/ b < Size(s) /\ ~r.live /\ Step(t, [i |-> b + 1])
        \/ b < Size(s) /\ r.live /\ Report(t, heap[s].hv[b], r.item, [i |-> b + 1])
     /\ UNCHANGED <<todo, top, heap>>
-----------------------------------------------------------------------------
(* Migration.                                                              *)

\* Agree on the next store: the first candidate to be swapped in.
AgreeOnNext(t, candidate) ==
  LET s == th[t].st IN
  /\ \/ heap[s].next # 0 /\ Step(t, [pc |-> "move", i |-> 0, ns |-> heap[s].next]) /\ UNCHANGED heap
     \/ /\ heap[s].next = 0 /\ Len(heap) < MaxStores
        /\ heap' = Append([heap EXCEPT ![s].next = Len(heap) + 1], candidate)
        /\ Step(t, [pc |-> "move", i |-> 0, ns |-> Len(heap) + 1])
  /\ UNCHANGED <<todo, top>>

\* The next store with record rec for key k, if k had none there.
MovedTo(n, k, rec) ==
  IF Free(n, k) THEN [heap EXCEPT ![n].hv[Stop(n, k)] = k, ![n].rec[Stop(n, k)] = rec] ELSE heap

InstallUsed(t, used) ==
  /\ heap' = [heap EXCEPT ![th[t].ns].used = IF @ = 0 THEN used ELSE @]
  /\ Step(t, [pc |-> "install"])
  /\ UNCHANGED <<todo, top>>

InstallStore(t) ==
  /\ th[t].pc = "install"
  /\ \/ /\ top.current = th[t].st
        /\ top' = [top EXCEPT !.current = th[t].ns]
        /\ heap' = [heap EXCEPT ![th[t].st].retired = @ + 1]
     \/ top.current # th[t].st /\ UNCHANGED <<top, heap>>
  /\ Step(t, [pc |-> th[t].then, st |-> top'.current, i |-> 0, ns |-> 0, hv |-> 0, used |-> 0])
  /\ UNCHANGED todo
=============================================================================
