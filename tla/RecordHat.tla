----------------------------- MODULE RecordHat -----------------------------
(***************************************************************************)
(* What hihat, hihat_a, witchhat and crown share.  A bucket is a hash      *)
(* value, written once, and a record (item, info) changed by a 128-bit     *)
(* compare-and-swap.  A writer that finds a record marked as moving helps  *)
(* to migrate the whole store and tries again in the next one.             *)
(*                                                                         *)
(* Each step below is one atomic access of shared memory.  The operations  *)
(* of the tables are put together from them; an argument such as absent,   *)
(* done or lost is what the operation does next.  The epoch in info is     *)
(* kept as zero or not: live.                                              *)
(***************************************************************************)
EXTENDS Hat

EmptyRec == [item |-> None, live |-> FALSE, inited |-> FALSE, moving |-> FALSE, moved |-> FALSE]

LiveRec(item) == [EmptyRec EXCEPT !.item = item, !.live = TRUE, !.inited = TRUE]

\* What a remove leaves behind.
Removed == [EmptyRec EXCEPT !.inited = TRUE]

\* candidate.info keeps the epoch of a live record and is new otherwise.
Candidate(item, r) == IF r.live THEN [r EXCEPT !.item = item] ELSE LiveRec(item)

EmptyStore(size) == BareStore(size, EmptyRec)

Start(store) == Begins(store, LiveRec)

\* The local variables of an operation at its start.
Locals(pc) == [pc |-> pc, st |-> top.current, b |-> 0, rec |-> EmptyRec, i |-> 0, ns |-> 0, used |-> 0,
               want |-> Keys, res |-> None, then |-> "probe", tries |-> 0, map |-> {}]

Rec(t) == heap[th[t].st].rec[th[t].b]
-----------------------------------------------------------------------------
(* Finding the bucket.                                                     *)

\* get, replace and remove give up at a free bucket.
Lookup(t, absent) ==
  LET s == th[t].st
      k == th[t].call.key
  IN /\ th[t].pc = "probe"
     /\ \/ Found(s, k) /\ Step(t, [pc |-> "record", b |-> Stop(s, k)])
        \/ ~Found(s, k) /\ absent
     /\ UNCHANGED <<todo, top, heap>>

\* put and add reserve a free bucket; a full store is migrated.
Reserve(t) ==
  LET s == th[t].st
      k == th[t].call.key
  IN /\ th[t].pc = "probe"
     /\ \/ /\ Found(s, k)
           /\ Step(t, [pc |-> "record", b |-> Stop(s, k)]) /\ UNCHANGED heap
        \/ /\ Free(s, k)
           /\ heap' = [heap EXCEPT ![s].hv[Stop(s, k)] = k]
           /\ Step(t, [pc |-> "used", b |-> Stop(s, k)])
        \/ /\ Stops(s, k) = {}
           /\ Step(t, [pc |-> "retry"]) /\ UNCHANGED heap
     /\ UNCHANGED <<todo, top>>

\* The bucket is counted; at the threshold the store is migrated instead.
CountBucket(t) ==
  /\ th[t].pc = "used"
  /\ heap' = [heap EXCEPT ![th[t].st].used = @ + 1]
  /\ Step(t, [pc |-> IF heap[th[t].st].used >= Threshold(Size(th[t].st)) THEN "retry" ELSE "record"])
  /\ UNCHANGED <<todo, top>>
-----------------------------------------------------------------------------
(* Reading and writing the record.                                         *)

GetRecord(t, item) ==
  /\ th[t].pc = "record"
  /\ Answer(t, item)
  /\ UNCHANGED <<todo, top, heap>>

\* found_bucket: a moving record sends the writer to migrate; otherwise the
\* operation goes on to swap in its candidate, or refuses.
ReadRecord(t, applies, refuse) ==
  /\ th[t].pc = "record"
  /\ \/ Rec(t).moving /\ Step(t, [pc |-> "retry"])
     \/ ~Rec(t).moving /\ applies /\ Step(t, [pc |-> "swap", rec |-> Rec(t)])
     \/ ~Rec(t).moving /\ ~applies /\ refuse
  /\ UNCHANGED <<todo, top, heap>>

\* LCAS(&bucket->record, &record, candidate) succeeds ...
SwapRecord(t, candidate, done) ==
  /\ th[t].pc = "swap" /\ Rec(t) = th[t].rec
  /\ heap' = [heap EXCEPT ![th[t].st].rec[th[t].b] = candidate]
  /\ done
  /\ UNCHANGED <<todo, top>>

\* ... or fails, and the operation helps to migrate or has lost its race.
LoseSwap(t, lost) ==
  /\ th[t].pc = "swap" /\ Rec(t) # th[t].rec
  /\ \/ Rec(t).moving /\ Step(t, [pc |-> "retry"])
     \/ ~Rec(t).moving /\ lost
  /\ UNCHANGED <<todo, top, heap>>

\* atomic_fetch_add or _sub of item_count
CountItem(t, count, done) ==
  /\ th[t].pc = "count"
  /\ top' = [top EXCEPT !.count = count]
  /\ done
  /\ UNCHANGED <<todo, heap>>

\* A view reads every bucket of the store once; it reports the records seen.
Scan(t, seen(_), value(_)) ==
  LET s == th[t].st
      b == th[t].i
      r == heap[s].rec[b]
      k == heap[s].hv[b]
  IN /\ th[t].pc = "scan"
     /\ \/ b = Size(s) /\ EndScan(t)
        \/ b < Size(s) /\ ~seen(r) /\ Step(t, [i |-> b + 1])
        \/ b < Size(s) /\ seen(r) /\ Report(t, k, value(r), [i |-> b + 1])
     /\ UNCHANGED <<todo, top, heap>>
-----------------------------------------------------------------------------
(* Migration.                                                              *)

\* Back from the migration: try again in store s, or go on with what was done.
Migrated(t, s) ==
  LET local == [pc |-> th[t].then, i |-> 0, ns |-> 0, used |-> 0, map |-> {}]
  IN Step(t, IF th[t].then \in {"probe", "map"} THEN With(local, [st |-> s]) ELSE local)

EnterMigrate(t, pc, first) ==
  /\ th[t].pc = pc
  /\ \/ top.current # th[t].st /\ Migrated(t, top.current)
     \/ top.current = th[t].st /\ Step(t, [pc |-> first, i |-> 0])
  /\ UNCHANGED <<todo, top, heap>>

\* The first bucket from i on that a loop has something to do for; what it
\* passes is frozen, so it may pass it at once.
FirstFrom(s, i, done(_)) == Min({Size(s)} \cup {b \in i..(Size(s) - 1) : ~done(heap[s].rec[b])})
LiveIn(s) == Cardinality({b \in Slots(s) : heap[s].rec[b].live})

\* The first loop: forbid writes to every bucket.  A record is frozen from here
\* on, so the reread of the code sees what the OR left, and every thread that
\* ends the loop has counted the same items.
MarkMoving(t) ==
  LET s == th[t].st
      i == FirstFrom(s, th[t].i, LAMBDA r : r.moving)
      empty == ~heap[s].rec[i].live
  IN /\ th[t].pc = "mark" /\ i < Size(s)
     /\ heap' = [heap EXCEPT ![s].rec[i].moving = TRUE]
     /\ Step(t, IF empty THEN [pc |-> "mark moved", i |-> i] ELSE [i |-> i + 1])
     /\ UNCHANGED <<todo, top>>

\* A bucket without an item has nothing to move.
MarkEmptyMoved(t) ==
  /\ th[t].pc = "mark moved"
  /\ heap' = [heap EXCEPT ![th[t].st].rec[th[t].i].moved = TRUE]
  /\ Step(t, [pc |-> "mark", i |-> th[t].i + 1])
  /\ UNCHANGED <<todo, top>>

\* Agree on the next store: the first candidate to be swapped in.
AgreeOnNext(t, candidate) ==
  LET s == th[t].st IN
  /\ \/ heap[s].next # 0 /\ Step(t, [pc |-> "move", i |-> 0, ns |-> heap[s].next]) /\ UNCHANGED heap
     \/ /\ heap[s].next = 0 /\ Len(heap) < MaxStores
        /\ heap' = Append([heap EXCEPT ![s].next = Len(heap) + 1], candidate)
        /\ Step(t, [pc |-> "move", i |-> 0, ns |-> Len(heap) + 1])
  /\ UNCHANGED <<todo, top>>

NextStore(t, candidate) ==
  /\ th[t].pc = "mark" /\ FirstFrom(th[t].st, th[t].i, LAMBDA r : r.moving) = Size(th[t].st)
  /\ AgreeOnNext(t, candidate)

\* The second loop: skip what is moved, or reserve a bucket in the next store.
\* The hash value may be 0: a helper meets a bucket between MarkMoving and
\* MarkEmptyMoved of another thread.
MoveHash(t, reserved, found) ==
  LET s == th[t].st
      n == th[t].ns
      i == FirstFrom(s, th[t].i, LAMBDA r : r.moved)
      k == heap[s].hv[i]
  IN /\ th[t].pc = "move" /\ i < Size(s)
     /\ heap' = [heap EXCEPT ![n].hv[Stop(n, k)] = IF Stops(n, k) = {} THEN @ ELSE k]
     /\ Step(t, [pc |-> IF Free(n, k) THEN reserved ELSE found,
                 i |-> i, b |-> Stop(n, k), rec |-> heap[s].rec[i]])
     /\ UNCHANGED <<todo, top>>

\* The record is copied only over a record never written.
MoveRecord(t, copy) ==
  LET n == th[t].ns
      b == th[t].b
  IN /\ th[t].pc = "move record"
     /\ heap' = [heap EXCEPT ![n].rec[b] = IF @ = EmptyRec THEN copy ELSE @]
     /\ Step(t, [pc |-> "moved"])
     /\ UNCHANGED <<todo, top>>

\* candidate_record of the second loop: the item and the epoch, no flags.
Copied(r) == [EmptyRec EXCEPT !.item = r.item, !.live = r.live]

MarkMoved(t) ==
  /\ th[t].pc = "moved"
  /\ heap' = [heap EXCEPT ![th[t].st].rec[th[t].i].moved = TRUE]
  /\ Step(t, [pc |-> "move", i |-> th[t].i + 1])
  /\ UNCHANGED <<todo, top>>

InstallUsed(t, used) ==
  /\ th[t].pc = "move" /\ FirstFrom(th[t].st, th[t].i, LAMBDA r : r.moved) = Size(th[t].st)
  /\ heap' = [heap EXCEPT ![th[t].ns].used = IF @ = 0 THEN used ELSE @]
  /\ Step(t, [pc |-> "install"])
  /\ UNCHANGED <<todo, top>>

\* Mutant: a thread that comes second retires the old store, too.
InstallStore_AllRetire(t) ==
  /\ th[t].pc = "install"
  /\ top' = [top EXCEPT !.current = IF @ = th[t].st THEN th[t].ns ELSE @]
  /\ heap' = [heap EXCEPT ![th[t].st].retired = @ + 1]
  /\ Migrated(t, top'.current)
  /\ UNCHANGED todo

\* The thread that makes the next store current retires the old one.
InstallStore(t) ==
  /\ th[t].pc = "install"
  /\ \/ /\ top.current = th[t].st
        /\ top' = [top EXCEPT !.current = th[t].ns]
        /\ heap' = [heap EXCEPT ![th[t].st].retired = @ + 1]
     \/ top.current # th[t].st /\ UNCHANGED <<top, heap>>
  /\ Migrated(t, top'.current)
  /\ UNCHANGED todo
=============================================================================
