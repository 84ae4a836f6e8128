----------------------------- MODULE HistoryHat -----------------------------
(***************************************************************************)
(* What lohat, lohat_a and woolhat add to the tables of RecordHat: a       *)
(* bucket heads a list of records, newest first.  A record gets the epoch  *)
(* at which it was written after it has become the head, from its writer   *)
(* or from whoever meets it first; a view shows, for every bucket, the     *)
(* newest record not younger than the epoch the view began at.             *)
(*                                                                         *)
(* Records are shared by the old and the new store, so they live in        *)
(* top.recs; 0 is the null pointer.  retired counts the calls of           *)
(* mmm_retire for the record.  create_epoch, which only orders the items   *)
(* of a view, is left out.                                                 *)
(***************************************************************************)
EXTENDS RecordHat

\* A bucket: its head and the flags of the migration; del is woolhat's request
\* to others to finish a remove.
EmptyCell == [head |-> 0, moving |-> FALSE, moved |-> FALSE, del |-> FALSE]

Record(item, live, next) == [item |-> item, live |-> live, epoch |-> 0, next |-> next, retired |-> 0]

\* The cell and the committed record of a preloaded item.
CellOf(item) == [EmptyCell EXCEPT !.head = CHOOSE n \in DOMAIN Preload : Preload[n][2] = item]
OldRecords(pairs) == [n \in DOMAIN pairs |-> [Record(pairs[n][2], TRUE, 0) EXCEPT !.epoch = n]]

CellStore(size) == BareStore(size, EmptyCell)

StartHistory(store) ==
  BeginsWith(store, CellOf, [epoch |-> Len(Preload) + 1, recs |-> OldRecords(Preload)])

HistLocals(pc) ==
  [rec |-> EmptyCell, new |-> 0, from |-> 0, who |-> 0, after |-> "", stamp |-> 0,
   epoch |-> top.epoch, seen |-> [k \in Keys |-> None], end |-> 0, pb |-> 0, mine |-> TRUE] @@ Locals(pc)

\* The *_mmm operations; a view reads the epoch and then the current store.
Enter(t) ==
  /\ todo[t] # <<>>
  /\ Begin(t, HistLocals(IF Head(todo[t]).op = "view" THEN "view" ELSE "probe"))
  /\ UNCHANGED <<top, heap>>

LiveCell(c) == c.head # 0 /\ top.recs[c.head].live
ItemIn(c) == top.recs[c.head].item
LiveHeads(s) == Cardinality({b \in DOMAIN heap[s].rec : LiveCell(heap[s].rec[b])})
-----------------------------------------------------------------------------
(* Commitment of a record.                                                 *)

\* mmm_commit_write: the record becomes part of the epoch that starts now ...
CommitWrite(t, after) ==
  /\ th[t].pc = "commit"
  /\ top' = [top EXCEPT !.epoch = @ + 1]
  /\ Step(t, [pc |-> "stamp", who |-> th[t].new, stamp |-> top.epoch + 1, after |-> after])
  /\ UNCHANGED <<todo, heap>>

\* mmm_help_commit: the same for the head that was read, unless it is committed.
HelpCommit(t, pc, after) ==
  /\ th[t].pc = pc
  /\ \/ top.recs[th[t].rec.head].epoch # 0 /\ Step(t, [pc |-> after]) /\ UNCHANGED top
     \/ /\ top.recs[th[t].rec.head].epoch = 0
        /\ top' = [top EXCEPT !.epoch = @ + 1]
        /\ Step(t, [pc |-> "stamp", who |-> th[t].rec.head, stamp |-> top.epoch + 1, after |-> after])
  /\ UNCHANGED <<todo, heap>>

\* ... unless another thread has stamped it first.
Stamp(t) ==
  /\ th[t].pc = "stamp"
  /\ top' = [top EXCEPT !.recs[th[t].who].epoch = IF @ = 0 THEN th[t].stamp ELSE @]
  /\ Step(t, [pc |-> th[t].after, who |-> 0, stamp |-> 0, after |-> ""])
  /\ UNCHANGED <<todo, heap>>
-----------------------------------------------------------------------------
(* Finding the bucket.  The loops of the writers end at i < last_slot: they *)
(* never look at the last bucket of a round, as get and the migration do.   *)

WriterStops(s, k) == Stops(s, k) \ {Size(s) - 1}
WriterStop(s, k)  == Bucket(s, k, Min(WriterStops(s, k)))
WriterFinds(s, k) == WriterStops(s, k) # {} /\ heap[s].hv[WriterStop(s, k)] = k
WriterFree(s, k)  == WriterStops(s, k) # {} /\ heap[s].hv[WriterStop(s, k)] = 0

\* replace and remove
WriterLookup(t, absent) ==
  LET s == th[t].st
      k == th[t].call.key
  IN /\ th[t].pc = "probe"
     /\ IF WriterFinds(s, k) THEN Step(t, [pc |-> "record", b |-> WriterStop(s, k)]) ELSE absent
     /\ UNCHANGED <<todo, top, heap>>

\* put and add
WriterReserve(t) ==
  LET s == th[t].st
      k == th[t].call.key
  IN /\ th[t].pc = "probe"
     /\ \/ /\ WriterFinds(s, k)
           /\ Step(t, [pc |-> "record", b |-> WriterStop(s, k)]) /\ UNCHANGED heap
        \/ /\ WriterFree(s, k)
           /\ heap' = [heap EXCEPT ![s].hv[WriterStop(s, k)] = k]
           /\ Step(t, [pc |-> "used", b |-> WriterStop(s, k)])
        \/ /\ WriterStops(s, k) = {}
           /\ Step(t, [pc |-> "retry"]) /\ UNCHANGED heap
     /\ UNCHANGED <<todo, top>>
-----------------------------------------------------------------------------
(* Reading and writing the head.                                           *)

\* get: a live head is committed before its item is returned.
GetHead(t) ==
  /\ th[t].pc = "record"
  /\ IF LiveCell(Rec(t)) THEN Step(t, [pc |-> "help", rec |-> Rec(t)]) ELSE Answer(t, None)
  /\ UNCHANGED <<todo, top, heap>>

GetItem(t) ==
  /\ th[t].pc = "answer"
  /\ Answer(t, ItemIn(th[t].rec))
  /\ UNCHANGED <<todo, top, heap>>

\* found_history_bucket
ReadHead(t, applies, refuse, first) ==
  /\ th[t].pc = "record"
  /\ \/ Rec(t).moving /\ Step(t, [pc |-> "retry"])
     \/ /\ ~Rec(t).moving /\ applies
        /\ Step(t, [pc |-> IF Rec(t).head = 0 THEN "swap" ELSE first, rec |-> Rec(t), from |-> Rec(t).head])
     \/ ~Rec(t).moving /\ ~applies /\ refuse
  /\ UNCHANGED <<todo, top, heap>>

\* A new record, in front of the one its writer read first, becomes the head.
SwapHead(t, item, live, pc) ==
  LET n == Len(top.recs) + 1 IN
  /\ th[t].pc = "swap" /\ Rec(t) = th[t].rec
  /\ heap' = [heap EXCEPT ![th[t].st].rec[th[t].b] = [EmptyCell EXCEPT !.head = n]]
  /\ top' = [top EXCEPT !.recs = Append(@, Record(item, live, th[t].from))]
  /\ Step(t, [pc |-> pc, new |-> n])
  /\ UNCHANGED todo

\* The record replaced is retired, item_count adjusted, the call answered.
Retire(t, count, res) ==
  LET h == th[t].rec.head IN
  /\ th[t].pc = "end"
  /\ top' = [top EXCEPT !.count = count,
                        !.recs = IF h = 0 THEN @ ELSE [@ EXCEPT ![h].retired = @ + 1]]
  /\ Answer(t, res)
  /\ UNCHANGED <<todo, heap>>
-----------------------------------------------------------------------------
(* Views.                                                                  *)

ViewStore(t, end) ==
  /\ th[t].pc = "view"
  /\ Step(t, [pc |-> "scan", st |-> top.current, end |-> end])
  /\ UNCHANGED <<todo, top, heap>>

\* The newest record of the list from n on that is not younger than epoch e; a
\* record not committed yet counts as old.
Shown(n, e) ==
  LET list[m \in 0..Len(top.recs)] == IF m = 0 THEN {} ELSE {m} \cup list[top.recs[m].next]
      old == {m \in list[n] : top.recs[m].epoch <= e}
  IN IF old = {} THEN 0 ELSE Max(old)

\* The heads are committed first; buckets without one are passed at once.
ViewBucket(t, b) ==
  /\ th[t].pc = "scan" /\ th[t].i < th[t].end
  /\ LET c == heap[th[t].st].rec[b] IN
     Step(t, IF c.head = 0 THEN [i |-> th[t].i + 1] ELSE [pc |-> "help", rec |-> c])
  /\ UNCHANGED <<todo, top, heap>>

ViewRecord(t, k) ==
  LET m == Shown(th[t].rec.head, th[t].epoch) IN
  /\ th[t].pc = "see"
  /\ Step(t, [pc |-> "scan", i |-> th[t].i + 1,
              seen |-> IF m # 0 /\ top.recs[m].live THEN [th[t].seen EXCEPT ![k] = top.recs[m].item]
                       ELSE th[t].seen])
  /\ UNCHANGED <<todo, top, heap>>

ViewEnd(t) ==
  /\ th[t].pc = "scan" /\ th[t].i = th[t].end
  /\ Answer(t, th[t].seen)
  /\ UNCHANGED <<todo, top, heap>>
-----------------------------------------------------------------------------
(* Migration.                                                              *)

\* The first loop: one swap marks a bucket as moving, and as moved if it has
\* nothing to move.  The mark is not set again, so one thread alone goes on to
\* commit and retire a removed record.
MarkHead(t, last) ==
  LET s == th[t].st
      i == Min({last + 1} \cup {b \in DOMAIN heap[s].rec : b >= th[t].i /\ ~heap[s].rec[b].moving})
      c == heap[s].rec[i]
      gone == c.head # 0 /\ ~LiveCell(c)
  IN /\ th[t].pc = "mark" /\ i <= last
     /\ heap' = [heap EXCEPT ![s].rec[i].moving = TRUE, ![s].rec[i].moved = ~LiveCell(c)]
     /\ Step(t, IF gone THEN [pc |-> "help gone", rec |-> c, i |-> i + 1] ELSE [i |-> i + 1])
     /\ UNCHANGED <<todo, top>>

RetireGone(t) ==
  /\ th[t].pc = "retire gone"
  /\ top' = [top EXCEPT !.recs[th[t].rec.head].retired = @ + 1]
  /\ Step(t, [pc |-> "mark", rec |-> EmptyCell])
  /\ UNCHANGED <<todo, heap>>

NextHistory(t, last, candidate) ==
  LET s == th[t].st IN
  /\ th[t].pc = "mark" /\ \A b \in DOMAIN heap[s].rec : b >= th[t].i => heap[s].rec[b].moving
  /\ AgreeOnNext(t, candidate)

\* The head is copied over an empty cell, without its flags.
MoveHead(t, pc) ==
  LET n == th[t].ns
      b == th[t].b
  IN /\ th[t].pc = "move record"
     /\ heap' = [heap EXCEPT ![n].rec[b] = IF @ = EmptyCell THEN [EmptyCell EXCEPT !.head = th[t].rec.head] ELSE @]
     /\ Step(t, [pc |-> pc])
     /\ UNCHANGED <<todo, top>>

\* No record is retired twice, and none that is a live head of the current store;
\* when the calls have ended, every record that is no head any more has been
\* retired, but for the ones leaked.
RecordsRetiredOnce(leaked) ==
  LET cells == {heap[top.current].rec[b] : b \in DOMAIN heap[top.current].rec}
      kept == {c.head : c \in cells} \cup leaked
  IN /\ \A n \in DOMAIN top.recs : top.recs[n].retired <= 1
     /\ \A c \in cells : LiveCell(c) => top.recs[c.head].retired = 0
     /\ Finished => \A n \in DOMAIN top.recs : top.recs[n].retired = IF n \in kept THEN 0 ELSE 1
=============================================================================
