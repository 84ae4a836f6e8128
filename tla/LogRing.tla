------------------------------- MODULE LogRing -------------------------------
(***************************************************************************)
(* logring: messages are copied into entries, and a hatring holds the      *)
(* indexes of the entries.  An entry's info word says who uses it: the     *)
(* enqueuer that writes it, the dequeuer or the view that copies it out.   *)
(* Everybody helps a view before doing anything else.                      *)
(*                                                                         *)
(* heap[1] is the ring, heap[2] the entries, and every further block a     *)
(* view.  A message is an item; its length, written later, is the item     *)
(* again, so that a copy made with another message's length shows.  There  *)
(* are twice as many entries as the ring has cells, as logring_init makes  *)
(* them for a ring of at most HATRACK_THREADS_MAX cells.                   *)
(***************************************************************************)
EXTENDS HatRing

CONSTANTS
  ViewIds,   \* what the field view_id, which enqueuers leave unset, may hold
  Garbled    \* a copy of which the message and the length do not match

\* info.state as the set of its flags
Info(epoch, flags, view) == [epoch |-> epoch, flags |-> flags, view |-> view]
EmptyInfo == Info(0, {}, 0)
Entry(item, info) == [item |-> item, len |-> item, info |-> info]

\* logring_entry_is_being_used
BeingUsed(info) == info.flags \cap {"reserved", "dequeue", "view"} # {}

\* logring_can_write_here, logring_can_dequeue_here
CanWriteHere(info, epoch) == ~BeingUsed(info) /\ info.epoch <= epoch
CanDequeueHere(info, epoch) == info.epoch <= epoch

Entries == heap[2].entries
NumEntries == 2 * Capacity
MyEntry(t) == Entries[th[t].entry]
SetInfo(n, info) == heap' = [heap EXCEPT ![2].entries[n].info = info]

\* logring_init, and the enqueues of Preload
LogInit ==
  /\ heap = <<[cells |-> [n \in 0..(Capacity - 1) |->
                           IF n < Len(Preload) THEN Cell(n, Capacity + n, TRUE) ELSE Cell(None, 0, FALSE)],
               retired |-> 0],
              [entries |-> [n \in 0..(NumEntries - 1) |->
                              IF n < Len(Preload) THEN Entry(Preload[n + 1], Info(Capacity + n, {"done"}, 0))
                              ELSE Entry(None, EmptyInfo)],
               retired |-> 0]>>
  /\ top = [write |-> Capacity + Len(Preload), read |-> Capacity, dropped |-> {}, taken |-> {}, robbed |-> FALSE,
            entry |-> Len(Preload) % NumEntries, view |-> 0, viewid |-> 0]
  /\ th = [t \in Threads |-> Idle]
  /\ todo \in Workloads
  /\ lin = L!Fresh(Preload)

BeginLog(t, op, pc, then) ==
  /\ todo[t] # <<>> /\ Head(todo[t]).op = op
  /\ Begin(t, [pc |-> pc, entry |-> 0, info |-> EmptyInfo, back |-> then, v |-> 0, id |-> 0, at |-> 0, seen |-> <<0, 0>>, copy |-> None, len |-> None]
              @@ RingLocals)
  /\ UNCHANGED <<top, heap>>
-----------------------------------------------------------------------------
\* logring_enqueue_mmm: an entry nobody uses is reserved, ...
ReserveEntry(t) ==
  LET info == MyEntry(t).info IN
  /\ \/ /\ th[t].pc = "start"
        /\ Step(t, [pc |-> "next entry", write |-> top.write]) /\ UNCHANGED <<top, heap>>
     \/ /\ th[t].pc = "next entry"
        /\ top' = [top EXCEPT !.entry = (@ + 1) % NumEntries]
        /\ Step(t, [pc |-> "reserve", entry |-> top.entry]) /\ UNCHANGED heap
     \/ /\ th[t].pc = "reserve"
        /\ \/ /\ info = EmptyInfo
              /\ \E id \in ViewIds : SetInfo(th[t].entry, Info(0, {"reserved"}, id))
              /\ Step(t, [pc |-> "write"])
           \/ /\ info # EmptyInfo
              /\ Step(t, IF CanWriteHere(info, th[t].write) THEN [pc |-> "take", info |-> info] ELSE [pc |-> "start"])
              /\ UNCHANGED heap
        /\ UNCHANGED top
     \/ /\ th[t].pc = "take"
        /\ \/ /\ info = th[t].info
              /\ \E id \in ViewIds : SetInfo(th[t].entry, Info(0, {"reserved"}, id))
              /\ Step(t, [pc |-> "write"])
           \/ info # th[t].info /\ Step(t, [pc |-> "start"]) /\ UNCHANGED heap
        /\ UNCHANGED top
  /\ UNCHANGED todo

\* ... the message is written, the entry put into the ring, and then its length and
\* the ring's epoch.
WriteEntry(t) ==
  \/ /\ th[t].pc = "write"
     /\ heap' = [heap EXCEPT ![2].entries[th[t].entry].item = th[t].call.item]
     /\ Step(t, [pc |-> "epochs"]) /\ UNCHANGED <<todo, top>>
  \/ EnqueueEpoch(t)
  \/ EnqueueCell(t, th[t].entry, Step(t, [pc |-> "finish"]))
  \/ /\ th[t].pc = "finish"
     /\ heap' = [heap EXCEPT ![2].entries[th[t].entry].len = th[t].call.item]
     /\ Step(t, [pc |-> "done"]) /\ UNCHANGED <<todo, top>>
  \/ /\ th[t].pc = "done"
     /\ \E id \in ViewIds : SetInfo(th[t].entry, Info(th[t].epoch, {"done"}, id))
     /\ Answer(t, Ok) /\ UNCHANGED <<todo, top>>

LogEnqueue(t) ==
  BeginLog(t, "ring", "help", "start") \/ (Calling(t, "ring") /\ (ReserveEntry(t) \/ WriteEntry(t)))
-----------------------------------------------------------------------------
\* A dequeue that runs beside an enqueue may copy the message before its length is
\* there: the workload then calls it "glean", and its answer is not compared.
LogAnswer(t, res) == Answer(t, IF th[t].call.op = "glean" THEN Ok ELSE res)

\* hatring_dequeue_w_epoch: it finds nothing whenever it spoils a cell.  A cell that a
\* view has spoilt holds NULL, which is the index of the first entry.
DequeueWithEpoch(t) ==
  DequeueEpoch(t) \/ DequeueCell(t, LAMBDA n : Step(t, [pc |-> "entry", entry |-> IF n = None THEN 0 ELSE n]),
                                 LogAnswer(t, None))

\* logring_dequeue_mmm: the entry is reserved, copied and released.  The release
\* writes the state that was read first, whatever is there now: the reservation of
\* a view, too, is gone (history: robbed).
CopyEntry(t) ==
  LET e == MyEntry(t)
      Marked(info) == [info EXCEPT !.flags = @ \cup {"dequeue"}]
  IN /\ \/ /\ th[t].pc = "entry"
           /\ Step(t, IF CanDequeueHere(e.info, th[t].epoch) THEN [pc |-> "mark", info |-> e.info] ELSE [pc |-> "epochs"])
           /\ UNCHANGED heap
        \/ /\ th[t].pc = "mark" /\ e.info = th[t].info
           /\ SetInfo(th[t].entry, Marked(e.info))
           /\ Step(t, [pc |-> "copy out", info |-> Marked(e.info)])
        \/ /\ th[t].pc = "mark" /\ e.info # th[t].info
           /\ Step(t, IF CanDequeueHere(e.info, th[t].epoch) THEN [info |-> e.info] ELSE [pc |-> "epochs"])
           /\ UNCHANGED heap
        \/ /\ th[t].pc = "copy out"
           /\ Step(t, [pc |-> "release", copy |-> IF e.len = e.item THEN e.item ELSE Garbled]) /\ UNCHANGED heap
        \/ /\ th[t].pc = "release"
           /\ SetInfo(th[t].entry, [th[t].info EXCEPT !.flags = @ \ {"dequeue", "done"}])
           /\ LogAnswer(t, th[t].copy)
     /\ top' = [top EXCEPT !.robbed = @ \/ (th[t].pc = "release" /\ "view" \in e.info.flags)]
     /\ UNCHANGED todo

LogDequeue(t) ==
  \/ BeginLog(t, "dequeue", "help", "epochs") \/ BeginLog(t, "glean", "help", "epochs")
  \/ (Calling(t, "dequeue") \/ Calling(t, "glean")) /\ (DequeueWithEpoch(t) \/ CopyEntry(t))
-----------------------------------------------------------------------------
\* One cell of a view: what was found for one epoch of the ring.  Its cell_skipped is
\* never set: a cell that is not enqueued is left before the test for dequeued.
ViewCell == [entry |-> None, len |-> None, value |-> None]

\* The message of cell c as view_next yields it.
Message(c) == IF c.len = c.value THEN c.value ELSE Garbled

\* logring_view_mmm: a strict view starts behind the last cell without a value, and
\* yields no more than the ring holds: it then starts so many cells before its end,
\* and its length is cut down to that number, counted from the first cell.
Gaps(v) == {e \in DOMAIN v.cells : v.cells[e].value = None}

Trimmed(v) ==
  LET first == IF Gaps(v) = {} THEN v.from - 1 ELSE Max(Gaps(v)) + 1
      last == IF v.to - first > Capacity THEN v.from + Capacity - 1 ELSE v.to - 1
      start == IF v.to - first > Capacity THEN v.to - Capacity ELSE first
  IN [n \in 1..(IF last < start THEN 0 ELSE last - start + 1) |-> Message(v.cells[start + n - 1])]

\* Its loop that looks for a gap runs below zero if there is none.  In a view of fewer
\* cells than the ring has, that is where it would start: the loop that frees what is
\* left out then leaves the view's memory, and what comes of it is not followed.
Overruns(v) == Gaps(v) = {} /\ v.to - v.from < Capacity

\* logring_view_mmm: the view is installed once the one before has been served.  A
\* lax view is a glance: what it yields is whole, and nothing else is promised.
LogView(t) ==
  \/ BeginLog(t, "glance", "view state", "stamp") \/ BeginLog(t, "view", "view state", "stamp")
  \/ /\ Calling(t, "glance") \/ Calling(t, "view")
     /\ LET unserved == [from |-> top.read, to |-> top.write, retired |-> 0,
                         cells |-> [n \in top.read..(top.write - 1) |-> ViewCell]] IN
        \/ /\ th[t].pc = "view state"
           /\ Step(t, [pc |-> "help", seen |-> <<top.view, top.viewid>>]) /\ UNCHANGED <<top, heap>>
        \/ /\ th[t].pc = "stamp" /\ Len(heap) < MaxBlocks
           /\ heap' = IF th[t].at = 0 THEN Append(heap, unserved) ELSE [heap EXCEPT ![th[t].at] = unserved]
           /\ Step(t, [pc |-> "install", at |-> IF th[t].at = 0 THEN Len(heap') ELSE th[t].at]) /\ UNCHANGED top
        \/ /\ th[t].pc = "install" /\ th[t].seen = <<top.view, top.viewid>>
           /\ top' = [top EXCEPT !.view = th[t].at, !.viewid = @ + 1]
           /\ Step(t, [pc |-> "help", back |-> "viewed"]) /\ UNCHANGED heap
        \/ /\ th[t].pc = "install" /\ th[t].seen # <<top.view, top.viewid>>
           /\ Step(t, [pc |-> "view state"]) /\ UNCHANGED <<top, heap>>
        \/ \* the messages are read and the view deleted
           /\ th[t].pc = "viewed"
           /\ heap' = [heap EXCEPT ![th[t].at].retired = @ + 1]
           /\ LET v == heap[th[t].at] IN
              CASE th[t].call.op = "glance"                  -> Answer(t, Ok)
                [] th[t].call.op = "view" /\ Overruns(v)     -> Step(t, [pc |-> "fault"])
                [] th[t].call.op = "view" /\ ~Overruns(v)    -> Answer(t, Trimmed(v))
           /\ UNCHANGED top
     /\ UNCHANGED todo

\* logring_view_help_if_needed: the ring's cell of the next epoch; one not written
\* yet is spoilt, one written again since is left out.
HelpCell(t) ==
  LET v == heap[th[t].v]
      e == th[t].epoch
      c == heap[1].cells[Slot(e)]
      mine == v.cells[e]
  IN \/ /\ th[t].pc = "help"
        /\ IF top.view = 0 THEN Step(t, [pc |-> th[t].back])
           ELSE Step(t, [pc |-> "look", v |-> top.view, id |-> top.viewid, epoch |-> heap[top.view].from])
        /\ UNCHANGED heap
     \/ /\ th[t].pc = "look" /\ e = v.to
        /\ Step(t, [pc |-> "end view"]) /\ UNCHANGED heap
     \/ /\ th[t].pc = "look" /\ e < v.to
        /\ Step(t, CASE mine.value # None -> [epoch |-> e + 1]
                     [] mine.value = None /\ mine.entry # None -> [pc |-> "data", entry |-> mine.entry]
                     [] OTHER -> [pc |-> "ring cell"])
        /\ UNCHANGED heap
     \/ /\ th[t].pc = "ring cell" /\ c.epoch < e
        /\ SetCell(e, Cell(None, e, FALSE))
        /\ Step(t, [pc |-> "missing"])
     \/ /\ th[t].pc = "ring cell" /\ c.epoch >= e
        /\ Step(t, IF c.epoch > e \/ ~c.enqueued THEN [pc |-> "missing"] ELSE [pc |-> "note", entry |-> c.item])
        /\ UNCHANGED heap
     \/ \* another helper may have noted the entry before the cell was used again
        /\ th[t].pc = "missing"
        /\ Step(t, IF mine.entry # None THEN [pc |-> "data", entry |-> mine.entry]
                   ELSE [pc |-> "look", epoch |-> e + 1])
        /\ UNCHANGED heap
     \/ /\ th[t].pc = "note"
        /\ heap' = [heap EXCEPT ![th[t].v].cells[e].entry = th[t].entry]
        /\ Step(t, [pc |-> "data"])

\* Mutant: the entry is copied for the view whatever its epoch and state.
ReserveForView_Unchecked(t) ==
  th[t].pc = "data" /\ Step(t, [pc |-> "view len"]) /\ UNCHANGED heap

\* logring_view_help_if_needed: the entry is reserved for the view ...
ReserveForView(t) ==
  LET e == th[t].epoch
      info == MyEntry(t).info
      Marked == [info EXCEPT !.view = th[t].id, !.flags = @ \cup {"view"}]
  IN /\ th[t].pc = "data"
     /\ \/ /\ info.epoch # e \/ (info.view = th[t].id /\ "view" \notin info.flags)
           /\ Step(t, [pc |-> "look", epoch |-> e + 1]) /\ UNCHANGED heap
        \/ /\ info.epoch = e /\ info.view > th[t].id
           /\ Step(t, [pc |-> th[t].back]) /\ UNCHANGED heap
        \/ /\ info.epoch = e /\ info.view < th[t].id
           /\ SetInfo(th[t].entry, Marked)
           /\ Step(t, [pc |-> "view len", info |-> Marked])
        \/ /\ info.epoch = e /\ info.view = th[t].id /\ "view" \in info.flags
           /\ Step(t, [pc |-> "view len", info |-> info]) /\ UNCHANGED heap

\* ... its length is noted, by the first helper, its message copied, the first copy
\* installed, and the entry released.
CopyForView(t) ==
  LET e == th[t].epoch
      data == MyEntry(t)
      cell == heap[th[t].v].cells[e]
  IN \/ /\ th[t].pc = "view len"
        /\ heap' = [heap EXCEPT ![th[t].v].cells[e].len = IF @ = None THEN data.len ELSE @]
        /\ Step(t, [pc |-> "view copy", len |-> IF cell.len = None THEN data.len ELSE cell.len])
     \/ /\ th[t].pc = "view copy"
        /\ Step(t, [pc |-> "view value", copy |-> IF th[t].len = data.item THEN data.item ELSE Garbled])
        /\ UNCHANGED heap
     \/ /\ th[t].pc = "view value"
        /\ heap' = [heap EXCEPT ![th[t].v].cells[e].value = IF @ = None THEN th[t].copy ELSE @]
        /\ Step(t, [pc |-> "view release"])
     \/ /\ th[t].pc = "view release"
        /\ IF data.info = th[t].info THEN SetInfo(th[t].entry, [data.info EXCEPT !.flags = @ \ {"view"}])
           ELSE UNCHANGED heap
        /\ Step(t, [pc |-> "look", epoch |-> e + 1])

\* logring_view_help_if_needed: the view is finished by whoever comes first.
EndHelp(t) ==
  /\ th[t].pc = "end view"
  /\ top' = IF top.view = th[t].v /\ top.viewid = th[t].id THEN [top EXCEPT !.view = 0] ELSE top
  /\ Step(t, [pc |-> th[t].back])
  /\ UNCHANGED <<todo, heap>>

HelpView(t) ==
  th[t].pc # "idle" /\ (((HelpCell(t) \/ ReserveForView(t) \/ CopyForView(t)) /\ UNCHANGED <<todo, top>>) \/ EndHelp(t))

LogNext == \E t \in Threads : LogEnqueue(t) \/ LogDequeue(t) \/ LogView(t) \/ HelpView(t)

\* A view yields whole messages, unless a dequeue has robbed one of its reservation.
ViewsWhole ==
  ~top.robbed =>
    \A v \in 3..Len(heap) : \A e \in DOMAIN heap[v].cells :
      heap[v].cells[e].value # None => Message(heap[v].cells[e]) # Garbled
=============================================================================
