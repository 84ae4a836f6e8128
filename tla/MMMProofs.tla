------------------------------ MODULE MMMProofs ------------------------------
(***************************************************************************)
(* Proofs about MMM, for any number of threads, tids, records, operations  *)
(* and any frequency of scans.                                             *)
(***************************************************************************)
EXTENDS MMM, FiniteSetTheorems, SequenceTheorems, WellFoundedInduction, TLAPS
-----------------------------------------------------------------------------
(* The invariant: types and the shape of a thread.                         *)

Nodes == 1..Len(rec)
Header == [next : Nat, tid : Nat, write : Nat, retire : Nat, freed : Nat, addr : Nat]

PCs == {"new", "head", "pop", "take", "slot", "ready", "reserve", "again", "root", "see", "help", "helped",
        "older", "found", "link", "swap", "commit", "committed", "retire", "scan", "slots", "end",
        "leave", "give", "gone", "panic"}

State ==
  [pc : PCs, tid : Nat, list : Seq(Nat), ctr : Nat, pending : Nat, ops : Nat,
   op : {"none", "read", "write"}, at : Nat, saw : Nat, hold : Nat, below : Nat, own : Nat, victim : Nat,
   i : Nat, last : Nat, lowest : Nat, back : {"none", "slot", "end", "leave"},
   then : {"none", "older", "link"}]

TypeOK ==
  /\ epoch \in Nat /\ nexttid \in Nat /\ freeTids \in Nodes \cup {0} /\ root \in Nodes
  /\ reservations \in [0..(MaxTids - 1) -> Nat]
  /\ rec \in Seq(Header) /\ \A x \in Nodes : rec[x].next \in Nodes \cup {0}
  /\ th \in [Threads -> State]

\* The threads that have a tid, and those between their start of an operation and
\* its end (or, for a reservation, between the store and the next one).
Owns(t) == th[t].pc \notin {"new", "head", "pop", "take", "gone", "panic"}
InEmpty(t) == th[t].pc \in {"retire", "scan", "slots"}
Holds(t) ==
  \/ th[t].pc \in {"see", "help", "helped", "older", "found", "link", "swap", "commit", "committed", "end"}
  \/ InEmpty(t) /\ th[t].back = "end"
Reads(t) == th[t].op = "read" /\ th[t].pc \in {"root", "see", "help", "helped", "older", "found"}

\* What the program counter says about the locals.
Shaped(t) ==
  /\ th[t].hold \in Nodes \cup {0}
  /\ th[t].pc \in {"pop", "take"} => th[t].hold # 0
  /\ ~Holds(t) /\ th[t].pc \notin {"pop", "take"} => th[t].hold = 0
  /\ th[t].pc \in {"again", "older", "found"} => th[t].op = "read"
  /\ th[t].pc \in {"link", "swap", "commit", "committed"} => th[t].op = "write"
  /\ th[t].pc \in {"see", "help", "helped"} => th[t].then = IF th[t].op = "read" THEN "older" ELSE "link"
  /\ th[t].pc \in {"see", "help", "helped", "root", "reserve"} => th[t].op # "none"
  /\ th[t].pc \in {"commit", "committed"} => th[t].back = "end"
  /\ InEmpty(t) => th[t].back # "none"
  /\ th[t].pc = "leave" => th[t].back = "leave"
  /\ th[t].pc = "slots" => th[t].i <= th[t].last /\ th[t].last <= MaxTids
  /\ th[t].pending # NotPending => Owns(t)
  /\ th[t].pc \in {"swap", "give", "commit", "committed"} => th[t].own \in Nodes
  /\ th[t].pc \in {"commit", "committed", "retire"} => th[t].victim \in Nodes
  /\ \A n \in DOMAIN th[t].list : th[t].list[n] \in Nodes

-----------------------------------------------------------------------------
(* Who has which record, and which tid.                                    *)

Listed(t) == {th[t].list[n] : n \in DOMAIN th[t].list}
Private(t) == IF th[t].pc \in {"swap", "give"} THEN {th[t].own} ELSE {}
Victim(t) == IF th[t].pc \in {"commit", "committed", "retire"} THEN {th[t].victim} ELSE {}
Has(t) == Listed(t) \cup Private(t) \cup Victim(t)

\* A record belongs to one thread, to the bucket or to the list of free tids, and
\* what belongs to anybody has not been freed.
Apart(free) ==
  /\ root \notin free
  /\ \A t \in Threads :
       /\ root \notin Has(t) /\ free \cap Has(t) = {}
       /\ Listed(t) \cap (Private(t) \cup Victim(t)) = {}
       /\ \A m, n \in DOMAIN th[t].list : th[t].list[m] = th[t].list[n] => m = n
       /\ \A u \in Threads : t # u => Has(t) \cap Has(u) = {}
       /\ \A x \in Has(t) : rec[x].freed = 0
  /\ \A x \in free \cup {root} : rec[x].freed = 0
  /\ \A x \in Nodes : rec[x].freed <= 1

\* free is the list of free tids: closed under next, no two nodes with one successor,
\* none in front of the head; and each tid has one place.
FreeList(free) ==
  /\ free \subseteq Nodes /\ freeTids \in free \cup {0}
  /\ \A x \in free :
       /\ rec[x].next \in free \cup {0}
       /\ rec[x].next # 0 => rec[x].next # freeTids
       /\ rec[x].tid < nexttid /\ rec[x].tid < MaxTids
       /\ \A y \in free : rec[x].next = rec[y].next /\ rec[x].next # 0 => x = y
       /\ \A y \in free : rec[x].tid = rec[y].tid => x = y
       /\ \A t \in Threads : Owns(t) => th[t].tid # rec[x].tid
  /\ \A t \in Threads :
       /\ Owns(t) => th[t].tid < nexttid /\ th[t].tid < MaxTids
       /\ th[t].pc = "give" => rec[th[t].own].tid = th[t].tid
       /\ th[t].pc \in {"head", "pop", "take"} => nexttid > MaxTids
       /\ th[t].pc \in {"pop", "take"} /\ nexttid <= MaxTids + 1 => th[t].hold \in free
       /\ th[t].pc = "take" /\ nexttid <= MaxTids + 1 => th[t].below = rec[th[t].hold].next
       /\ \A u \in Threads : t # u /\ th[t].pc \in {"head", "pop", "take"} /\ th[u].pc \in {"head", "pop", "take"}
                               => nexttid > MaxTids + 1
       /\ \A u \in Threads : t # u /\ Owns(t) /\ Owns(u) => th[t].tid # th[u].tid

Owned == \E free \in SUBSET Nodes : Apart(free) /\ FreeList(free)

-----------------------------------------------------------------------------
(* The chain of records: only the newest may be uncommitted.               *)

Committing(t) == th[t].pc \in {"helped", "committed"}

Chained ==
  /\ epoch >= 2
  /\ \A x \in Nodes : rec[x].write <= epoch
  /\ IF rec[root].write = 0
     THEN /\ rec[root].next \in Nodes /\ rec[rec[root].next].write # 0
          /\ \A x \in Nodes : rec[x].write <= rec[rec[root].next].write
     ELSE \A x \in Nodes : rec[x].write <= rec[root].write
  /\ \A z \in Nodes : rec[z].write # 0 =>
       /\ rec[z].next = 0 => rec[z].write <= 2
       /\ rec[z].next # 0 =>
            /\ rec[z].next \in Nodes /\ rec[rec[z].next].write # 0
            /\ \A x \in Nodes : rec[x].write <= rec[rec[z].next].write \/ rec[x].write >= rec[z].write

\* What a thread knows about the record it holds or commits.
Informed(t) ==
  /\ Holds(t) => th[t].hold \in Nodes
  /\ Holds(t) /\ rec[th[t].hold].write = 0 => th[t].hold = root /\ th[t].pc \in {"see", "help", "helped"}
  /\ th[t].pc \in {"swap", "give"} => rec[th[t].own].write = 0
  /\ th[t].pc = "swap" => rec[th[t].own].next = th[t].hold
  /\ th[t].pc \in {"commit", "committed"} /\ rec[th[t].own].write = 0 => th[t].own = root
  /\ Committing(t) => th[t].saw <= epoch
  /\ Committing(t) /\ rec[Target(t)].write = 0 => \A x \in Nodes : rec[x].write < th[t].saw

\* An uncommitted newest record has a writer that will retire the one it replaced.
RootWriter ==
  rec[root].write = 0 =>
    \E u \in Threads : /\ th[u].pc \in {"commit", "committed"}
                       /\ th[u].own = root /\ th[u].victim = rec[root].next

\* What a linearized reader knows: all that is newer than the record it holds is
\* newer than its epoch, and so is whatever will be committed.
Linear(t) ==
  Reads(t) =>
    /\ th[t].at <= epoch /\ th[t].at >= 2
    /\ Holds(t) /\ rec[th[t].hold].write # 0 =>
         \A x \in Nodes : rec[x].write > rec[th[t].hold].write => rec[x].write > th[t].at
    /\ Holds(t) /\ th[t].hold # root /\ rec[root].write = 0 =>
         \A u \in Threads : Committing(u) /\ Target(u) = root => th[u].saw > th[t].at
    /\ th[t].pc = "found" => rec[th[t].hold].write <= th[t].at

Ordered == Chained /\ RootWriter /\ \A t \in Threads : Informed(t) /\ Linear(t)

-----------------------------------------------------------------------------
(* What a reservation protects, when it is visible before the thread goes  *)
(* on.                                                                     *)

\* t has announced an operation and everybody can see it.
Announced(t) == (Holds(t) \/ th[t].pc \in {"again", "root"}) /\ Drained(t)
Epoch(t) == reservations[th[t].tid]

\* No scan under way or to come frees x while t's reservation stands.
Safe(t, x) ==
  /\ rec[x].freed = 0
  /\ \A u \in Threads : x \in Listed(u) =>
       /\ Epoch(t) <= rec[x].retire
       /\ th[u].pc = "slots" =>
            /\ th[t].tid < th[u].last
            /\ th[t].tid < th[u].i => th[u].lowest <= Epoch(t)

Protected(t) ==
  /\ Holds(t) \/ Reads(t) => Drained(t)
  /\ th[t].pc = "reserve" => th[t].saw <= epoch /\ th[t].saw # NotPending
  /\ th[t].pc \in {"again", "root"} /\ ~Drained(t) => th[t].pending <= epoch
  /\ Announced(t) => Epoch(t) <= epoch
  /\ Reads(t) => Epoch(t) <= th[t].at
  /\ Holds(t) => Safe(t, th[t].hold)
  /\ th[t].pc \in {"commit", "committed"} => Safe(t, th[t].own)
  /\ Reads(t) => \A z \in Nodes : rec[z].write > th[t].at => Safe(t, rec[z].next)

\* The list is in the order of retirement, the newest first.
Sorted(t) ==
  /\ \A n \in DOMAIN th[t].list : rec[th[t].list[n]].retire <= epoch
  /\ \A m, n \in DOMAIN th[t].list : m < n => rec[th[t].list[n]].retire <= rec[th[t].list[m]].retire

Reclaimed == \A t \in Threads : Protected(t) /\ Sorted(t)

-----------------------------------------------------------------------------
IInv == TypeOK /\ (\A t \in Threads : Shaped(t)) /\ Owned /\ Ordered
Typed == TypeOK /\ \A t \in Threads : Shaped(t)

-----------------------------------------------------------------------------
(* The steps of a thread that mistakes no record for another: it compares  *)
(* pointers by the records they were obtained for, and finds these there.  *)
(* As long as what a thread has in hand is not freed, a step of MMM is one *)
(* of these (StepsById, below).                                            *)

LoadHeadById(t) ==
  /\ At(t, "head") \/ At(t, "take")
  /\ Set(t, [th[t] EXCEPT !.pc = IF freeTids = 0 THEN "panic" ELSE "pop", !.hold = freeTids])
  /\ UNCHANGED <<epoch, nexttid, reservations, rec, freeTids, root>>

ReadBelowById(t) ==
  /\ At(t, "pop")
  /\ Set(t, [th[t] EXCEPT !.pc = "take", !.below = rec[th[t].hold].next])
  /\ UNCHANGED <<epoch, nexttid, reservations, rec, freeTids, root>>

PopTidById(t) ==
  /\ At(t, "take") /\ freeTids = th[t].hold
  /\ freeTids' = rec[th[t].hold].next
  /\ Set(t, [th[t] EXCEPT !.pc = "retire", !.hold = 0, !.below = 0, !.victim = th[t].hold,
                          !.tid = rec[th[t].hold].tid, !.back = "slot"])
  /\ UNCHANGED <<epoch, nexttid, reservations, rec, root>>

SeeEpochById(t) ==
  /\ At(t, "see")
  /\ Goto(t, IF rec[th[t].hold].write = 0 THEN "help" ELSE th[t].then)
  /\ UNCHANGED <<epoch, nexttid, reservations, rec, freeTids, root>>

StoreEpochById(t) ==
  /\ th[t].pc \in {"helped", "committed"} /\ Drained(t)
  /\ rec' = [rec EXCEPT ![Target(t)].write = IF @ = 0 THEN th[t].saw ELSE @]
  /\ Goto(t, IF th[t].pc = "helped" THEN th[t].then ELSE "retire")
  /\ UNCHANGED <<epoch, nexttid, reservations, freeTids, root>>

AcceptById(t) ==
  /\ At(t, "older") /\ rec[th[t].hold].write <= th[t].at
  /\ Goto(t, "found")
  /\ UNCHANGED <<epoch, nexttid, reservations, rec, freeTids, root>>

OlderById(t) ==
  /\ At(t, "older") /\ rec[th[t].hold].write > th[t].at
  /\ Set(t, [th[t] EXCEPT !.hold = rec[th[t].hold].next])
  /\ UNCHANGED <<epoch, nexttid, reservations, rec, freeTids, root>>

SwapRootById(t) ==
  /\ At(t, "swap") /\ Drained(t) /\ root = th[t].hold
  /\ root' = th[t].own
  /\ Set(t, [th[t] EXCEPT !.pc = "commit", !.victim = th[t].hold, !.back = "end"])
  /\ UNCHANGED <<epoch, nexttid, reservations, rec, freeTids>>

LoseRootById(t) ==
  /\ At(t, "swap") /\ Drained(t) /\ root # th[t].hold
  /\ rec' = [rec EXCEPT ![th[t].own].freed = @ + 1]
  /\ Goto(t, "end")
  /\ UNCHANGED <<epoch, nexttid, reservations, freeTids, root>>

\* The head a node is put in front of need not be the record that was read.
GiveTidById(t) ==
  /\ At(t, "give") /\ Drained(t)
  /\ freeTids' = th[t].own
  /\ rec' = [rec EXCEPT ![th[t].own].next = freeTids]
  /\ Set(t, [th[t] EXCEPT !.pc = "gone", !.own = 0])
  /\ UNCHANGED <<epoch, nexttid, reservations, root>>

RetryGiveById(t) ==
  /\ At(t, "give")
  /\ rec' = [rec EXCEPT ![th[t].own].next = freeTids]
  /\ UNCHANGED <<epoch, nexttid, reservations, freeTids, root, th>>

AcquireById(t) == NewTid(t) \/ LoadHeadById(t) \/ ReadBelowById(t) \/ PopTidById(t) \/ ClearSlot(t)
CommitById(t) == SeeEpochById(t) \/ NewEpoch(t) \/ StoreEpochById(t)
ReadById(t) == AcceptById(t) \/ OlderById(t) \/ EndView(t)
WriteById(t) == Link(t) \/ SwapRootById(t) \/ LoseRootById(t)
ReleaseById(t) == Leave(t) \/ LeaveScan(t) \/ NewNode(t) \/ GiveTidById(t) \/ RetryGiveById(t)

StepById(t) ==
  \/ AcquireById(t) \/ StartOp(t) \/ EndOp(t) \/ CommitById(t) \/ LoadRoot(t) \/ ReadById(t)
  \/ WriteById(t) \/ Retire(t) \/ Empty(t) \/ ReleaseById(t)

-----------------------------------------------------------------------------
(* A thread's step, and what each action makes of the thread.              *)

Becomes(t, new) ==
  /\ th' \in [Threads -> State] /\ th'[t] = new
  /\ \A u \in Threads : u # t => th'[u] = th[u]

\* Only t moves; and what it may leave as it is.
Moved(t) == th' \in [Threads -> State] /\ \A u \in Threads : u # t => th'[u] = th[u]
SameSlot(t) == th'[t].tid = th[t].tid /\ th'[t].pending = th[t].pending
SameOp(t) == th'[t].op = th[t].op /\ th'[t].at = th[t].at /\ th'[t].saw = th[t].saw
SameHand(t) == th'[t].hold = th[t].hold /\ th'[t].own = th[t].own /\ th'[t].victim = th[t].victim
SameScan(t) == /\ th'[t].list = th[t].list /\ th'[t].back = th[t].back
               /\ th'[t].i = th[t].i /\ th'[t].last = th[t].last /\ th'[t].lowest = th[t].lowest

\* Steps that change nothing but the thread.
Local == UNCHANGED <<epoch, nexttid, reservations, rec, freeTids, root>>

LEMMA SetTo ==
  ASSUME Typed, NEW t \in Threads, NEW new \in State, Set(t, new)
  PROVE  Becomes(t, new)
BY DEF Typed, TypeOK, Set, Becomes

LEMMA Numbers == /\ Unreserved \in Nat /\ NotPending \in Nat /\ MaxTids \in Nat /\ RetireFreq \in Nat
                 /\ \A m, n \in Nat : /\ Min({m, n}) \in Nat
                                      /\ Min({m, n}) = IF m <= n THEN m ELSE n
<1>1. ASSUME NEW m \in Nat, NEW n \in Nat
      PROVE  Min({m, n}) \in Nat /\ Min({m, n}) = IF m <= n THEN m ELSE n
  <2> DEFINE least == IF m <= n THEN m ELSE n
  <2>1. \A y \in {m, n} : least <= y
    OBVIOUS
  <2>2. \A x \in {m, n} : (\A y \in {m, n} : x <= y) => x = least
    OBVIOUS
  <2>3. least \in {m, n}
    OBVIOUS
  <2> HIDE DEF least
  <2>4. Min({m, n}) = least
    BY <2>1, <2>2, <2>3 DEF Min
  <2>5. QED
    BY <2>4 DEF least
<1>2. QED
  BY <1>1, MMMAssumption DEF Unreserved, NotPending

\* The types are kept if the shared variables are, and the thread stays in shape.
LEMMA KeepsShape ==
  ASSUME Typed, NEW t \in Threads, NEW new, Becomes(t, new), Shaped(t)',
         epoch' \in Nat, nexttid' \in Nat, freeTids' \in Nodes' \cup {0}, root' \in Nodes',
         reservations' \in [0..(MaxTids - 1) -> Nat],
         rec' \in Seq(Header), Len(rec') >= Len(rec),
         \A x \in Nodes' : rec'[x].next \in Nodes' \cup {0}
  PROVE  Typed'
<1>0. Nodes \subseteq Nodes' /\ Len(rec) \in Nat
  BY DEF Nodes, Typed, TypeOK
<1>1. TypeOK'
  BY <1>0 DEF TypeOK, Becomes
<1>2. ASSUME NEW u \in Threads PROVE Shaped(u)'
  <2>1. CASE u = t
    BY <2>1
  <2>2. CASE u # t
    <3>1. th'[u] = th[u] /\ Shaped(u)
      BY <2>2 DEF Becomes, Typed
    <3>2. QED
      BY <3>1, <1>0 DEF Shaped, Owns, Holds, InEmpty
  <2>3. QED
    BY <2>1, <2>2
<1>3. QED
  BY <1>1, <1>2 DEF Typed

LEMMA LocalKeepsShape ==
  ASSUME Typed, NEW t \in Threads, NEW new, Becomes(t, new), Shaped(t)', Local
  PROVE  Typed'
<1>1. /\ epoch' \in Nat /\ nexttid' \in Nat /\ freeTids' \in Nodes' \cup {0} /\ root' \in Nodes'
      /\ reservations' \in [0..(MaxTids - 1) -> Nat]
      /\ rec' \in Seq(Header) /\ Len(rec') >= Len(rec)
      /\ \A x \in Nodes' : rec'[x].next \in Nodes' \cup {0}
  BY DEF Local, Typed, TypeOK, Nodes
<1>2. QED
  BY <1>1, KeepsShape

LEMMA LoadHeadMoves ==
  ASSUME Typed, NEW t \in Threads, LoadHeadById(t)
  PROVE  /\ Typed'
         /\ Local /\ th[t].pc \in {"head", "pop", "take"} /\ Moved(t)
         /\ th'[t].pc = (IF freeTids = 0 THEN "panic" ELSE "pop") /\ SameSlot(t) /\ SameOp(t)
         /\ th'[t].hold = freeTids /\ th'[t].own = th[t].own /\ th'[t].victim = th[t].victim
         /\ SameScan(t)
<1> DEFINE new == [th[t] EXCEPT !.pc = IF freeTids = 0 THEN "panic" ELSE "pop", !.hold = freeTids]
<1>0. /\ th[t] \in State /\ Shaped(t) /\ Local
      /\ epoch \in Nat /\ nexttid \in Nat /\ freeTids \in Nat /\ root \in Nat
  BY DEF Typed, TypeOK, Local, LoadHeadById, Nodes
<1>a. (IF freeTids = 0 THEN "panic" ELSE "pop") \in PCs
  BY <1>0, Numbers DEF PCs
<1>1. new \in State
  BY <1>0, <1>a, Numbers DEF State, PCs
<1>2. Becomes(t, new)
  <2>1. Set(t, new)
    BY <1>0 DEF LoadHeadById, State
  <2> HIDE DEF new
  <2>2. QED
    BY <1>1, <2>1, SetTo
<1>3. Shaped(t)'
  BY <1>0, <1>2, Numbers DEF LoadHeadById, At, Becomes, Local, Shaped, Owns, Holds, InEmpty, Nodes, State,
     NotPending, Typed, TypeOK
<1>m. /\ Moved(t) /\ Local /\ th[t].pc \in {"head", "pop", "take"}
      /\ th'[t].pc = (IF freeTids = 0 THEN "panic" ELSE "pop") /\ SameSlot(t) /\ SameOp(t)
      /\ th'[t].hold = freeTids /\ th'[t].own = th[t].own /\ th'[t].victim = th[t].victim /\ SameScan(t)
  BY <1>0, <1>2 DEF Becomes, State, Moved, SameSlot, SameOp, SameHand, SameScan, At, LoadHeadById
<1>4. QED
  BY <1>m, <1>0, <1>2, <1>3, LocalKeepsShape

LEMMA ReadBelowMoves ==
  ASSUME Typed, NEW t \in Threads, ReadBelowById(t)
  PROVE  /\ Typed'
         /\ Local /\ th[t].pc = "pop" /\ Moved(t) /\ th[t].hold \in Nodes
         /\ th'[t].pc = "take" /\ SameSlot(t) /\ SameOp(t) /\ SameHand(t) /\ SameScan(t)
         /\ th'[t].below = rec[th[t].hold].next
<1> DEFINE new == [th[t] EXCEPT !.pc = "take", !.below = rec[th[t].hold].next]
<1>0. /\ th[t] \in State /\ Shaped(t) /\ Local /\ th[t].pc = "pop" /\ th[t].hold \in Nodes
      /\ rec \in Seq(Header) /\ Len(rec) \in Nat
  BY DEF Typed, TypeOK, Local, ReadBelowById, At, Shaped
<1>a. rec[th[t].hold].next \in Nat
  <2> HIDE DEF new
  <2>1. rec[th[t].hold] \in Header
    BY <1>0 DEF Nodes
  <2>2. QED
    BY <2>1 DEF Header
<1>1. new \in State
  BY <1>0, <1>a DEF State, PCs
<1>2. Becomes(t, new)
  <2>1. Set(t, new)
    BY <1>0 DEF ReadBelowById, State
  <2> HIDE DEF new
  <2>2. QED
    BY <1>1, <2>1, SetTo
<1>3. Shaped(t)'
  BY <1>0, <1>2 DEF Becomes, Local, Shaped, Owns, Holds, InEmpty, Nodes, State, NotPending
<1>m. /\ Moved(t) /\ th'[t].pc = "take" /\ SameSlot(t) /\ SameOp(t) /\ SameHand(t) /\ SameScan(t)
      /\ th'[t].below = rec[th[t].hold].next
  BY <1>0, <1>2 DEF Becomes, State, Moved, SameSlot, SameOp, SameHand, SameScan
<1>4. QED
  BY <1>m, <1>0, <1>2, <1>3, LocalKeepsShape

LEMMA ClearSlotMoves ==
  ASSUME Typed, NEW t \in Threads, ClearSlot(t)
  PROVE  /\ Typed'
         /\ Local /\ th[t].pc = "slot" /\ Moved(t)
         /\ th'[t].pc = "ready" /\ th'[t].tid = th[t].tid /\ th'[t].pending = Unreserved /\ SameOp(t)
         /\ SameHand(t) /\ SameScan(t)
<1> DEFINE new == [th[t] EXCEPT !.pc = "ready", !.pending = Unreserved]
<1>0. /\ th[t] \in State /\ Shaped(t) /\ Local
      /\ epoch \in Nat /\ nexttid \in Nat /\ freeTids \in Nat /\ root \in Nat
  BY DEF Typed, TypeOK, Local, ClearSlot, Nodes
<1>1. new \in State
  BY <1>0, Numbers DEF State, PCs
<1>2. Becomes(t, new)
  <2>1. Set(t, new)
    BY <1>0 DEF ClearSlot, State, Store
  <2> HIDE DEF new
  <2>2. QED
    BY <1>1, <2>1, SetTo
<1>3. Shaped(t)'
  BY <1>0, <1>2, Numbers DEF ClearSlot, At, Becomes, Local, Shaped, Owns, Holds, InEmpty, Nodes, State,
     NotPending, Typed, TypeOK
<1>m. /\ Moved(t) /\ Local /\ th[t].pc = "slot" /\ th'[t].pc = "ready" /\ th'[t].tid = th[t].tid
      /\ th'[t].pending = Unreserved /\ SameOp(t) /\ SameHand(t) /\ SameScan(t)
  BY <1>0, <1>2 DEF Becomes, State, Moved, SameSlot, SameOp, SameHand, SameScan, At, ClearSlot
<1>4. QED
  BY <1>m, <1>0, <1>2, <1>3, LocalKeepsShape

LEMMA ReserveMoves ==
  ASSUME Typed, NEW t \in Threads, Reserve(t)
  PROVE  /\ Typed'
         /\ Local /\ th[t].pc = "reserve" /\ Moved(t)
         /\ th'[t].pc = (IF th[t].op = "read" THEN "again" ELSE "root") /\ th'[t].tid = th[t].tid
         /\ th'[t].pending = th[t].saw /\ SameOp(t) /\ SameHand(t) /\ SameScan(t)
<1> DEFINE new == [th[t] EXCEPT !.pc = IF th[t].op = "read" THEN "again" ELSE "root", !.pending = th[t].saw]
<1>0. /\ th[t] \in State /\ Shaped(t) /\ Local
      /\ epoch \in Nat /\ nexttid \in Nat /\ freeTids \in Nat /\ root \in Nat
  BY DEF Typed, TypeOK, Local, Reserve, Nodes
<1>a. (IF th[t].op = "read" THEN "again" ELSE "root") \in PCs
  BY <1>0, Numbers DEF PCs
<1>1. new \in State
  BY <1>0, <1>a, Numbers DEF State, PCs
<1>2. Becomes(t, new)
  <2>1. Set(t, new)
    BY <1>0 DEF Reserve, State, Store
  <2> HIDE DEF new
  <2>2. QED
    BY <1>1, <2>1, SetTo
<1>3. Shaped(t)'
  BY <1>0, <1>2, Numbers DEF Reserve, At, Becomes, Local, Shaped, Owns, Holds, InEmpty, Nodes, State,
     NotPending, Typed, TypeOK
<1>m. /\ Moved(t) /\ Local /\ th[t].pc = "reserve"
      /\ th'[t].pc = (IF th[t].op = "read" THEN "again" ELSE "root") /\ th'[t].tid = th[t].tid
      /\ th'[t].pending = th[t].saw /\ SameOp(t) /\ SameHand(t) /\ SameScan(t)
  BY <1>0, <1>2 DEF Becomes, State, Moved, SameSlot, SameOp, SameHand, SameScan, At, Reserve
<1>4. QED
  BY <1>m, <1>0, <1>2, <1>3, LocalKeepsShape

LEMMA ReadEpochMoves ==
  ASSUME Typed, NEW t \in Threads, ReadEpoch(t)
  PROVE  /\ Typed'
         /\ Local /\ th[t].pc = "again" /\ Moved(t)
         /\ th'[t].pc = "root" /\ SameSlot(t) /\ th'[t].op = th[t].op /\ th'[t].at = epoch
         /\ th'[t].saw = th[t].saw /\ SameHand(t) /\ SameScan(t)
<1> DEFINE new == [th[t] EXCEPT !.pc = "root", !.at = epoch]
<1>0. /\ th[t] \in State /\ Shaped(t) /\ Local
      /\ epoch \in Nat /\ nexttid \in Nat /\ freeTids \in Nat /\ root \in Nat
  BY DEF Typed, TypeOK, Local, ReadEpoch, Nodes
<1>1. new \in State
  BY <1>0, Numbers DEF State, PCs
<1>2. Becomes(t, new)
  <2>1. Set(t, new)
    BY <1>0 DEF ReadEpoch, State
  <2> HIDE DEF new
  <2>2. QED
    BY <1>1, <2>1, SetTo
<1>3. Shaped(t)'
  BY <1>0, <1>2, Numbers DEF ReadEpoch, At, Becomes, Local, Shaped, Owns, Holds, InEmpty, Nodes, State,
     NotPending, Typed, TypeOK
<1>m. /\ Moved(t) /\ Local /\ th[t].pc = "again" /\ th'[t].pc = "root" /\ SameSlot(t)
      /\ th'[t].op = th[t].op /\ th'[t].at = epoch /\ th'[t].saw = th[t].saw /\ SameHand(t)
      /\ SameScan(t)
  BY <1>0, <1>2 DEF Becomes, State, Moved, SameSlot, SameOp, SameHand, SameScan, At, ReadEpoch
<1>4. QED
  BY <1>m, <1>0, <1>2, <1>3, LocalKeepsShape

LEMMA EndOpMoves ==
  ASSUME Typed, NEW t \in Threads, EndOp(t)
  PROVE  /\ Typed'
         /\ Local /\ th[t].pc = "end" /\ Moved(t)
         /\ th'[t].pc = "ready" /\ th'[t].tid = th[t].tid /\ th'[t].pending = Unreserved /\ SameOp(t)
         /\ th'[t].hold = 0 /\ th'[t].own = th[t].own /\ th'[t].victim = th[t].victim /\ SameScan(t)
<1> DEFINE new == [th[t] EXCEPT !.pc = "ready", !.hold = 0, !.pending = Unreserved]
<1>0. /\ th[t] \in State /\ Shaped(t) /\ Local
      /\ epoch \in Nat /\ nexttid \in Nat /\ freeTids \in Nat /\ root \in Nat
  BY DEF Typed, TypeOK, Local, EndOp, Nodes
<1>1. new \in State
  BY <1>0, Numbers DEF State, PCs
<1>2. Becomes(t, new)
  <2>1. Set(t, new)
    BY <1>0 DEF EndOp, State, Store
  <2> HIDE DEF new
  <2>2. QED
    BY <1>1, <2>1, SetTo
<1>3. Shaped(t)'
  BY <1>0, <1>2, Numbers DEF EndOp, At, Becomes, Local, Shaped, Owns, Holds, InEmpty, Nodes, State,
     NotPending, Typed, TypeOK
<1>m. /\ Moved(t) /\ Local /\ th[t].pc = "end" /\ th'[t].pc = "ready" /\ th'[t].tid = th[t].tid
      /\ th'[t].pending = Unreserved /\ SameOp(t) /\ th'[t].hold = 0 /\ th'[t].own = th[t].own
      /\ th'[t].victim = th[t].victim /\ SameScan(t)
  BY <1>0, <1>2 DEF Becomes, State, Moved, SameSlot, SameOp, SameHand, SameScan, At, EndOp
<1>4. QED
  BY <1>m, <1>0, <1>2, <1>3, LocalKeepsShape

LEMMA SeeEpochMoves ==
  ASSUME Typed, NEW t \in Threads, SeeEpochById(t)
  PROVE  /\ Typed'
         /\ Local /\ th[t].pc = "see" /\ Moved(t)
         /\ th'[t].pc = (IF rec[th[t].hold].write = 0 THEN "help" ELSE th[t].then) /\ SameSlot(t)
         /\ SameOp(t) /\ SameHand(t) /\ SameScan(t)
<1> DEFINE new == [th[t] EXCEPT !.pc = IF rec[th[t].hold].write = 0 THEN "help" ELSE th[t].then]
<1>0. /\ th[t] \in State /\ Shaped(t) /\ Local
      /\ epoch \in Nat /\ nexttid \in Nat /\ freeTids \in Nat /\ root \in Nat
  BY DEF Typed, TypeOK, Local, SeeEpochById, Nodes
<1>a. (IF rec[th[t].hold].write = 0 THEN "help" ELSE th[t].then) \in PCs
  BY <1>0, Numbers DEF PCs, State, Shaped, SeeEpochById, At
<1>1. new \in State
  BY <1>0, <1>a, Numbers DEF State, PCs
<1>2. Becomes(t, new)
  <2>1. Set(t, new)
    BY <1>0 DEF SeeEpochById, State, Goto
  <2> HIDE DEF new
  <2>2. QED
    BY <1>1, <2>1, SetTo
<1>b. new.pc = "help" \/ (new.pc = "older" /\ th[t].op = "read") \/ (new.pc = "link" /\ th[t].op = "write")
  BY <1>0 DEF SeeEpochById, At, State, Shaped
<1>c. /\ th'[t].pc = new.pc /\ th'[t].hold = th[t].hold /\ th'[t].op = th[t].op /\ th'[t].then = th[t].then
      /\ th'[t].back = th[t].back /\ th'[t].pending = th[t].pending /\ th'[t].own = th[t].own
      /\ th'[t].victim = th[t].victim /\ th'[t].list = th[t].list /\ Nodes' = Nodes
  BY <1>0, <1>2 DEF Becomes, State, Local, Nodes
<1>d. th[t].pc = "see" /\ th[t].op # "none" /\ th[t].then = (IF th[t].op = "read" THEN "older" ELSE "link")
  BY <1>0 DEF SeeEpochById, At, Shaped
<1>3. Shaped(t)'
  <2> HIDE DEF new
  <2>1. QED
    BY <1>0, <1>b, <1>c, <1>d DEF Shaped, Owns, Holds, InEmpty, NotPending
<1>m. /\ Moved(t) /\ Local /\ th[t].pc = "see"
      /\ th'[t].pc = (IF rec[th[t].hold].write = 0 THEN "help" ELSE th[t].then) /\ SameSlot(t)
      /\ SameOp(t) /\ SameHand(t) /\ SameScan(t)
  BY <1>0, <1>2 DEF Becomes, State, Moved, SameSlot, SameOp, SameHand, SameScan, At, SeeEpochById
<1>4. QED
  BY <1>m, <1>0, <1>2, <1>3, LocalKeepsShape

LEMMA LoadRootMoves ==
  ASSUME Typed, NEW t \in Threads, LoadRoot(t)
  PROVE  /\ Typed'
         /\ Local /\ th[t].pc = "root" /\ Moved(t)
         /\ th'[t].pc = "see" /\ SameSlot(t) /\ SameOp(t) /\ th'[t].hold = root /\ th'[t].own = th[t].own
         /\ th'[t].victim = th[t].victim /\ SameScan(t)
<1> DEFINE new == [th[t] EXCEPT !.pc = "see", !.hold = root, !.then = IF th[t].op = "read" THEN "older" ELSE "link"]
<1>0. /\ th[t] \in State /\ Shaped(t) /\ Local
      /\ epoch \in Nat /\ nexttid \in Nat /\ freeTids \in Nat /\ root \in Nat
  BY DEF Typed, TypeOK, Local, LoadRoot, Nodes
<1>a. (IF th[t].op = "read" THEN "older" ELSE "link") \in {"none", "older", "link"}
  BY <1>0, Numbers
<1>1. new \in State
  <2> DEFINE then == IF th[t].op = "read" THEN "older" ELSE "link"
  <2>1. then \in {"none", "older", "link"}
    BY <1>a
  <2> HIDE DEF then
  <2>2. [th[t] EXCEPT !.pc = "see", !.hold = root, !.then = then] \in State
    BY <1>0, <2>1 DEF State, PCs
  <2>3. QED
    BY <2>2 DEF then
<1>2. Becomes(t, new)
  <2>1. Set(t, new)
    BY <1>0 DEF LoadRoot, State
  <2> HIDE DEF new
  <2>2. QED
    BY <1>1, <2>1, SetTo
<1>3. Shaped(t)'
  BY <1>0, <1>2, Numbers DEF LoadRoot, At, Becomes, Local, Shaped, Owns, Holds, InEmpty, Nodes, State,
     NotPending, Typed, TypeOK
<1>m. /\ Moved(t) /\ Local /\ th[t].pc = "root" /\ th'[t].pc = "see" /\ SameSlot(t) /\ SameOp(t)
      /\ th'[t].hold = root /\ th'[t].own = th[t].own /\ th'[t].victim = th[t].victim /\ SameScan(t)
  BY <1>0, <1>2 DEF Becomes, State, Moved, SameSlot, SameOp, SameHand, SameScan, At, LoadRoot
<1>4. QED
  BY <1>m, <1>0, <1>2, <1>3, LocalKeepsShape

LEMMA AcceptMoves ==
  ASSUME Typed, NEW t \in Threads, AcceptById(t)
  PROVE  /\ Typed'
         /\ Local /\ th[t].pc = "older" /\ Moved(t)
         /\ th'[t].pc = "found" /\ SameSlot(t) /\ SameOp(t) /\ SameHand(t) /\ SameScan(t)
<1> DEFINE new == [th[t] EXCEPT !.pc = "found"]
<1>0. /\ th[t] \in State /\ Shaped(t) /\ Local
      /\ epoch \in Nat /\ nexttid \in Nat /\ freeTids \in Nat /\ root \in Nat
  BY DEF Typed, TypeOK, Local, AcceptById, Nodes
<1>1. new \in State
  BY <1>0, Numbers DEF State, PCs
<1>2. Becomes(t, new)
  <2>1. Set(t, new)
    BY <1>0 DEF AcceptById, State, Goto
  <2> HIDE DEF new
  <2>2. QED
    BY <1>1, <2>1, SetTo
<1>3. Shaped(t)'
  BY <1>0, <1>2, Numbers DEF AcceptById, At, Becomes, Local, Shaped, Owns, Holds, InEmpty, Nodes, State,
     NotPending, Typed, TypeOK
<1>m. /\ Moved(t) /\ Local /\ th[t].pc = "older" /\ th'[t].pc = "found" /\ SameSlot(t) /\ SameOp(t)
      /\ SameHand(t) /\ SameScan(t)
  BY <1>0, <1>2 DEF Becomes, State, Moved, SameSlot, SameOp, SameHand, SameScan, At, AcceptById
<1>4. QED
  BY <1>m, <1>0, <1>2, <1>3, LocalKeepsShape

LEMMA EndViewMoves ==
  ASSUME Typed, NEW t \in Threads, EndView(t)
  PROVE  /\ Typed'
         /\ Local /\ th[t].pc = "found" /\ Moved(t)
         /\ th'[t].pc = "end" /\ SameSlot(t) /\ SameOp(t) /\ SameHand(t) /\ SameScan(t)
<1> DEFINE new == [th[t] EXCEPT !.pc = "end"]
<1>0. /\ th[t] \in State /\ Shaped(t) /\ Local
      /\ epoch \in Nat /\ nexttid \in Nat /\ freeTids \in Nat /\ root \in Nat
  BY DEF Typed, TypeOK, Local, EndView, Nodes
<1>1. new \in State
  BY <1>0, Numbers DEF State, PCs
<1>2. Becomes(t, new)
  <2>1. Set(t, new)
    BY <1>0 DEF EndView, State, Goto
  <2> HIDE DEF new
  <2>2. QED
    BY <1>1, <2>1, SetTo
<1>3. Shaped(t)'
  BY <1>0, <1>2, Numbers DEF EndView, At, Becomes, Local, Shaped, Owns, Holds, InEmpty, Nodes, State,
     NotPending, Typed, TypeOK
<1>m. /\ Moved(t) /\ Local /\ th[t].pc = "found" /\ th'[t].pc = "end" /\ SameSlot(t) /\ SameOp(t)
      /\ SameHand(t) /\ SameScan(t)
  BY <1>0, <1>2 DEF Becomes, State, Moved, SameSlot, SameOp, SameHand, SameScan, At, EndView
<1>4. QED
  BY <1>m, <1>0, <1>2, <1>3, LocalKeepsShape

LEMMA BeginScanMoves ==
  ASSUME Typed, NEW t \in Threads, BeginScan(t)
  PROVE  /\ Typed'
         /\ Local /\ th[t].pc = "scan" /\ Moved(t)
         /\ th'[t].pc = "slots" /\ SameSlot(t) /\ SameOp(t) /\ SameHand(t) /\ th'[t].list = th[t].list
         /\ th'[t].i = 0 /\ th'[t].last = Min({nexttid, MaxTids}) /\ th'[t].lowest = Unreserved
         /\ th'[t].back = th[t].back
<1> DEFINE new == [th[t] EXCEPT !.pc = "slots", !.i = 0, !.last = Min({nexttid, MaxTids}), !.lowest = Unreserved]
<1>0. /\ th[t] \in State /\ Shaped(t) /\ Local
      /\ epoch \in Nat /\ nexttid \in Nat /\ freeTids \in Nat /\ root \in Nat
  BY DEF Typed, TypeOK, Local, BeginScan, Nodes
<1>a. Min({nexttid, MaxTids}) \in Nat /\ Min({nexttid, MaxTids}) <= MaxTids
  BY <1>0, Numbers
<1>1. new \in State
  <2> DEFINE last == Min({nexttid, MaxTids})
  <2>1. last \in Nat /\ Unreserved \in Nat
    BY <1>a, Numbers
  <2> HIDE DEF last
  <2>2. [th[t] EXCEPT !.pc = "slots", !.i = 0, !.last = last, !.lowest = Unreserved] \in State
    BY <1>0, <2>1 DEF State, PCs
  <2>3. QED
    BY <2>2 DEF last
<1>2. Becomes(t, new)
  <2>1. Set(t, new)
    BY <1>0 DEF BeginScan, State
  <2> HIDE DEF new
  <2>2. QED
    BY <1>1, <2>1, SetTo
<1>3. Shaped(t)'
  BY <1>0, <1>a, <1>2, Numbers DEF BeginScan, At, Becomes, Local, Shaped, Owns, Holds, InEmpty, Nodes, State,
     NotPending, Typed, TypeOK
<1>m. /\ Moved(t) /\ Local /\ th[t].pc = "scan" /\ th'[t].pc = "slots" /\ SameSlot(t) /\ SameOp(t)
      /\ SameHand(t) /\ th'[t].list = th[t].list /\ th'[t].i = 0 /\ th'[t].last = Min({nexttid, MaxTids})
      /\ th'[t].lowest = Unreserved /\ th'[t].back = th[t].back
  BY <1>0, <1>2 DEF Becomes, State, Moved, SameSlot, SameOp, SameHand, SameScan, At, BeginScan
<1>4. QED
  BY <1>m, <1>0, <1>2, <1>3, LocalKeepsShape

LEMMA LeaveMoves ==
  ASSUME Typed, NEW t \in Threads, Leave(t)
  PROVE  /\ Typed'
         /\ Local /\ th[t].pc = "ready" /\ Moved(t)
         /\ th'[t].pc = "leave" /\ th'[t].tid = th[t].tid /\ th'[t].pending = Unreserved /\ SameOp(t)
         /\ SameHand(t) /\ th'[t].list = th[t].list /\ th'[t].i = th[t].i /\ th'[t].last = th[t].last
         /\ th'[t].lowest = th[t].lowest /\ th'[t].back = "leave"
<1> DEFINE new == [th[t] EXCEPT !.pc = "leave", !.back = "leave", !.pending = Unreserved]
<1>0. /\ th[t] \in State /\ Shaped(t) /\ Local
      /\ epoch \in Nat /\ nexttid \in Nat /\ freeTids \in Nat /\ root \in Nat
  BY DEF Typed, TypeOK, Local, Leave, Nodes
<1>1. new \in State
  BY <1>0, Numbers DEF State, PCs
<1>2. Becomes(t, new)
  <2>1. Set(t, new)
    BY <1>0 DEF Leave, State, Store
  <2> HIDE DEF new
  <2>2. QED
    BY <1>1, <2>1, SetTo
<1>3. Shaped(t)'
  BY <1>0, <1>2, Numbers DEF Leave, At, Becomes, Local, Shaped, Owns, Holds, InEmpty, Nodes, State,
     NotPending, Typed, TypeOK
<1>m. /\ Moved(t) /\ Local /\ th[t].pc = "ready" /\ th'[t].pc = "leave" /\ th'[t].tid = th[t].tid
      /\ th'[t].pending = Unreserved /\ SameOp(t) /\ SameHand(t) /\ th'[t].list = th[t].list
      /\ th'[t].i = th[t].i /\ th'[t].last = th[t].last /\ th'[t].lowest = th[t].lowest
      /\ th'[t].back = "leave"
  BY <1>0, <1>2 DEF Becomes, State, Moved, SameSlot, SameOp, SameHand, SameScan, At, Leave
<1>4. QED
  BY <1>m, <1>0, <1>2, <1>3, LocalKeepsShape

LEMMA LeaveScanMoves ==
  ASSUME Typed, NEW t \in Threads, LeaveScan(t)
  PROVE  /\ Typed'
         /\ Local /\ th[t].pc = "leave" /\ Moved(t)
         /\ th'[t].pc = "scan" /\ SameSlot(t) /\ SameOp(t) /\ SameHand(t) /\ SameScan(t)
<1> DEFINE new == [th[t] EXCEPT !.pc = "scan"]
<1>0. /\ th[t] \in State /\ Shaped(t) /\ Local
      /\ epoch \in Nat /\ nexttid \in Nat /\ freeTids \in Nat /\ root \in Nat
  BY DEF Typed, TypeOK, Local, LeaveScan, Nodes
<1>1. new \in State
  BY <1>0, Numbers DEF State, PCs
<1>2. Becomes(t, new)
  <2>1. Set(t, new)
    BY <1>0 DEF LeaveScan, State, Goto
  <2> HIDE DEF new
  <2>2. QED
    BY <1>1, <2>1, SetTo
<1>3. Shaped(t)'
  BY <1>0, <1>2, Numbers DEF LeaveScan, At, Becomes, Local, Shaped, Owns, Holds, InEmpty, Nodes, State,
     NotPending, Typed, TypeOK
<1>m. /\ Moved(t) /\ Local /\ th[t].pc = "leave" /\ th'[t].pc = "scan" /\ SameSlot(t) /\ SameOp(t)
      /\ SameHand(t) /\ SameScan(t)
  BY <1>0, <1>2 DEF Becomes, State, Moved, SameSlot, SameOp, SameHand, SameScan, At, LeaveScan
<1>4. QED
  BY <1>m, <1>0, <1>2, <1>3, LocalKeepsShape

LEMMA ScanSlotMoves ==
  ASSUME Typed, NEW t \in Threads, ScanSlot(t), th[t].tid < MaxTids
  PROVE  /\ Typed' /\ Slot(t, th[t].i) \in Nat
         /\ Local /\ th[t].pc = "slots" /\ Moved(t)
         /\ th'[t].pc = th[t].pc /\ SameSlot(t) /\ SameOp(t) /\ SameHand(t) /\ th'[t].list = th[t].list
         /\ th'[t].i = th[t].i + 1 /\ th'[t].last = th[t].last
         /\ th'[t].lowest = Min({th[t].lowest, Slot(t, th[t].i)}) /\ th'[t].back = th[t].back
<1> DEFINE low == Min({th[t].lowest, Slot(t, th[t].i)})
           next == th[t].i + 1
           new == [th[t] EXCEPT !.i = next, !.lowest = low]
<1>0. th[t] \in State /\ Shaped(t) /\ Local
  BY DEF Typed, TypeOK, Local, ScanSlot
<1>a. th[t].i < MaxTids /\ th[t].i \in Nat /\ next \in Nat /\ next <= th[t].last /\ th[t].last <= MaxTids
  <2>1. th[t].i \in Nat /\ th[t].last \in Nat
    BY <1>0 DEF State
  <2>2. th[t].i < th[t].last /\ th[t].last <= MaxTids
    BY <1>0 DEF ScanSlot, At, Shaped
  <2>3. QED
    BY <2>1, <2>2, Numbers
<1>1. Slot(t, th[t].i) \in Nat
  BY <1>0, <1>a, Numbers DEF Slot, State, Typed, TypeOK
<1>2. low \in Nat
  BY <1>0, <1>1, Numbers DEF State
<1>3. Set(t, new)
  BY <1>0 DEF ScanSlot, State
<1> HIDE DEF low, next
<1>4. new \in State
  BY <1>0, <1>a, <1>2 DEF State
<1>5. Becomes(t, new)
  <2> HIDE DEF new
  <2>1. QED
    BY <1>3, <1>4, SetTo
<1>6. Shaped(t)'
  BY <1>0, <1>a, <1>2, <1>5 DEF ScanSlot, At, Becomes, Local, Shaped, Owns, Holds, InEmpty, Nodes, State,
     NotPending, Typed, TypeOK
<1>m. /\ Moved(t) /\ Local /\ th[t].pc = "slots" /\ th'[t].pc = th[t].pc /\ SameSlot(t) /\ SameOp(t)
      /\ SameHand(t) /\ th'[t].list = th[t].list /\ th'[t].i = next /\ th'[t].last = th[t].last
      /\ th'[t].lowest = low /\ th'[t].back = th[t].back
  BY <1>0, <1>5 DEF Becomes, State, Moved, SameSlot, SameOp, SameHand, SameScan, At, ScanSlot
<1>7. QED
  BY <1>m, <1>0, <1>1, <1>5, <1>6, LocalKeepsShape DEF low, next

LEMMA BeginMoves ==
  ASSUME Typed, NEW t \in Threads, Begin(t)
  PROVE  /\ Typed' /\ Local /\ th[t].pc = "ready" /\ Moved(t)
         /\ th'[t].pc = "reserve" /\ th'[t].op \in {"read", "write"} /\ th'[t].at = th[t].at
         /\ th'[t].saw = epoch /\ SameSlot(t) /\ SameHand(t) /\ SameScan(t)
<1>0. th[t] \in State /\ Shaped(t) /\ Local /\ epoch \in Nat
  BY DEF Typed, TypeOK, Local, Begin
<1>1. PICK op \in {"read", "write"} :
        Set(t, [th[t] EXCEPT !.pc = "reserve", !.op = op, !.ops = @ + 1, !.saw = epoch])
  BY DEF Begin
<1> DEFINE count == th[t].ops + 1
           new == [th[t] EXCEPT !.pc = "reserve", !.op = op, !.ops = count, !.saw = epoch]
<1>a. count \in Nat
  BY <1>0 DEF State
<1>b. Set(t, new)
  BY <1>1
<1> HIDE DEF count
<1>2. new \in State
  BY <1>0, <1>a DEF State, PCs
<1>3. Becomes(t, new)
  <2> HIDE DEF new
  <2>1. QED
    BY <1>2, <1>b, SetTo
<1>c. th[t].pc = "ready" /\ op # "none"
  BY DEF Begin, At
<1>4. Shaped(t)'
  BY <1>0, <1>3, <1>c DEF Becomes, Local, Shaped, Owns, Holds, InEmpty, Nodes, State, NotPending
<1>m. /\ Moved(t) /\ th'[t].pc = "reserve" /\ th'[t].op = op /\ th'[t].at = th[t].at
      /\ th'[t].saw = epoch /\ SameSlot(t) /\ SameHand(t) /\ SameScan(t)
  BY <1>0, <1>3 DEF Becomes, State, Moved, SameSlot, SameHand, SameScan
<1>5. QED
  BY <1>0, <1>3, <1>4, <1>c, <1>m, LocalKeepsShape

LEMMA OlderMoves ==
  ASSUME Typed, NEW t \in Threads, OlderById(t), th[t].hold \in Nodes
  PROVE  /\ Typed'
         /\ Local /\ th[t].pc = "older" /\ Moved(t)
         /\ th'[t].pc = th[t].pc /\ SameSlot(t) /\ SameOp(t) /\ th'[t].hold = rec[th[t].hold].next
         /\ th'[t].own = th[t].own /\ th'[t].victim = th[t].victim /\ SameScan(t)
<1> DEFINE new == [th[t] EXCEPT !.hold = rec[th[t].hold].next]
<1>0. th[t] \in State /\ Shaped(t) /\ Local /\ Len(rec) \in Nat
  BY DEF Typed, TypeOK, Local, OlderById
<1>a. rec[th[t].hold].next \in Nodes \cup {0}
  BY DEF Typed, TypeOK
<1>b. rec[th[t].hold].next \in Nat
  BY <1>0, <1>a DEF Nodes
<1>1. new \in State
  BY <1>0, <1>b DEF State
<1>2. Becomes(t, new)
  <2>1. Set(t, new)
    BY DEF OlderById
  <2> HIDE DEF new
  <2>2. QED
    BY <1>1, <2>1, SetTo
<1>3. Shaped(t)'
  BY <1>0, <1>a, <1>2 DEF OlderById, At, Becomes, Local, Shaped, Owns, Holds, InEmpty, Nodes, State
<1>m. /\ Moved(t) /\ Local /\ th[t].pc = "older" /\ th'[t].pc = th[t].pc /\ SameSlot(t) /\ SameOp(t)
      /\ th'[t].hold = rec[th[t].hold].next /\ th'[t].own = th[t].own /\ th'[t].victim = th[t].victim
      /\ SameScan(t)
  BY <1>0, <1>2 DEF Becomes, State, Moved, SameSlot, SameOp, SameHand, SameScan, At, OlderById
<1>4. QED
  BY <1>m, <1>0, <1>2, <1>3, LocalKeepsShape

-----------------------------------------------------------------------------
(* The steps that change the records.                                      *)

\* One header changes.
Edits(x, h) ==
  /\ rec' \in Seq(Header) /\ Len(rec') = Len(rec) /\ rec'[x] = h
  /\ \A y \in Nodes : y # x => rec'[y] = rec[y]

LEMMA EditTo ==
  ASSUME Typed, NEW x \in Nodes, NEW h \in Header, rec' = [rec EXCEPT ![x] = h]
  PROVE  Edits(x, h) /\ Nodes' = Nodes
<1>1. rec \in Seq(Header)
  BY DEF Typed, TypeOK
<1>2. QED
  BY <1>1 DEF Edits, Nodes

\* One record is added.
Adds(h) ==
  /\ rec' \in Seq(Header) /\ Len(rec') = Len(rec) + 1 /\ rec'[Len(rec) + 1] = h
  /\ \A y \in Nodes : rec'[y] = rec[y]
  /\ Nodes' = Nodes \cup {Len(rec) + 1} /\ Len(rec) + 1 \notin Nodes /\ Len(rec) + 1 # 0

\* It is at an address that no record in use has.
AddsFresh(next, tid) ==
  \E a \in Nat \ {0} :
    Adds(Fresh(next, tid, a)) /\ \A y \in Nodes : rec[y].freed = 0 => rec[y].addr # a

LEMMA NewAddress ==
  ASSUME Typed, NEW a \in Addresses
  PROVE  a \in Nat \ {0} /\ \A y \in Nodes : rec[y].freed = 0 => rec[y].addr # a
<1>1. DOMAIN rec = Nodes /\ Len(rec) \in Nat
  BY DEF Typed, TypeOK, Nodes
<1>2. QED
  BY <1>1 DEF Addresses

LEMMA AddTo ==
  ASSUME Typed, NEW h \in Header, rec' = Append(rec, h)
  PROVE  Adds(h)
<1>1. rec \in Seq(Header) /\ Len(rec) \in Nat
  BY DEF Typed, TypeOK
<1>2. QED
  BY <1>1 DEF Adds, Nodes

LEMMA Headers ==
  ASSUME Typed, NEW x \in Nodes
  PROVE  rec[x] \in Header /\ rec[x].next \in Nodes \cup {0} /\ rec[x].next \in Nat /\ x \in Nat /\ x # 0
<1>1. rec \in Seq(Header) /\ Len(rec) \in Nat /\ rec[x].next \in Nodes \cup {0}
  BY DEF Typed, TypeOK
<1>2. x \in Nat /\ x # 0 /\ rec[x] \in Header
  BY <1>1 DEF Nodes
<1>3. QED
  BY <1>1, <1>2 DEF Nodes

\* A thread's step that keeps the other variables' types.
LEMMA EditKeepsShape ==
  ASSUME Typed, NEW t \in Threads, NEW new, Becomes(t, new), Shaped(t)',
         NEW x \in Nodes, NEW h, Edits(x, h), h.next \in Nodes \cup {0},
         epoch' \in Nat, UNCHANGED <<nexttid, reservations, freeTids, root>>
  PROVE  Typed'
<1>1. Nodes' = Nodes /\ Len(rec') >= Len(rec) /\ rec' \in Seq(Header)
  BY DEF Edits, Nodes, Typed, TypeOK
<1>2. \A y \in Nodes' : rec'[y].next \in Nodes' \cup {0}
  BY <1>1 DEF Edits, Typed, TypeOK
<1>3. /\ nexttid' \in Nat /\ freeTids' \in Nodes' \cup {0} /\ root' \in Nodes'
      /\ reservations' \in [0..(MaxTids - 1) -> Nat]
  BY <1>1 DEF Typed, TypeOK
<1>4. QED
  BY <1>1, <1>2, <1>3, KeepsShape

LEMMA AddKeepsShape ==
  ASSUME Typed, NEW t \in Threads, NEW new, Becomes(t, new), Shaped(t)',
         NEW h, Adds(h), h.next \in Nodes \cup {0},
         UNCHANGED <<epoch, nexttid, reservations, freeTids, root>>
  PROVE  Typed'
<1>1. Nodes' = Nodes \cup {Len(rec) + 1} /\ Len(rec') >= Len(rec) /\ rec' \in Seq(Header)
  BY DEF Adds, Typed, TypeOK
<1>2. \A y \in Nodes' : rec'[y].next \in Nodes' \cup {0}
  BY <1>1 DEF Adds, Typed, TypeOK
<1>3. /\ epoch' \in Nat /\ nexttid' \in Nat /\ freeTids' \in Nodes' \cup {0} /\ root' \in Nodes'
      /\ reservations' \in [0..(MaxTids - 1) -> Nat]
  BY <1>1 DEF Typed, TypeOK
<1>4. QED
  BY <1>1, <1>2, <1>3, KeepsShape

LEMMA NewTidMoves ==
  ASSUME Typed, NEW t \in Threads, NewTid(t)
  PROVE  /\ Typed' /\ th[t].pc = "new" /\ nexttid' = nexttid + 1
         /\ UNCHANGED <<epoch, reservations, rec, freeTids, root>>
         /\ Moved(t) /\ th'[t].pending = th[t].pending /\ SameOp(t) /\ SameHand(t) /\ SameScan(t)
         /\ \/ nexttid < MaxTids /\ th'[t].pc = "slot" /\ th'[t].tid = nexttid
            \/ nexttid >= MaxTids /\ th'[t].pc = "head" /\ th'[t].tid = th[t].tid
<1>0. th[t] \in State /\ Shaped(t) /\ nexttid \in Nat /\ th[t].pc = "new"
  BY DEF Typed, TypeOK, NewTid, At
<1>1. ASSUME NEW new \in State, Set(t, new),
             \/ new = [th[t] EXCEPT !.pc = "slot", !.tid = nexttid]
             \/ new = [th[t] EXCEPT !.pc = "head"]
      PROVE  Becomes(t, new) /\ Typed'
  <2>1. Becomes(t, new)
    BY <1>1, SetTo
  <2>2. Shaped(t)'
    <3>1. th'[t] = new /\ UNCHANGED rec
      BY <2>1 DEF Becomes, NewTid
    <3>2. /\ new.pc \in {"slot", "head"} /\ new.hold = th[t].hold /\ new.pending = th[t].pending
          /\ new.list = th[t].list
      BY <1>0, <1>1 DEF State
    <3>3. QED
      BY <1>0, <3>1, <3>2 DEF Shaped, Owns, Holds, InEmpty, Nodes
  <2>3. Typed'
    <3>1. /\ epoch' \in Nat /\ nexttid' \in Nat /\ freeTids' \in Nodes' \cup {0} /\ root' \in Nodes'
          /\ reservations' \in [0..(MaxTids - 1) -> Nat]
          /\ rec' \in Seq(Header) /\ Len(rec') >= Len(rec)
          /\ \A x \in Nodes' : rec'[x].next \in Nodes' \cup {0}
      BY <1>0 DEF NewTid, Typed, TypeOK, Nodes
    <3>2. QED
      BY <2>1, <2>2, <3>1, KeepsShape
  <2>4. QED
    BY <2>1, <2>3
<1>2. CASE nexttid < MaxTids /\ Set(t, [th[t] EXCEPT !.pc = "slot", !.tid = nexttid])
  <2>1. [th[t] EXCEPT !.pc = "slot", !.tid = nexttid] \in State
    BY <1>0 DEF State, PCs
  <2>2. Becomes(t, [th[t] EXCEPT !.pc = "slot", !.tid = nexttid]) /\ Typed'
    BY <1>1, <1>2, <2>1
  <2>3. QED
    BY <1>0, <1>2, <2>2 DEF NewTid, Becomes, State, Moved, SameOp, SameHand, SameScan
<1>3. CASE nexttid >= MaxTids /\ Set(t, [th[t] EXCEPT !.pc = "head"])
  <2>1. [th[t] EXCEPT !.pc = "head"] \in State
    BY <1>0 DEF State, PCs
  <2>2. Becomes(t, [th[t] EXCEPT !.pc = "head"]) /\ Typed'
    BY <1>1, <1>3, <2>1
  <2>3. QED
    BY <1>0, <1>3, <2>2 DEF NewTid, Becomes, State, Moved, SameOp, SameHand, SameScan
<1>4. QED
  BY <1>2, <1>3 DEF NewTid, Goto

LEMMA PopTidMoves ==
  ASSUME Typed, NEW t \in Threads, PopTidById(t)
  PROVE  /\ Typed' /\ th[t].pc = "take" /\ th[t].hold \in Nodes
         /\ freeTids = th[t].hold /\ freeTids' = rec[th[t].hold].next
         /\ UNCHANGED <<epoch, nexttid, reservations, rec, root>>
         /\ Moved(t)
         /\ th'[t].pc = "retire" /\ th'[t].tid = rec[th[t].hold].tid /\ th'[t].pending = th[t].pending
         /\ SameOp(t) /\ th'[t].hold = 0 /\ th'[t].own = th[t].own /\ th'[t].victim = th[t].hold
         /\ th'[t].list = th[t].list /\ th'[t].i = th[t].i /\ th'[t].last = th[t].last
         /\ th'[t].lowest = th[t].lowest /\ th'[t].back = "slot"
<1> DEFINE new == [th[t] EXCEPT !.pc = "retire", !.hold = 0, !.below = 0, !.victim = th[t].hold,
                                !.tid = rec[th[t].hold].tid, !.back = "slot"]
<1>0. /\ th[t] \in State /\ Shaped(t) /\ th[t].pc = "take" /\ th[t].hold \in Nodes
      /\ freeTids = th[t].hold /\ freeTids' = rec[th[t].hold].next
      /\ UNCHANGED <<epoch, nexttid, reservations, rec, root>>
  BY DEF Typed, TypeOK, PopTidById, At, Shaped
<1>a. rec[th[t].hold] \in Header /\ rec[th[t].hold].next \in Nodes \cup {0} /\ th[t].hold \in Nat
  BY <1>0, Headers
<1>1. new \in State
  BY <1>0, <1>a DEF State, PCs, Header
<1>2. Becomes(t, new)
  <2>1. Set(t, new)
    BY DEF PopTidById
  <2> HIDE DEF new
  <2>2. QED
    BY <1>1, <2>1, SetTo
<1>3. Shaped(t)'
  BY <1>0, <1>2 DEF Becomes, Shaped, Owns, Holds, InEmpty, Nodes, State
<1>4. /\ epoch' \in Nat /\ nexttid' \in Nat /\ freeTids' \in Nodes' \cup {0} /\ root' \in Nodes'
      /\ reservations' \in [0..(MaxTids - 1) -> Nat]
      /\ rec' \in Seq(Header) /\ Len(rec') >= Len(rec)
      /\ \A x \in Nodes' : rec'[x].next \in Nodes' \cup {0}
  BY <1>0, <1>a DEF Typed, TypeOK, Nodes
<1>5. Typed'
  <2> HIDE DEF new
  <2>1. QED
    BY <1>2, <1>3, <1>4, KeepsShape
<1>m. /\ Moved(t) /\ th'[t].pc = "retire" /\ th'[t].tid = rec[th[t].hold].tid
      /\ th'[t].pending = th[t].pending /\ SameOp(t) /\ th'[t].hold = 0 /\ th'[t].own = th[t].own
      /\ th'[t].victim = th[t].hold /\ th'[t].list = th[t].list /\ th'[t].i = th[t].i
      /\ th'[t].last = th[t].last /\ th'[t].lowest = th[t].lowest /\ th'[t].back = "slot"
  BY <1>0, <1>2 DEF Becomes, State, Moved, SameSlot, SameOp, SameHand, SameScan
<1>6. QED
  BY <1>m, <1>0, <1>2, <1>5

LEMMA FlushMoves ==
  ASSUME Typed, NEW t \in Threads, Flush(t), th[t].tid < MaxTids
  PROVE  /\ Typed' /\ th[t].pending # NotPending /\ th[t].tid \in 0..(MaxTids - 1)
         /\ reservations' = [reservations EXCEPT ![th[t].tid] = th[t].pending]
         /\ UNCHANGED <<epoch, nexttid, rec, freeTids, root>>
         /\ Moved(t)
         /\ th'[t].pc = th[t].pc /\ th'[t].tid = th[t].tid /\ th'[t].pending = NotPending /\ SameOp(t)
         /\ SameHand(t) /\ SameScan(t)
<1> DEFINE new == [th[t] EXCEPT !.pending = NotPending]
<1>0. /\ th[t] \in State /\ Shaped(t) /\ th[t].pending # NotPending
      /\ reservations' = [reservations EXCEPT ![th[t].tid] = th[t].pending]
      /\ UNCHANGED <<epoch, nexttid, rec, freeTids, root>>
  BY DEF Typed, TypeOK, Flush, Drained
<1>a. th[t].tid \in 0..(MaxTids - 1) /\ th[t].pending \in Nat
  <2>1. th[t].tid \in Nat /\ th[t].pending \in Nat
    BY <1>0 DEF State
  <2>2. QED
    BY <2>1, Numbers
<1>1. new \in State
  BY <1>0, Numbers DEF State
<1>2. Becomes(t, new)
  <2>1. Set(t, new)
    BY DEF Flush
  <2> HIDE DEF new
  <2>2. QED
    BY <1>1, <2>1, SetTo
<1>3. Shaped(t)'
  BY <1>0, <1>2 DEF Becomes, Shaped, Owns, Holds, InEmpty, Nodes, State
<1>4. /\ epoch' \in Nat /\ nexttid' \in Nat /\ freeTids' \in Nodes' \cup {0} /\ root' \in Nodes'
      /\ reservations' \in [0..(MaxTids - 1) -> Nat]
      /\ rec' \in Seq(Header) /\ Len(rec') >= Len(rec)
      /\ \A x \in Nodes' : rec'[x].next \in Nodes' \cup {0}
  <2>1. reservations' \in [0..(MaxTids - 1) -> Nat]
    BY <1>0, <1>a DEF Typed, TypeOK
  <2>2. QED
    BY <1>0, <2>1 DEF Typed, TypeOK, Nodes
<1>5. Typed'
  <2> HIDE DEF new
  <2>1. QED
    BY <1>2, <1>3, <1>4, KeepsShape
<1>m. /\ Moved(t) /\ th'[t].pc = th[t].pc /\ th'[t].tid = th[t].tid /\ th'[t].pending = NotPending
      /\ SameOp(t) /\ SameHand(t) /\ SameScan(t)
  BY <1>0, <1>2 DEF Becomes, State, Moved, SameSlot, SameOp, SameHand, SameScan
<1>6. QED
  BY <1>m, <1>0, <1>a, <1>2, <1>5

LEMMA NewEpochMoves ==
  ASSUME Typed, NEW t \in Threads, NewEpoch(t)
  PROVE  /\ Typed' /\ th[t].pc \in {"help", "commit"} /\ epoch' = epoch + 1
         /\ UNCHANGED <<nexttid, reservations, rec, freeTids, root>>
         /\ Moved(t)
         /\ th'[t].pc = (IF th[t].pc = "help" THEN "helped" ELSE "committed") /\ SameSlot(t)
         /\ th'[t].op = th[t].op /\ th'[t].at = th[t].at /\ th'[t].saw = epoch + 1 /\ SameHand(t)
         /\ SameScan(t)
<1> DEFINE pc == IF th[t].pc = "help" THEN "helped" ELSE "committed"
           next == epoch + 1
           new == [th[t] EXCEPT !.pc = pc, !.saw = next]
<1>0. /\ th[t] \in State /\ Shaped(t) /\ th[t].pc \in {"help", "commit"}
      /\ epoch' = epoch + 1 /\ epoch \in Nat /\ next \in Nat /\ pc \in PCs
      /\ UNCHANGED <<nexttid, reservations, rec, freeTids, root>>
  BY DEF Typed, TypeOK, NewEpoch, PCs
<1>a. (th[t].pc = "help" /\ pc = "helped") \/ (th[t].pc = "commit" /\ pc = "committed")
  BY <1>0
<1>b. Set(t, new)
  BY DEF NewEpoch
<1> HIDE DEF pc, next
<1>1. new \in State
  BY <1>0 DEF State
<1>2. Becomes(t, new)
  <2> HIDE DEF new
  <2>2. QED
    BY <1>1, <1>b, SetTo
<1>3. Shaped(t)'
  BY <1>0, <1>a, <1>2 DEF Becomes, Shaped, Owns, Holds, InEmpty, Nodes, State
<1>4. /\ epoch' \in Nat /\ nexttid' \in Nat /\ freeTids' \in Nodes' \cup {0} /\ root' \in Nodes'
      /\ reservations' \in [0..(MaxTids - 1) -> Nat]
      /\ rec' \in Seq(Header) /\ Len(rec') >= Len(rec)
      /\ \A x \in Nodes' : rec'[x].next \in Nodes' \cup {0}
  BY <1>0 DEF Typed, TypeOK, Nodes
<1>5. Typed'
  <2> HIDE DEF new
  <2>1. QED
    BY <1>2, <1>3, <1>4, KeepsShape
<1>m. /\ Moved(t) /\ th'[t].pc = pc /\ SameSlot(t) /\ th'[t].op = th[t].op /\ th'[t].at = th[t].at
      /\ th'[t].saw = next /\ SameHand(t) /\ SameScan(t)
  BY <1>0, <1>2 DEF Becomes, State, Moved, SameSlot, SameOp, SameHand, SameScan
<1>6. QED
  BY <1>m, <1>0, <1>2, <1>5 DEF pc, next

LEMMA StoreEpochMoves ==
  ASSUME Typed, NEW t \in Threads, StoreEpochById(t), Target(t) \in Nodes
  PROVE  /\ Typed' /\ th[t].pc \in {"helped", "committed"}
         /\ UNCHANGED <<epoch, nexttid, reservations, freeTids, root>>
         /\ Edits(Target(t), [rec[Target(t)] EXCEPT !.write = IF @ = 0 THEN th[t].saw ELSE @])
         /\ Moved(t)
         /\ th'[t].pc = (IF th[t].pc = "helped" THEN th[t].then ELSE "retire") /\ SameSlot(t)
         /\ SameOp(t) /\ SameHand(t) /\ SameScan(t)
<1> DEFINE pc == IF th[t].pc = "helped" THEN th[t].then ELSE "retire"
           x == Target(t)
           w == IF rec[x].write = 0 THEN th[t].saw ELSE rec[x].write
           h == [rec[x] EXCEPT !.write = w]
           new == [th[t] EXCEPT !.pc = pc]
<1>0. /\ th[t] \in State /\ Shaped(t) /\ th[t].pc \in {"helped", "committed"} /\ epoch \in Nat
      /\ UNCHANGED <<epoch, nexttid, reservations, freeTids, root>>
  BY DEF Typed, TypeOK, StoreEpochById
<1>a. \/ th[t].pc = "helped" /\ th[t].op = "read" /\ pc = "older"
      \/ th[t].pc = "helped" /\ th[t].op = "write" /\ pc = "link"
      \/ th[t].pc = "committed" /\ pc = "retire"
  BY <1>0 DEF Shaped, State
<1>b. x \in Nodes /\ rec[x] \in Header /\ w \in Nat /\ rec[x].next \in Nodes \cup {0}
  BY <1>0, Headers DEF Header, State
<1>c. rec' = [rec EXCEPT ![x] = h] /\ Set(t, new)
  BY DEF StoreEpochById, Goto
<1> HIDE DEF pc, x, w
<1>d. h \in Header /\ h.next = rec[x].next
  BY <1>b DEF Header
<1>1. new \in State
  BY <1>0, <1>a DEF State, PCs
<1>2. Becomes(t, new)
  <2> HIDE DEF new
  <2>2. QED
    BY <1>1, <1>c, SetTo
<1>3. Edits(x, h) /\ Nodes' = Nodes
  <2> HIDE DEF h
  <2> QED
    BY <1>b, <1>c, <1>d, EditTo
<1>4. Shaped(t)'
  BY <1>0, <1>a, <1>2, <1>3 DEF Becomes, Shaped, Owns, Holds, InEmpty, State
<1>5. Typed'
  <2> HIDE DEF new, h
  <2>1. QED
    BY <1>0, <1>2, <1>3, <1>4, <1>b, <1>d, EditKeepsShape
<1>m. /\ Moved(t) /\ th'[t].pc = pc /\ SameSlot(t) /\ SameOp(t) /\ SameHand(t) /\ SameScan(t)
  BY <1>0, <1>2 DEF Becomes, State, Moved, SameSlot, SameOp, SameHand, SameScan
<1>6. QED
  BY <1>m, <1>0, <1>2, <1>3, <1>5 DEF pc, x, w

LEMMA LinkMoves ==
  ASSUME Typed, NEW t \in Threads, Link(t)
  PROVE  /\ Typed' /\ th[t].pc = "link" /\ AddsFresh(th[t].hold, 0)
         /\ UNCHANGED <<epoch, nexttid, reservations, freeTids, root>>
         /\ Moved(t)
         /\ th'[t].pc = "swap" /\ SameSlot(t) /\ SameOp(t) /\ th'[t].hold = th[t].hold
         /\ th'[t].own = Len(rec) + 1 /\ th'[t].victim = th[t].victim /\ SameScan(t)
<1>p. PICK a \in Addresses : rec' = Append(rec, Fresh(th[t].hold, 0, a))
  BY DEF Link
<1>q. a \in Nat \ {0} /\ \A y \in Nodes : rec[y].freed = 0 => rec[y].addr # a
  BY NewAddress
<1> DEFINE own == Len(rec) + 1
           h == Fresh(th[t].hold, 0, a)
           new == [th[t] EXCEPT !.pc = "swap", !.own = own]
<1>0. /\ th[t] \in State /\ Shaped(t) /\ th[t].pc = "link"
      /\ UNCHANGED <<epoch, nexttid, reservations, freeTids, root>>
      /\ own \in Nat /\ rec' = Append(rec, h) /\ Set(t, new)
  BY <1>p DEF Typed, TypeOK, Link, At
<1>a. h \in Header /\ h.next = th[t].hold /\ h.next \in Nodes \cup {0}
  BY <1>0, <1>q DEF Fresh, Header, State, Shaped
<1>b. Adds(h)
  <2> HIDE DEF h
  <2> QED
    BY <1>0, <1>a, AddTo
<1>c. own \in Nodes' /\ Nodes \subseteq Nodes'
  BY <1>b DEF Adds
<1> HIDE DEF own
<1>1. new \in State
  BY <1>0 DEF State, PCs
<1>2. Becomes(t, new)
  <2> HIDE DEF new
  <2>2. QED
    BY <1>0, <1>1, SetTo
<1>3. Shaped(t)'
  <2>1. /\ th'[t].pc = "swap" /\ th'[t].own \in Nodes' /\ th'[t].hold = th[t].hold
        /\ th'[t].list = th[t].list /\ th'[t].op = th[t].op
    BY <1>0, <1>2, <1>c DEF Becomes, State
  <2>2. /\ th[t].hold \in Nodes' \cup {0} /\ th[t].op = "write"
        /\ \A n \in DOMAIN th[t].list : th[t].list[n] \in Nodes'
    BY <1>0, <1>c DEF Shaped
  <2>3. QED
    BY <2>1, <2>2 DEF Shaped, Owns, Holds, InEmpty
<1>5. Typed'
  <2> HIDE DEF new, h
  <2>1. QED
    BY <1>0, <1>2, <1>3, <1>a, <1>b, AddKeepsShape
<1>m. /\ Moved(t) /\ th'[t].pc = "swap" /\ SameSlot(t) /\ SameOp(t) /\ th'[t].hold = th[t].hold
      /\ th'[t].own = own /\ th'[t].victim = th[t].victim /\ SameScan(t)
  BY <1>0, <1>2 DEF Becomes, State, Moved, SameSlot, SameOp, SameHand, SameScan
<1>6. QED
  <2>1. AddsFresh(th[t].hold, 0)
    BY <1>b, <1>q DEF AddsFresh
  <2>2. QED
    BY <1>m, <1>0, <2>1, <1>5 DEF own

LEMMA NewNodeMoves ==
  ASSUME Typed, NEW t \in Threads, NewNode(t)
  PROVE  /\ Typed' /\ th[t].pc = "leave" /\ AddsFresh(freeTids, th[t].tid)
         /\ UNCHANGED <<epoch, nexttid, reservations, freeTids, root>>
         /\ Moved(t)
         /\ th'[t].pc = "give" /\ SameSlot(t) /\ SameOp(t) /\ th'[t].hold = th[t].hold
         /\ th'[t].own = Len(rec) + 1 /\ th'[t].victim = th[t].victim /\ SameScan(t)
<1>p. PICK a \in Addresses : rec' = Append(rec, Fresh(freeTids, th[t].tid, a))
  BY DEF NewNode
<1>q. a \in Nat \ {0} /\ \A y \in Nodes : rec[y].freed = 0 => rec[y].addr # a
  BY NewAddress
<1> DEFINE own == Len(rec) + 1
           h == Fresh(freeTids, th[t].tid, a)
           new == [th[t] EXCEPT !.pc = "give", !.own = own]
<1>0. /\ th[t] \in State /\ Shaped(t) /\ th[t].pc = "leave"
      /\ UNCHANGED <<epoch, nexttid, reservations, freeTids, root>>
      /\ own \in Nat /\ rec' = Append(rec, h) /\ Set(t, new)
  BY <1>p DEF Typed, TypeOK, NewNode, At
<1>a. h \in Header /\ h.next = freeTids /\ h.next \in Nodes \cup {0}
  <2>1. freeTids \in Nodes \cup {0} /\ freeTids \in Nat /\ th[t].tid \in Nat
    <3>1. th[t].tid \in Nat
      BY <1>0 DEF State
    <3>2. freeTids \in Nodes \cup {0} /\ Len(rec) \in Nat
      BY DEF Typed, TypeOK
    <3>3. QED
      BY <3>1, <3>2 DEF Nodes
  <2>2. QED
    BY <2>1, <1>q DEF Fresh, Header
<1>b. Adds(h)
  <2> HIDE DEF h
  <2> QED
    BY <1>0, <1>a, AddTo
<1>c. own \in Nodes' /\ Nodes \subseteq Nodes'
  BY <1>b DEF Adds
<1> HIDE DEF own
<1>1. new \in State
  BY <1>0 DEF State, PCs
<1>2. Becomes(t, new)
  <2> HIDE DEF new
  <2>2. QED
    BY <1>0, <1>1, SetTo
<1>3. Shaped(t)'
  <2>1. /\ th'[t].pc = "give" /\ th'[t].own \in Nodes' /\ th'[t].hold = th[t].hold
        /\ th'[t].list = th[t].list
    BY <1>0, <1>2, <1>c DEF Becomes, State
  <2>2. th[t].hold = 0 /\ \A n \in DOMAIN th[t].list : th[t].list[n] \in Nodes'
    BY <1>0, <1>c DEF Shaped, Holds, InEmpty
  <2>3. QED
    BY <2>1, <2>2 DEF Shaped, Owns, Holds, InEmpty
<1>5. Typed'
  <2> HIDE DEF new, h
  <2>1. QED
    BY <1>0, <1>2, <1>3, <1>a, <1>b, AddKeepsShape
<1>m. /\ Moved(t) /\ th'[t].pc = "give" /\ SameSlot(t) /\ SameOp(t) /\ th'[t].hold = th[t].hold
      /\ th'[t].own = own /\ th'[t].victim = th[t].victim /\ SameScan(t)
  BY <1>0, <1>2 DEF Becomes, State, Moved, SameSlot, SameOp, SameHand, SameScan
<1>6. QED
  <2>1. AddsFresh(freeTids, th[t].tid)
    BY <1>b, <1>q DEF AddsFresh
  <2>2. QED
    BY <1>m, <1>0, <2>1, <1>5 DEF own

LEMMA SwapRootMoves ==
  ASSUME Typed, NEW t \in Threads, SwapRootById(t)
  PROVE  /\ Typed' /\ th[t].pc = "swap" /\ root = th[t].hold /\ root' = th[t].own
         /\ UNCHANGED <<epoch, nexttid, reservations, rec, freeTids>>
         /\ Moved(t)
         /\ th'[t].pc = "commit" /\ SameSlot(t) /\ SameOp(t) /\ th'[t].hold = th[t].hold
         /\ th'[t].own = th[t].own /\ th'[t].victim = th[t].hold /\ th'[t].list = th[t].list
         /\ th'[t].i = th[t].i /\ th'[t].last = th[t].last /\ th'[t].lowest = th[t].lowest
         /\ th'[t].back = "end"
<1> DEFINE new == [th[t] EXCEPT !.pc = "commit", !.victim = th[t].hold, !.back = "end"]
<1>0. /\ th[t] \in State /\ Shaped(t) /\ th[t].pc = "swap" /\ root = th[t].hold /\ root' = th[t].own
      /\ UNCHANGED <<epoch, nexttid, reservations, rec, freeTids>> /\ Set(t, new)
      /\ th[t].own \in Nodes /\ root \in Nodes
  BY DEF Typed, TypeOK, SwapRootById, At, Shaped
<1>1. new \in State
  BY <1>0 DEF State, PCs
<1>2. Becomes(t, new)
  <2> HIDE DEF new
  <2>2. QED
    BY <1>0, <1>1, SetTo
<1>3. Shaped(t)'
  BY <1>0, <1>2 DEF Becomes, Shaped, Owns, Holds, InEmpty, Nodes, State
<1>4. /\ epoch' \in Nat /\ nexttid' \in Nat /\ freeTids' \in Nodes' \cup {0} /\ root' \in Nodes'
      /\ reservations' \in [0..(MaxTids - 1) -> Nat]
      /\ rec' \in Seq(Header) /\ Len(rec') >= Len(rec)
      /\ \A x \in Nodes' : rec'[x].next \in Nodes' \cup {0}
  BY <1>0 DEF Typed, TypeOK, Nodes
<1>5. Typed'
  <2> HIDE DEF new
  <2>1. QED
    BY <1>2, <1>3, <1>4, KeepsShape
<1>m. /\ Moved(t) /\ th'[t].pc = "commit" /\ SameSlot(t) /\ SameOp(t) /\ th'[t].hold = th[t].hold
      /\ th'[t].own = th[t].own /\ th'[t].victim = th[t].hold /\ th'[t].list = th[t].list
      /\ th'[t].i = th[t].i /\ th'[t].last = th[t].last /\ th'[t].lowest = th[t].lowest
      /\ th'[t].back = "end"
  BY <1>0, <1>2 DEF Becomes, State, Moved, SameSlot, SameOp, SameHand, SameScan
<1>6. QED
  BY <1>m, <1>0, <1>2, <1>5

LEMMA LoseRootMoves ==
  ASSUME Typed, NEW t \in Threads, LoseRootById(t)
  PROVE  /\ Typed' /\ th[t].pc = "swap" /\ th[t].own \in Nodes
         /\ UNCHANGED <<epoch, nexttid, reservations, freeTids, root>>
         /\ Edits(th[t].own, [rec[th[t].own] EXCEPT !.freed = @ + 1])
         /\ Moved(t)
         /\ th'[t].pc = "end" /\ SameSlot(t) /\ SameOp(t) /\ SameHand(t) /\ SameScan(t)
<1> DEFINE x == th[t].own
           f == rec[x].freed + 1
           h == [rec[x] EXCEPT !.freed = f]
           new == [th[t] EXCEPT !.pc = "end"]
<1>0. /\ th[t] \in State /\ Shaped(t) /\ th[t].pc = "swap" /\ x \in Nodes /\ epoch \in Nat
      /\ UNCHANGED <<epoch, nexttid, reservations, freeTids, root>>
      /\ rec' = [rec EXCEPT ![x] = h] /\ Set(t, new)
  BY DEF Typed, TypeOK, LoseRootById, At, Shaped, Goto
<1>b. rec[x] \in Header /\ f \in Nat /\ rec[x].next \in Nodes \cup {0}
  BY <1>0, Headers DEF Header
<1> HIDE DEF x, f
<1>d. h \in Header /\ h.next = rec[x].next
  BY <1>b DEF Header
<1>1. new \in State
  BY <1>0 DEF State, PCs
<1>2. Becomes(t, new)
  <2> HIDE DEF new
  <2>2. QED
    BY <1>0, <1>1, SetTo
<1>3. Edits(x, h) /\ Nodes' = Nodes
  <2> HIDE DEF h
  <2> QED
    BY <1>0, <1>d, EditTo
<1>4. Shaped(t)'
  BY <1>0, <1>2, <1>3 DEF Becomes, Shaped, Owns, Holds, InEmpty, State
<1>5. Typed'
  <2> HIDE DEF new, h
  <2>1. QED
    BY <1>0, <1>2, <1>3, <1>4, <1>b, <1>d, EditKeepsShape
<1>m. /\ Moved(t) /\ th'[t].pc = "end" /\ SameSlot(t) /\ SameOp(t) /\ SameHand(t) /\ SameScan(t)
  BY <1>0, <1>2 DEF Becomes, State, Moved, SameSlot, SameOp, SameHand, SameScan
<1>6. QED
  BY <1>m, <1>0, <1>2, <1>3, <1>5 DEF x, f

LEMMA Push ==
  ASSUME NEW s \in Seq(Nat), NEW v \in Nat
  PROVE  /\ <<v>> \o s \in Seq(Nat) /\ DOMAIN (<<v>> \o s) = 1..(Len(s) + 1)
         /\ Len(s) \in Nat /\ (<<v>> \o s)[1] = v
         /\ \A n \in DOMAIN s : n \in Nat /\ n >= 1 /\ (<<v>> \o s)[n + 1] = s[n]
         /\ \A n \in 2..(Len(s) + 1) : n - 1 \in DOMAIN s /\ (<<v>> \o s)[n] = s[n - 1]
<1>1. <<v>> \in Seq(Nat) /\ Len(<<v>>) = 1 /\ Len(s) \in Nat /\ DOMAIN s = 1..Len(s)
  OBVIOUS
<1>2. /\ <<v>> \o s \in Seq(Nat) /\ Len(<<v>> \o s) = Len(s) + 1
      /\ \A n \in 1..(Len(s) + 1) : (<<v>> \o s)[n] = IF n <= 1 THEN v ELSE s[n - 1]
  BY <1>1
<1>3. DOMAIN (<<v>> \o s) = 1..(Len(s) + 1) /\ (<<v>> \o s)[1] = v
  BY <1>1, <1>2
<1>4. ASSUME NEW n \in DOMAIN s
      PROVE  n \in Nat /\ n >= 1 /\ (<<v>> \o s)[n + 1] = s[n]
  <2>1. n \in Nat /\ n >= 1 /\ n + 1 \in 1..(Len(s) + 1) /\ (n + 1) - 1 = n /\ ~(n + 1 <= 1)
    BY <1>1
  <2>2. QED
    BY <1>2, <2>1
<1>5. ASSUME NEW n \in 2..(Len(s) + 1)
      PROVE  n - 1 \in DOMAIN s /\ (<<v>> \o s)[n] = s[n - 1]
  <2>1. n - 1 \in 1..Len(s) /\ n \in 1..(Len(s) + 1) /\ ~(n <= 1)
    BY <1>1
  <2>2. QED
    BY <1>1, <1>2, <2>1
<1>6. QED
  BY <1>1, <1>2, <1>3, <1>4, <1>5

LEMMA LeastNumber ==
  ASSUME NEW S, S \subseteq Nat, S # {}
  PROVE  Min(S) \in S /\ \A y \in S : Min(S) <= y
<1> DEFINE below == {p \in Nat \X Nat : p[1] < p[2]}
<1>1. PICK x \in S : \A y \in S : ~(<<y, x>> \in below)
  <2>1. IsWellFoundedOn(below, Nat)
    BY NatLessThanWellFounded DEF OpToRel
  <2> HIDE DEF below
  <2> QED BY <2>1, WFMin
<1>2. ASSUME NEW y \in S, ~(x <= y) PROVE FALSE
  <2>1. y \in Nat /\ x \in Nat /\ y < x
    BY <1>2
  <2>2. <<y, x>> \in below
    BY <2>1
  <2>3. QED
    BY <1>1, <2>2
<1>3. QED
  BY <1>2 DEF Min

\* The first cell that may be freed.
LEMMA KeptCells ==
  ASSUME Typed, NEW t \in Threads
  PROVE  /\ Kept(t) \in 0..Len(th[t].list) /\ Len(th[t].list) \in Nat
         /\ Kept(t) < Len(th[t].list) => rec[th[t].list[Kept(t) + 1]].retire < th[t].lowest
         /\ \A n \in 1..Kept(t) : ~(rec[th[t].list[n]].retire < th[t].lowest)
<1> DEFINE list == th[t].list
           old == {n \in DOMAIN list : rec[list[n]].retire < th[t].lowest}
           m == Min(old)
<1>1. list \in Seq(Nat) /\ Len(list) \in Nat /\ DOMAIN list = 1..Len(list)
  BY DEF Typed, TypeOK, State
<1>2. Kept(t) = IF old = {} THEN Len(list) ELSE m - 1
  BY DEF Kept
<1>3. CASE old = {}
  BY <1>1, <1>2, <1>3
<1>4. CASE old # {}
  <2>1. old \subseteq Nat
    BY <1>1
  <2>2. m \in old /\ \A y \in old : m <= y
    <3> HIDE DEF old
    <3> QED BY <1>4, <2>1, LeastNumber
  <2> HIDE DEF m
  <2>3. m \in 1..Len(list) /\ rec[list[m]].retire < th[t].lowest /\ Kept(t) = m - 1
    BY <1>1, <1>2, <1>4, <2>2
  <2>4. \A n \in 1..Len(list) : rec[list[n]].retire < th[t].lowest => m <= n
    BY <1>1, <2>2
  <2> HIDE DEF old, list
  <2>5. Kept(t) \in 0..Len(list) /\ Kept(t) + 1 = m /\ \A n \in 1..Kept(t) : n \in 1..Len(list) /\ ~(m <= n)
    BY <1>1, <2>3
  <2>6. QED
    BY <1>1, <2>3, <2>4, <2>5 DEF list
<1>5. QED
  BY <1>3, <1>4

LEMMA RetireMoves ==
  ASSUME Typed, NEW t \in Threads, Retire(t)
  PROVE  /\ Typed' /\ th[t].pc = "retire" /\ th[t].victim \in Nodes
         /\ UNCHANGED <<epoch, nexttid, reservations, freeTids, root>>
         /\ Edits(th[t].victim, [rec[th[t].victim] EXCEPT !.retire = epoch])
         /\ th'[t].pc \in {"scan", th[t].back} /\ th[t].back \in {"slot", "end", "leave"}
         /\ Moved(t)
         /\ th'[t].pc = (IF th[t].ctr + 1 = RetireFreq THEN "scan" ELSE th[t].back) /\ SameSlot(t)
         /\ SameOp(t) /\ th'[t].hold = th[t].hold /\ th'[t].own = th[t].own /\ th'[t].victim = 0
         /\ th'[t].list = <<th[t].victim>> \o th[t].list /\ th'[t].i = th[t].i
         /\ th'[t].last = th[t].last /\ th'[t].lowest = th[t].lowest /\ th'[t].back = th[t].back
<1> DEFINE x == th[t].victim
           h == [rec[x] EXCEPT !.retire = epoch]
           list == <<x>> \o th[t].list
           ctr == (th[t].ctr + 1) % RetireFreq
           pc == IF th[t].ctr + 1 = RetireFreq THEN "scan" ELSE th[t].back
           new == [th[t] EXCEPT !.list = list, !.victim = 0, !.ctr = ctr, !.pc = pc]
<1>0. /\ th[t] \in State /\ Shaped(t) /\ th[t].pc = "retire" /\ x \in Nodes /\ epoch \in Nat
      /\ UNCHANGED <<epoch, nexttid, reservations, freeTids, root>>
      /\ rec' = [rec EXCEPT ![x] = h] /\ Set(t, new)
  BY DEF Typed, TypeOK, Retire, At, Shaped
<1>a. ctr \in Nat /\ pc \in {"scan", th[t].back} /\ th[t].back \in {"slot", "end", "leave"}
  <2>1. th[t].ctr \in Nat /\ RetireFreq \in Nat \ {0}
    BY <1>0, MMMAssumption DEF State
  <2>2. th[t].back \in {"slot", "end", "leave"}
    BY <1>0 DEF Shaped, State, InEmpty
  <2>3. QED
    BY <2>1, <2>2
<1>b. rec[x] \in Header /\ rec[x].next \in Nodes \cup {0} /\ x \in Nat
  BY <1>0, Headers
<1>c. list \in Seq(Nat) /\ \A n \in DOMAIN list : list[n] \in Nodes
  <2>1. th[t].list \in Seq(Nat) /\ \A n \in DOMAIN th[t].list : th[t].list[n] \in Nodes
    BY <1>0 DEF State, Shaped
  <2>2. \A n \in 1..(Len(th[t].list) + 1) : n = 1 \/ n \in 2..(Len(th[t].list) + 1)
    BY <2>1
  <2>3. QED
    BY <1>0, <1>b, <2>1, <2>2, Push
<1> HIDE DEF x, list, ctr, pc
<1>d. h \in Header /\ h.next = rec[x].next
  BY <1>0, <1>b DEF Header
<1>1. new \in State
  BY <1>0, <1>a, <1>c DEF State, PCs
<1>2. Becomes(t, new)
  <2> HIDE DEF new
  <2>2. QED
    BY <1>0, <1>1, SetTo
<1>3. Edits(x, h) /\ Nodes' = Nodes
  <2> HIDE DEF h
  <2> QED
    BY <1>0, <1>d, EditTo
<1>4. Shaped(t)'
  <2>1. /\ th'[t].pc = pc /\ th'[t].list = list /\ th'[t].hold = th[t].hold /\ th'[t].back = th[t].back
        /\ th'[t].pending = th[t].pending
    BY <1>0, <1>2 DEF Becomes, State
  <2>2. th[t].hold \in Nodes \cup {0} /\ (th[t].back # "end" => th[t].hold = 0)
    BY <1>0 DEF Shaped, Holds, InEmpty
  <2>3. QED
    BY <1>3, <1>a, <1>c, <2>1, <2>2 DEF Shaped, Owns, Holds, InEmpty
<1>5. Typed'
  <2> HIDE DEF new, h
  <2>1. QED
    BY <1>0, <1>2, <1>3, <1>4, <1>b, <1>d, EditKeepsShape
<1>6. th'[t].pc = pc
  BY <1>0, <1>2 DEF Becomes, State
<1>m. /\ Moved(t) /\ th'[t].pc = pc /\ SameSlot(t) /\ SameOp(t) /\ th'[t].hold = th[t].hold
      /\ th'[t].own = th[t].own /\ th'[t].victim = 0 /\ th'[t].list = list /\ th'[t].i = th[t].i
      /\ th'[t].last = th[t].last /\ th'[t].lowest = th[t].lowest /\ th'[t].back = th[t].back
  BY <1>0, <1>2 DEF Becomes, State, Moved, SameSlot, SameOp, SameHand, SameScan
<1>7. QED
  BY <1>m, <1>0, <1>2, <1>3, <1>5, <1>6, <1>a DEF x, list, ctr, pc

LEMMA FreeOldMoves ==
  ASSUME Typed, NEW t \in Threads, FreeOld(t)
  PROVE  /\ Typed' /\ th[t].pc = "slots" /\ th[t].i = th[t].last /\ Gone(t) \subseteq Nodes
         /\ UNCHANGED <<epoch, nexttid, reservations, freeTids, root>>
         /\ Nodes' = Nodes
         /\ \A x \in Gone(t) : rec'[x] = [rec[x] EXCEPT !.freed = @ + 1]
         /\ \A x \in Nodes \ Gone(t) : rec'[x] = rec[x]
         /\ th[t].back \in {"slot", "end", "leave"}
         /\ \A n \in 1..Kept(t) : SubSeq(th[t].list, 1, Kept(t))[n] = th[t].list[n]
         /\ DOMAIN SubSeq(th[t].list, 1, Kept(t)) = 1..Kept(t)
         /\ Moved(t)
         /\ th'[t].pc = th[t].back /\ SameSlot(t) /\ SameOp(t) /\ SameHand(t)
         /\ th'[t].list = SubSeq(th[t].list, 1, Kept(t)) /\ th'[t].i = th[t].i
         /\ th'[t].last = th[t].last /\ th'[t].lowest = th[t].lowest /\ th'[t].back = th[t].back
<1> DEFINE k == Kept(t)
           list == SubSeq(th[t].list, 1, k)
           pc == th[t].back
           new == [th[t] EXCEPT !.list = list, !.pc = pc]
<1>0. /\ th[t] \in State /\ Shaped(t) /\ th[t].pc = "slots" /\ th[t].i = th[t].last
      /\ UNCHANGED <<epoch, nexttid, reservations, freeTids, root>> /\ Set(t, new)
  BY DEF Typed, TypeOK, FreeOld, At
<1>a. pc \in {"slot", "end", "leave"}
  BY <1>0 DEF Shaped, State, InEmpty
<1>b. /\ list \in Seq(Nat) /\ DOMAIN list = 1..k /\ \A n \in 1..k : list[n] = th[t].list[n]
      /\ 1..k \subseteq DOMAIN th[t].list /\ k \in Nat
  <2>1. th[t].list \in Seq(Nat) /\ k \in 0..Len(th[t].list)
    BY <1>0, KeptCells DEF State
  <2> HIDE DEF k
  <2>2. /\ list \in Seq(Nat) /\ Len(list) = k /\ \A n \in 1..k : list[n] = th[t].list[n]
        /\ k \in Nat /\ k <= Len(th[t].list) /\ DOMAIN th[t].list = 1..Len(th[t].list)
    BY <2>1, SubSeqProperties
  <2>3. QED
    BY <2>1, <2>2
<1>c. Gone(t) \subseteq Nodes
  <2>1. th[t].list \in Seq(Nat) /\ k \in 0..Len(th[t].list) /\ Len(th[t].list) \in Nat
    BY <1>0, KeptCells DEF State
  <2>2. (k + 1)..Len(th[t].list) \subseteq DOMAIN th[t].list
    BY <2>1
  <2>3. QED
    BY <1>0, <2>2 DEF Gone, Shaped
<1>d. /\ Nodes' = Nodes /\ Len(rec') >= Len(rec) /\ rec' \in Seq(Header)
      /\ \A x \in Gone(t) : rec'[x] = [rec[x] EXCEPT !.freed = @ + 1]
      /\ \A x \in Nodes \ Gone(t) : rec'[x] = rec[x]
      /\ \A x \in Nodes' : rec'[x].next \in Nodes' \cup {0}
  <2> DEFINE Freed(x) == IF x \in Gone(t) THEN [rec[x] EXCEPT !.freed = @ + 1] ELSE rec[x]
  <2>1. rec \in Seq(Header) /\ DOMAIN rec = Nodes /\ rec' = [x \in DOMAIN rec |-> Freed(x)] /\ Len(rec) \in Nat
    BY DEF Typed, TypeOK, Nodes, FreeOld
  <2>2. \A x \in Nodes : Freed(x) \in Header /\ Freed(x).next \in Nodes \cup {0}
    BY Headers DEF Header
  <2>3. \A x \in Nodes : rec'[x] = Freed(x)
    BY <2>1
  <2>4. rec' \in Seq(Header) /\ Len(rec') = Len(rec)
    <3> HIDE DEF Freed
    <3>1. rec' \in [1..Len(rec) -> Header]
      BY <2>1, <2>2 DEF Nodes
    <3>2. QED
      BY <2>1, <3>1
  <2>5. Nodes' = Nodes /\ Len(rec') >= Len(rec)
    BY <2>1, <2>4 DEF Nodes
  <2>6. QED
    BY <1>c, <2>2, <2>3, <2>4, <2>5
<1> HIDE DEF k, list, pc
<1>1. new \in State
  BY <1>0, <1>a, <1>b DEF State, PCs
<1>2. Becomes(t, new)
  <2> HIDE DEF new
  <2>2. QED
    BY <1>0, <1>1, SetTo
<1>4. Shaped(t)'
  <2>1. /\ th'[t].pc = pc /\ th'[t].list = list /\ th'[t].hold = th[t].hold /\ th'[t].back = th[t].back
        /\ th'[t].pending = th[t].pending
    BY <1>0, <1>2 DEF Becomes, State
  <2>2. /\ th[t].hold \in Nodes \cup {0} /\ (th[t].back # "end" => th[t].hold = 0)
        /\ \A n \in DOMAIN list : list[n] \in Nodes
    BY <1>0, <1>b DEF Shaped, Holds, InEmpty
  <2>3. QED
    BY <1>a, <1>d, <2>1, <2>2 DEF Shaped, Owns, Holds, InEmpty, pc
<1>5. Typed'
  <2>1. /\ epoch' \in Nat /\ nexttid' \in Nat /\ freeTids' \in Nodes' \cup {0} /\ root' \in Nodes'
        /\ reservations' \in [0..(MaxTids - 1) -> Nat]
    BY <1>0, <1>d DEF Typed, TypeOK
  <2> HIDE DEF new
  <2>2. QED
    BY <1>2, <1>4, <1>d, <2>1, KeepsShape
<1>m. /\ Moved(t) /\ th'[t].pc = pc /\ SameSlot(t) /\ SameOp(t) /\ SameHand(t) /\ th'[t].list = list
      /\ th'[t].i = th[t].i /\ th'[t].last = th[t].last /\ th'[t].lowest = th[t].lowest
      /\ th'[t].back = th[t].back
  BY <1>0, <1>2 DEF Becomes, State, Moved, SameSlot, SameOp, SameHand, SameScan
<1>6. QED
  BY <1>m, <1>0, <1>a, <1>b, <1>c, <1>d, <1>2, <1>5 DEF k, list, pc

LEMMA GiveTidMoves ==
  ASSUME Typed, NEW t \in Threads, GiveTidById(t)
  PROVE  /\ Typed' /\ th[t].pc = "give" /\ th[t].own \in Nodes /\ Drained(t)
         /\ freeTids' = th[t].own /\ UNCHANGED <<epoch, nexttid, reservations, root>>
         /\ Edits(th[t].own, [rec[th[t].own] EXCEPT !.next = freeTids])
         /\ Moved(t)
         /\ th'[t].pc = "gone" /\ SameSlot(t) /\ SameOp(t) /\ th'[t].hold = th[t].hold /\ th'[t].own = 0
         /\ th'[t].victim = th[t].victim /\ SameScan(t)
<1> DEFINE x == th[t].own
           h == [rec[x] EXCEPT !.next = freeTids]
           new == [th[t] EXCEPT !.pc = "gone", !.own = 0]
<1>0. /\ th[t] \in State /\ Shaped(t) /\ th[t].pc = "give" /\ x \in Nodes /\ Drained(t)
      /\ freeTids' = x /\ UNCHANGED <<epoch, nexttid, reservations, root>> /\ Set(t, new)
      /\ rec' = [rec EXCEPT ![x] = h] /\ freeTids \in Nodes \cup {0} /\ Len(rec) \in Nat
  BY DEF Typed, TypeOK, GiveTidById, At, Shaped
<1>a. freeTids \in Nat
  BY <1>0 DEF Nodes
<1>b. rec[x] \in Header
  BY <1>0, Headers
<1> HIDE DEF x
<1>d. h \in Header /\ h.next = freeTids
  BY <1>a, <1>b DEF Header
<1>e. Edits(x, h) /\ Nodes' = Nodes
  <2> HIDE DEF h
  <2> QED
    BY <1>0, <1>d, EditTo
<1>1. new \in State
  BY <1>0 DEF State, PCs
<1>2. Becomes(t, new)
  <2> HIDE DEF new
  <2>2. QED
    BY <1>0, <1>1, SetTo
<1>3. Shaped(t)'
  <2>1. /\ th'[t].pc = "gone" /\ th'[t].hold = th[t].hold /\ th'[t].list = th[t].list
        /\ th'[t].pending = th[t].pending
    BY <1>0, <1>2 DEF Becomes, State
  <2>2. /\ th[t].hold = 0 /\ th[t].pending = NotPending
        /\ \A n \in DOMAIN th[t].list : th[t].list[n] \in Nodes'
    BY <1>0, <1>e DEF Shaped, Holds, InEmpty, Drained
  <2>3. QED
    BY <2>1, <2>2 DEF Shaped, Owns, Holds, InEmpty
<1>4. /\ epoch' \in Nat /\ nexttid' \in Nat /\ freeTids' \in Nodes' \cup {0} /\ root' \in Nodes'
      /\ reservations' \in [0..(MaxTids - 1) -> Nat]
  BY <1>0, <1>e DEF Typed, TypeOK
<1>f. rec' \in Seq(Header) /\ Len(rec') >= Len(rec)
  BY <1>0, <1>e DEF Edits
<1>g. \A y \in Nodes' : rec'[y].next \in Nodes' \cup {0}
  BY <1>0, <1>d, <1>e DEF Edits, Typed, TypeOK
<1>5. Typed'
  <2> HIDE DEF new, h
  <2>1. QED
    BY <1>2, <1>3, <1>4, <1>f, <1>g, KeepsShape
<1>m. /\ Moved(t) /\ th'[t].pc = "gone" /\ SameSlot(t) /\ SameOp(t) /\ th'[t].hold = th[t].hold
      /\ th'[t].own = 0 /\ th'[t].victim = th[t].victim /\ SameScan(t)
  BY <1>0, <1>2 DEF Becomes, State, Moved, SameSlot, SameOp, SameHand, SameScan
<1>6. QED
  BY <1>m, <1>0, <1>e, <1>5 DEF x

LEMMA RetryGiveMoves ==
  ASSUME Typed, NEW t \in Threads, RetryGiveById(t)
  PROVE  /\ Typed' /\ th[t].pc = "give" /\ th[t].own \in Nodes
         /\ UNCHANGED <<epoch, nexttid, reservations, freeTids, root, th>>
         /\ Edits(th[t].own, [rec[th[t].own] EXCEPT !.next = freeTids])
         /\ Moved(t)
<1> DEFINE x == th[t].own
           h == [rec[x] EXCEPT !.next = freeTids]
<1>0. /\ th[t] \in State /\ Shaped(t) /\ th[t].pc = "give" /\ x \in Nodes /\ epoch \in Nat
      /\ UNCHANGED <<epoch, nexttid, reservations, freeTids, root, th>>
      /\ rec' = [rec EXCEPT ![x] = h] /\ freeTids \in Nodes \cup {0} /\ Len(rec) \in Nat
      /\ th \in [Threads -> State]
  BY DEF Typed, TypeOK, RetryGiveById, At, Shaped
<1>a. freeTids \in Nat
  BY <1>0 DEF Nodes
<1>b. rec[x] \in Header
  BY <1>0, Headers
<1> HIDE DEF x
<1>d. h \in Header /\ h.next = freeTids
  BY <1>a, <1>b DEF Header
<1>3. Edits(x, h) /\ Nodes' = Nodes
  <2> HIDE DEF h
  <2> QED
    BY <1>0, <1>d, EditTo
<1>4. Becomes(t, th[t]) /\ Shaped(t)'
  BY <1>0, <1>3 DEF Becomes, Shaped, Owns, Holds, InEmpty
<1>5. Typed'
  <2> HIDE DEF h
  <2>1. QED
    BY <1>0, <1>3, <1>4, <1>d, EditKeepsShape
<1>6. QED
  BY <1>0, <1>3, <1>4, <1>5 DEF x, Moved

-----------------------------------------------------------------------------
(* Every record has one owner, and every tid.                              *)

LEMMA OthersKeep ==
  ASSUME NEW t \in Threads, Moved(t), NEW u \in Threads, u # t
  PROVE  /\ th'[u] = th[u] /\ Listed(u)' = Listed(u) /\ Private(u)' = Private(u) /\ Victim(u)' = Victim(u)
         /\ Has(u)' = Has(u) /\ Owns(u)' = Owns(u) /\ Holds(u)' = Holds(u) /\ Reads(u)' = Reads(u)
         /\ Drained(u)' = Drained(u) /\ Target(u)' = Target(u) /\ Committing(u)' = Committing(u)
BY DEF Moved, Listed, Private, Victim, Has, Owns, Holds, Reads, InEmpty, Drained, Target, Committing

LEMMA HasNodes ==
  ASSUME Typed, NEW t \in Threads
  PROVE  /\ Has(t) \subseteq Nodes
         /\ th[t].pc \in {"swap", "give"} => Private(t) = {th[t].own}
         /\ th[t].pc \in {"commit", "committed", "retire"} => Victim(t) = {th[t].victim}
<1>1. Shaped(t)
  BY DEF Typed
<1>2. QED
  BY <1>1 DEF Has, Listed, Private, Victim, Shaped

\* What the step must leave apart, with f the list of free tids after it.
LEMMA ApartStep ==
  ASSUME Typed, NEW free, Apart(free), NEW t \in Threads, Moved(t), NEW f,
         root' \notin f, root' \notin Has(t)', \A u \in Threads : u # t => root' \notin Has(u),
         f \cap Has(t)' = {}, \A u \in Threads : u # t => f \cap Has(u) = {} /\ Has(t)' \cap Has(u) = {},
         Listed(t)' \cap (Private(t)' \cup Victim(t)') = {},
         \A m, n \in DOMAIN th'[t].list : th'[t].list[m] = th'[t].list[n] => m = n,
         \A x \in Has(t)' \cup f \cup {root'} : rec'[x].freed = 0,
         \A u \in Threads : u # t => \A x \in Has(u) : rec'[x].freed = 0,
         \A x \in Nodes' : rec'[x].freed <= 1
  PROVE  Apart(f)'
<1>1. ASSUME NEW u \in Threads
      PROVE  /\ root' \notin Has(u)' /\ f \cap Has(u)' = {}
             /\ Listed(u)' \cap (Private(u)' \cup Victim(u)') = {}
             /\ \A m, n \in DOMAIN th'[u].list : th'[u].list[m] = th'[u].list[n] => m = n
             /\ \A x \in Has(u)' : rec'[x].freed = 0
  <2>1. CASE u = t
    BY <2>1
  <2>2. CASE u # t
    <3>1. /\ th'[u] = th[u] /\ Listed(u)' = Listed(u) /\ Private(u)' = Private(u) /\ Victim(u)' = Victim(u)
          /\ Has(u)' = Has(u)
      BY <2>2, OthersKeep
    <3>2. /\ Listed(u) \cap (Private(u) \cup Victim(u)) = {}
          /\ \A m, n \in DOMAIN th[u].list : th[u].list[m] = th[u].list[n] => m = n
      BY DEF Apart
    <3>3. QED
      BY <2>2, <3>1, <3>2
  <2>3. QED
    BY <2>1, <2>2
<1>2. ASSUME NEW u \in Threads, NEW v \in Threads, u # v PROVE Has(u)' \cap Has(v)' = {}
  <2>1. CASE u = t
    <3>1. Has(v)' = Has(v)
      BY <1>2, <2>1, OthersKeep
    <3>2. QED
      BY <1>2, <2>1, <3>1
  <2>2. CASE v = t
    <3>1. Has(u)' = Has(u)
      BY <1>2, <2>2, OthersKeep
    <3>2. QED
      BY <1>2, <2>2, <3>1
  <2>3. CASE u # t /\ v # t
    <3>1. Has(u)' = Has(u) /\ Has(v)' = Has(v)
      BY <2>3, OthersKeep
    <3>2. QED
      BY <1>2, <3>1 DEF Apart
  <2>4. QED
    BY <2>1, <2>2, <2>3
<1>3. QED
  BY <1>1, <1>2 DEF Apart

\* A step that moves no record.
LEMMA ApartStays ==
  ASSUME Typed, NEW free, Apart(free), NEW t \in Threads, Moved(t),
         Nodes' = Nodes, root' = root, \A x \in Nodes : rec'[x].freed = rec[x].freed, free \subseteq Nodes,
         Private(t)' = Private(t), Victim(t)' = Victim(t), th'[t].list = th[t].list
  PROVE  Apart(free)'
<1>1. Listed(t)' = Listed(t) /\ Has(t)' = Has(t)
  BY DEF Listed, Has
<1>2. /\ root' \notin free /\ root' \notin Has(t)' /\ free \cap Has(t)' = {}
      /\ \A u \in Threads : u # t => root' \notin Has(u)
      /\ \A u \in Threads : u # t => free \cap Has(u) = {} /\ Has(t)' \cap Has(u) = {}
      /\ Listed(t)' \cap (Private(t)' \cup Victim(t)') = {}
      /\ \A m, n \in DOMAIN th'[t].list : th'[t].list[m] = th'[t].list[n] => m = n
  BY <1>1 DEF Apart
<1>3. root \in Nodes /\ \A u \in Threads : Has(u) \subseteq Nodes
  BY HasNodes DEF Typed, TypeOK
<1>4. \A x \in Has(t)' \cup free \cup {root'} : rec'[x].freed = 0
  BY <1>1, <1>3 DEF Apart
<1>5. \A u \in Threads : u # t => \A x \in Has(u) : rec'[x].freed = 0
  BY <1>3 DEF Apart
<1>6. \A x \in Nodes' : rec'[x].freed <= 1
  BY DEF Apart
<1>7. QED
  BY <1>2, <1>4, <1>5, <1>6, ApartStep

\* A step that moves no tid.
LEMMA TidsStay ==
  ASSUME Typed, NEW free, FreeList(free), NEW t \in Threads, Moved(t),
         Nodes \subseteq Nodes', freeTids' = freeTids, nexttid' = nexttid,
         \A x \in free : rec'[x].next = rec[x].next /\ rec'[x].tid = rec[x].tid,
         \A u \in Threads : u # t /\ th[u].pc = "give" => rec'[th[u].own].tid = rec[th[u].own].tid,
         Owns(t)' => Owns(t) /\ th'[t].tid = th[t].tid,
         th'[t].pc = "give" => rec'[th'[t].own].tid = th'[t].tid,
         th'[t].pc \in {"head", "pop", "take"} => th[t].pc \in {"head", "pop", "take"},
         th'[t].pc = "pop" => th'[t].hold = freeTids /\ freeTids # 0,
         th'[t].pc = "take" => /\ th[t].pc = "pop" /\ th'[t].hold = th[t].hold
                               /\ th'[t].below = rec[th[t].hold].next
  PROVE  FreeList(free)'
<1>1. ASSUME NEW u \in Threads
      PROVE  /\ Owns(u)' => Owns(u) /\ th'[u].tid = th[u].tid
             /\ th'[u].pc \in {"head", "pop", "take"} => th[u].pc \in {"head", "pop", "take"}
             /\ th'[u].pc = "give" => rec'[th'[u].own].tid = th'[u].tid
             /\ th'[u].pc \in {"pop", "take"} /\ nexttid <= MaxTids + 1 => th'[u].hold \in free
             /\ th'[u].pc = "take" /\ nexttid <= MaxTids + 1 => th'[u].below = rec'[th'[u].hold].next
  <2>1. CASE u = t
    BY <2>1 DEF FreeList
  <2>2. CASE u # t
    <3>1. th'[u] = th[u] /\ Owns(u)' = Owns(u)
      BY <2>2, OthersKeep
    <3>2. QED
      BY <2>2, <3>1 DEF FreeList
  <2>3. QED
    BY <2>1, <2>2
<1>2. free \subseteq Nodes' /\ freeTids' \in free \cup {0}
  BY DEF FreeList
<1>3. \A x \in free :
       /\ rec'[x].next \in free \cup {0}
       /\ rec'[x].next # 0 => rec'[x].next # freeTids'
       /\ rec'[x].tid < nexttid' /\ rec'[x].tid < MaxTids
       /\ \A y \in free : rec'[x].next = rec'[y].next /\ rec'[x].next # 0 => x = y
       /\ \A y \in free : rec'[x].tid = rec'[y].tid => x = y
       /\ \A u \in Threads : Owns(u)' => th'[u].tid # rec'[x].tid
  BY <1>1 DEF FreeList
<1>4. \A u \in Threads :
       /\ Owns(u)' => th'[u].tid < nexttid' /\ th'[u].tid < MaxTids
       /\ th'[u].pc = "give" => rec'[th'[u].own].tid = th'[u].tid
       /\ th'[u].pc \in {"head", "pop", "take"} => nexttid' > MaxTids
       /\ th'[u].pc \in {"pop", "take"} /\ nexttid' <= MaxTids + 1 => th'[u].hold \in free
       /\ th'[u].pc = "take" /\ nexttid' <= MaxTids + 1 => th'[u].below = rec'[th'[u].hold].next
       /\ \A v \in Threads : u # v /\ th'[u].pc \in {"head", "pop", "take"} /\ th'[v].pc \in {"head", "pop", "take"}
                               => nexttid' > MaxTids + 1
       /\ \A v \in Threads : u # v /\ Owns(u)' /\ Owns(v)' => th'[u].tid # th'[v].tid
  BY <1>1 DEF FreeList
<1>5. QED
  BY <1>2, <1>3, <1>4 DEF FreeList

\* A step that moves neither.
LEMMA OwnedStays ==
  ASSUME Typed, Owned, NEW t \in Threads, Moved(t),
         Nodes' = Nodes, root' = root, freeTids' = freeTids, nexttid' = nexttid,
         \A x \in Nodes : /\ rec'[x].next = rec[x].next /\ rec'[x].tid = rec[x].tid
                          /\ rec'[x].freed = rec[x].freed,
         th'[t].list = th[t].list, th'[t].pc \notin {"swap", "give"}, th[t].pc \notin {"swap", "give"},
         Victim(t)' = Victim(t),
         Owns(t)' => Owns(t) /\ th'[t].tid = th[t].tid,
         th'[t].pc \in {"head", "pop", "take"} => th[t].pc \in {"head", "pop", "take"},
         th'[t].pc = "pop" => th'[t].hold = freeTids /\ freeTids # 0,
         th'[t].pc = "take" => /\ th[t].pc = "pop" /\ th'[t].hold = th[t].hold
                               /\ th'[t].below = rec[th[t].hold].next
  PROVE  Owned'
<1>1. PICK free \in SUBSET Nodes : Apart(free) /\ FreeList(free)
  BY DEF Owned
<1>2. Private(t)' = Private(t)
  BY DEF Private
<1>3. \A u \in Threads : u # t /\ th[u].pc = "give" => rec'[th[u].own].tid = rec[th[u].own].tid
  BY DEF Typed, Shaped
<1>4. Apart(free)'
  BY <1>1, <1>2, ApartStays
<1>5. FreeList(free)'
  BY <1>1, <1>3, TidsStay
<1>6. QED
  BY <1>1, <1>4, <1>5 DEF Owned

\* The steps of the thread itself.
LEMMA LocalOwned ==
  ASSUME Typed, Owned, NEW t \in Threads, Moved(t), Local,
         th'[t].list = th[t].list, th'[t].pc \notin {"swap", "give"}, th[t].pc \notin {"swap", "give"},
         Victim(t)' = Victim(t),
         Owns(t)' => Owns(t) /\ th'[t].tid = th[t].tid,
         th'[t].pc \in {"head", "pop", "take"} => th[t].pc \in {"head", "pop", "take"},
         th'[t].pc = "pop" => th'[t].hold = freeTids /\ freeTids # 0,
         th'[t].pc = "take" => /\ th[t].pc = "pop" /\ th'[t].hold = th[t].hold
                               /\ th'[t].below = rec[th[t].hold].next
  PROVE  Owned'
<1>1. /\ Nodes' = Nodes /\ root' = root /\ freeTids' = freeTids /\ nexttid' = nexttid
      /\ \A x \in Nodes : /\ rec'[x].next = rec[x].next /\ rec'[x].tid = rec[x].tid
                          /\ rec'[x].freed = rec[x].freed
  BY DEF Local, Nodes
<1>2. QED
  BY <1>1, OwnedStays

LEMMA LoadHeadOwned ==
  ASSUME Typed, Owned, NEW t \in Threads, LoadHeadById(t)
  PROVE  Owned'
<1>1. /\ Local /\ Moved(t) /\ th[t].pc \in {"head", "pop", "take"} /\ th'[t].list = th[t].list /\ th'[t].hold = freeTids
      /\ (th'[t].pc = "panic" /\ freeTids = 0) \/ (th'[t].pc = "pop" /\ freeTids # 0)
  BY LoadHeadMoves DEF SameScan
<1>2. QED
  BY <1>1, LocalOwned DEF Victim, Owns

LEMMA ReadBelowOwned ==
  ASSUME Typed, Owned, NEW t \in Threads, ReadBelowById(t)
  PROVE  Owned'
<1>1. /\ Local /\ Moved(t) /\ th[t].pc = "pop" /\ th'[t].pc = "take" /\ th'[t].list = th[t].list
      /\ th'[t].hold = th[t].hold /\ th'[t].below = rec[th[t].hold].next
  BY ReadBelowMoves DEF SameScan, SameHand
<1>2. QED
  BY <1>1, LocalOwned DEF Victim, Owns

LEMMA QuietOwned ==
  ASSUME Typed, Owned, NEW t \in Threads, Moved(t), Local, th'[t].list = th[t].list, th'[t].tid = th[t].tid,
         th'[t].pc \notin {"swap", "give", "head", "pop", "take", "commit", "committed", "retire", "new", "gone", "panic"},
         th[t].pc \notin {"swap", "give", "head", "pop", "take", "commit", "committed", "retire", "new", "gone", "panic"}
  PROVE  Owned'
<1>1. Victim(t)' = Victim(t) /\ Owns(t)
  BY DEF Victim, Owns
<1>2. QED
  BY <1>1, LocalOwned

Quiet(t) ==
  \/ ClearSlot(t) \/ Begin(t) \/ Reserve(t) \/ ReadEpoch(t) \/ EndOp(t)
  \/ SeeEpochById(t) \/ LoadRoot(t) \/ AcceptById(t) \/ OlderById(t) \/ EndView(t)
  \/ BeginScan(t) \/ ScanSlot(t) \/ Leave(t) \/ LeaveScan(t)

LEMMA OpOwned ==
  ASSUME Typed, Owned, NEW t \in Threads, Quiet(t), OlderById(t) => th[t].hold \in Nodes
  PROVE  Owned' /\ Typed'
<1>0. Shaped(t) /\ th[t] \in State
  BY DEF Typed, TypeOK
<1>3. CASE ClearSlot(t)
  BY <1>3, ClearSlotMoves, QuietOwned DEF SameScan
<1>4. CASE Begin(t)
  BY <1>4, BeginMoves, QuietOwned DEF SameScan, SameSlot
<1>5. CASE Reserve(t)
  BY <1>5, ReserveMoves, QuietOwned DEF SameScan
<1>6. CASE ReadEpoch(t)
  BY <1>6, ReadEpochMoves, QuietOwned DEF SameScan, SameSlot
<1>7. CASE EndOp(t)
  BY <1>7, EndOpMoves, QuietOwned DEF SameScan
<1>8. CASE SeeEpochById(t)
  <2>1. th[t].then \in {"older", "link"}
    BY <1>0, <1>8, SeeEpochMoves DEF Shaped, State
  <2>2. QED
    BY <1>8, <2>1, SeeEpochMoves, QuietOwned DEF SameScan, SameSlot
<1>9. CASE LoadRoot(t)
  BY <1>9, LoadRootMoves, QuietOwned DEF SameScan, SameSlot
<1>10. CASE AcceptById(t)
  BY <1>10, AcceptMoves, QuietOwned DEF SameScan, SameSlot
<1>11. CASE OlderById(t)
  BY <1>11, OlderMoves, QuietOwned DEF SameScan, SameSlot
<1>12. CASE EndView(t)
  BY <1>12, EndViewMoves, QuietOwned DEF SameScan, SameSlot
<1>13. CASE BeginScan(t)
  BY <1>13, BeginScanMoves, QuietOwned DEF SameSlot
<1>14. CASE ScanSlot(t)
  <2>1. th[t].tid < MaxTids
    BY <1>14 DEF ScanSlot, At, Owned, FreeList, Owns
  <2>2. QED
    BY <1>14, <2>1, ScanSlotMoves, QuietOwned DEF SameSlot
<1>15. CASE Leave(t)
  BY <1>15, LeaveMoves, QuietOwned
<1>16. CASE LeaveScan(t)
  BY <1>16, LeaveScanMoves, QuietOwned DEF SameScan, SameSlot
<1>17. QED
  BY <1>3, <1>4, <1>5, <1>6, <1>7, <1>8, <1>9, <1>10, <1>11, <1>12, <1>13, <1>14, <1>15, <1>16 DEF Quiet

LEMMA NewEpochOwned ==
  ASSUME Typed, Owned, NEW t \in Threads, NewEpoch(t)
  PROVE  Owned'
<1>1. /\ UNCHANGED <<nexttid, reservations, rec, freeTids, root>> /\ Moved(t)
      /\ th'[t].list = th[t].list /\ th'[t].tid = th[t].tid /\ th'[t].victim = th[t].victim
      /\ (th[t].pc = "help" /\ th'[t].pc = "helped") \/ (th[t].pc = "commit" /\ th'[t].pc = "committed")
  BY NewEpochMoves DEF SameScan, SameSlot, SameHand
<1>2. /\ Nodes' = Nodes
      /\ \A x \in Nodes : /\ rec'[x].next = rec[x].next /\ rec'[x].tid = rec[x].tid
                          /\ rec'[x].freed = rec[x].freed
  BY <1>1 DEF Nodes
<1>3. Victim(t)' = Victim(t) /\ Owns(t)
  BY <1>1 DEF Victim, Owns
<1>4. QED
  BY <1>1, <1>2, <1>3, OwnedStays

LEMMA StoreEpochOwned ==
  ASSUME Typed, Owned, NEW t \in Threads, StoreEpochById(t), Target(t) \in Nodes
  PROVE  Owned'
<1>0. th[t] \in State /\ Shaped(t)
  BY DEF Typed, TypeOK
<1>1. /\ UNCHANGED <<epoch, nexttid, reservations, freeTids, root>> /\ Moved(t)
      /\ Edits(Target(t), [rec[Target(t)] EXCEPT !.write = IF @ = 0 THEN th[t].saw ELSE @])
      /\ th'[t].list = th[t].list /\ th'[t].tid = th[t].tid /\ th'[t].victim = th[t].victim
      /\ (th[t].pc = "helped" /\ th'[t].pc = th[t].then) \/ (th[t].pc = "committed" /\ th'[t].pc = "retire")
  BY StoreEpochMoves DEF SameScan, SameSlot, SameHand
<1>2. th[t].pc = "helped" => th[t].then \in {"older", "link"}
  BY <1>0 DEF Shaped, State
<1>4. /\ Nodes' = Nodes
      /\ \A x \in Nodes : /\ rec'[x].next = rec[x].next /\ rec'[x].tid = rec[x].tid
                          /\ rec'[x].freed = rec[x].freed
  <2>1. rec[Target(t)] \in Header
    BY Headers
  <2>2. QED
    BY <1>1, <2>1 DEF Nodes, Edits, Header
<1>5. Victim(t)' = Victim(t) /\ Owns(t)
  BY <1>1, <1>2 DEF Victim, Owns
<1>6. QED
  BY <1>1, <1>2, <1>4, <1>5, OwnedStays

LEMMA FlushOwned ==
  ASSUME Typed, Owned, NEW t \in Threads, Flush(t)
  PROVE  Owned' /\ Typed' /\ th[t].tid < MaxTids
<1>0. Owns(t)
  BY DEF Typed, Shaped, Flush, Drained
<1>1. th[t].tid < MaxTids
  BY <1>0 DEF Owned, FreeList
<1>2. /\ UNCHANGED <<epoch, nexttid, rec, freeTids, root>> /\ Typed' /\ Moved(t)
      /\ th'[t].list = th[t].list /\ th'[t].tid = th[t].tid /\ th'[t].victim = th[t].victim
      /\ th'[t].pc = th[t].pc /\ th'[t].own = th[t].own
  BY <1>1, FlushMoves DEF SameScan, SameHand
<1>5. PICK free \in SUBSET Nodes : Apart(free) /\ FreeList(free)
  BY DEF Owned
<1>6. Apart(free)'
  <2>1. Private(t)' = Private(t) /\ Victim(t)' = Victim(t) /\ Nodes' = Nodes
    BY <1>2 DEF Private, Victim, Nodes
  <2>2. QED
    BY <1>2, <1>5, <2>1, ApartStays
<1>7. FreeList(free)'
  <2>1. Nodes' = Nodes /\ th[t].pc \notin {"head", "pop", "take"}
    BY <1>0, <1>2 DEF Nodes, Owns
  <2>2. th'[t].pc = "give" => rec'[th'[t].own].tid = th'[t].tid
    BY <1>2, <1>5 DEF FreeList
  <2>3. QED
    BY <1>0, <1>2, <1>5, <2>1, <2>2, TidsStay
<1>8. QED
  BY <1>1, <1>2, <1>5, <1>6, <1>7 DEF Owned, Nodes

LEMMA NewTidOwned ==
  ASSUME Typed, Owned, NEW t \in Threads, NewTid(t)
  PROVE  Owned'
<1>1. /\ UNCHANGED <<epoch, reservations, rec, freeTids, root>> /\ Moved(t) /\ nexttid' = nexttid + 1
      /\ th[t].pc = "new" /\ th'[t].list = th[t].list
      /\ \/ nexttid < MaxTids /\ th'[t].pc = "slot" /\ th'[t].tid = nexttid
         \/ nexttid >= MaxTids /\ th'[t].pc = "head"
  BY NewTidMoves DEF SameScan
<1>2. PICK free \in SUBSET Nodes : Apart(free) /\ FreeList(free)
  BY DEF Owned
<1>3. Nodes' = Nodes /\ nexttid \in Nat /\ MaxTids \in Nat
  BY <1>1, Numbers DEF Nodes, Typed, TypeOK
<1>4. Apart(free)'
  <2>1. Private(t)' = Private(t) /\ Victim(t)' = Victim(t)
    BY <1>1 DEF Private, Victim
  <2>2. QED
    BY <1>1, <1>2, <1>3, <2>1, ApartStays
<1>5. \A u \in Threads : u # t => th'[u] = th[u] /\ Owns(u)' = Owns(u)
  BY <1>1, OthersKeep
<1>6. ASSUME NEW x \in free
      PROVE  /\ rec[x].tid < nexttid' /\ rec[x].tid \in Nat
             /\ \A u \in Threads : Owns(u)' => th'[u].tid # rec[x].tid
  <2>1. rec[x].tid \in Nat /\ rec[x].tid < nexttid
    BY <1>2, Headers DEF Header, FreeList
  <2>2. ASSUME NEW u \in Threads, Owns(u)' PROVE th'[u].tid # rec[x].tid
    <3>1. CASE u = t
      BY <1>1, <1>3, <2>1, <2>2, <3>1 DEF Owns
    <3>2. CASE u # t
      BY <1>2, <1>5, <2>2, <3>2 DEF FreeList
    <3>3. QED
      BY <3>1, <3>2
  <2>3. QED
    BY <1>1, <1>3, <2>1, <2>2
<1>7. ASSUME NEW u \in Threads
      PROVE  /\ Owns(u)' => th'[u].tid < nexttid' /\ th'[u].tid < MaxTids
             /\ th'[u].pc = "give" => rec'[th'[u].own].tid = th'[u].tid
             /\ th'[u].pc \in {"head", "pop", "take"} => nexttid' > MaxTids
             /\ th'[u].pc \in {"pop", "take"} /\ nexttid' <= MaxTids + 1 => th'[u].hold \in free
             /\ th'[u].pc = "take" /\ nexttid' <= MaxTids + 1 => th'[u].below = rec'[th'[u].hold].next
  <2>1. CASE u = t
    BY <1>1, <1>3, <2>1 DEF Owns
  <2>2. CASE u # t
    <3>1. th'[u] = th[u] /\ Owns(u)' = Owns(u) /\ th[u].tid \in Nat
      BY <1>5, <2>2 DEF Typed, TypeOK, State
    <3>2. QED
      BY <1>1, <1>2, <1>3, <3>1 DEF FreeList
  <2>3. QED
    BY <2>1, <2>2
<1>8. ASSUME NEW u \in Threads, NEW v \in Threads, u # v
      PROVE  /\ th'[u].pc \in {"head", "pop", "take"} /\ th'[v].pc \in {"head", "pop", "take"} => nexttid' > MaxTids + 1
             /\ Owns(u)' /\ Owns(v)' => th'[u].tid # th'[v].tid
  <2>0. ASSUME NEW w \in Threads, w # t
        PROVE  /\ th'[w] = th[w] /\ Owns(w)' = Owns(w) /\ th[w].tid \in Nat
               /\ th[w].pc \in {"head", "pop", "take"} => nexttid > MaxTids
               /\ Owns(w) => th[w].tid < nexttid
    BY <1>2, <1>5, <2>0 DEF FreeList, Typed, TypeOK, State
  <2>1. CASE u = t
    BY <1>1, <1>3, <1>8, <2>0, <2>1 DEF Owns
  <2>2. CASE v = t
    BY <1>1, <1>3, <1>8, <2>0, <2>2 DEF Owns
  <2>3. CASE u # t /\ v # t
    <3>1. th'[u] = th[u] /\ th'[v] = th[v] /\ Owns(u)' = Owns(u) /\ Owns(v)' = Owns(v)
      BY <1>5, <2>3
    <3>2. /\ th[u].pc \in {"head", "pop", "take"} /\ th[v].pc \in {"head", "pop", "take"} => nexttid > MaxTids + 1
          /\ Owns(u) /\ Owns(v) => th[u].tid # th[v].tid
      BY <1>2, <1>8 DEF FreeList
    <3>3. QED
      BY <1>1, <1>3, <3>1, <3>2
  <2>4. QED
    BY <2>1, <2>2, <2>3
<1>9. FreeList(free)'
  <2>1. free \subseteq Nodes' /\ freeTids' \in free \cup {0}
    BY <1>1, <1>2, <1>3 DEF FreeList
  <2>2. \A x \in free :
       /\ rec'[x].next \in free \cup {0}
       /\ rec'[x].next # 0 => rec'[x].next # freeTids'
       /\ rec'[x].tid < nexttid' /\ rec'[x].tid < MaxTids
       /\ \A y \in free : rec'[x].next = rec'[y].next /\ rec'[x].next # 0 => x = y
       /\ \A y \in free : rec'[x].tid = rec'[y].tid => x = y
       /\ \A u \in Threads : Owns(u)' => th'[u].tid # rec'[x].tid
    BY <1>1, <1>2, <1>6 DEF FreeList
  <2>3. QED
    BY <1>7, <1>8, <2>1, <2>2 DEF FreeList
<1>10. QED
  BY <1>2, <1>3, <1>4, <1>9 DEF Owned

\* A node leaves the list of free tids: its tid is the thread's now.
LEMMA PopTidOwned ==
  ASSUME Typed, Owned, NEW t \in Threads, PopTidById(t)
  PROVE  Owned'
<1>1. PICK x : /\ x = th[t].hold
      /\ UNCHANGED <<epoch, nexttid, reservations, rec, root>> /\ Moved(t)
      /\ th[t].pc = "take" /\ x \in Nodes /\ freeTids = x /\ freeTids' = rec[x].next
      /\ th'[t].pc = "retire" /\ th'[t].victim = x /\ th'[t].tid = rec[x].tid /\ th'[t].list = th[t].list
  BY PopTidMoves DEF SameScan
<1>2. PICK free \in SUBSET Nodes : Apart(free) /\ FreeList(free)
  BY DEF Owned
<1>f. PICK f : f = free \ {x}
  OBVIOUS
<1>3. /\ Nodes' = Nodes /\ nexttid \in Nat /\ MaxTids \in Nat /\ f \subseteq Nodes /\ x # 0
      /\ x \in free
  BY <1>1, <1>2, <1>f, Numbers, Headers DEF Nodes, Typed, TypeOK, FreeList
<1>4. Apart(f)'
  <2>1. /\ Private(t) = {} /\ Victim(t) = {} /\ Private(t)' = {} /\ Victim(t)' = {x}
        /\ Listed(t)' = Listed(t) /\ Has(t)' = Has(t) \cup {x}
    BY <1>1 DEF Private, Victim, Listed, Has
  <2>2. \A u \in Threads : x \notin Has(u) /\ root \notin Has(u) /\ f \cap Has(u) = {}
    BY <1>2, <1>3, <1>f DEF Apart
  <2>3. root' \notin f /\ root' \notin Has(t)' /\ f \cap Has(t)' = {}
    BY <1>1, <1>2, <1>3, <1>f, <2>1, <2>2 DEF Apart
  <2>4. Listed(t)' \cap (Private(t)' \cup Victim(t)') = {}
    BY <2>1, <2>2 DEF Has
  <2>5. \A u \in Threads : u # t => Has(t)' \cap Has(u) = {}
    BY <1>2, <2>1, <2>2 DEF Apart
  <2>6. \A m, n \in DOMAIN th'[t].list : th'[t].list[m] = th'[t].list[n] => m = n
    BY <1>1, <1>2 DEF Apart
  <2>7. /\ \A y \in Has(t)' \cup f \cup {root'} : rec'[y].freed = 0
        /\ \A u \in Threads : u # t => \A y \in Has(u) : rec'[y].freed = 0
        /\ \A y \in Nodes' : rec'[y].freed <= 1
    BY <1>1, <1>2, <1>3, <1>f, <2>1 DEF Apart
  <2>8. QED
    BY <1>1, <1>2, <2>2, <2>3, <2>4, <2>5, <2>6, <2>7, ApartStep
<1>5. \A u \in Threads : u # t => th'[u] = th[u] /\ Owns(u)' = Owns(u)
  BY <1>1, OthersKeep
<1>6. Owns(t)' /\ ~Owns(t)
  BY <1>1 DEF Owns
<1>7. \A y \in f :
       /\ rec'[y].next \in f \cup {0}
       /\ rec'[y].next # 0 => rec'[y].next # freeTids'
       /\ rec'[y].tid < nexttid' /\ rec'[y].tid < MaxTids
       /\ \A z \in f : rec'[y].next = rec'[z].next /\ rec'[y].next # 0 => y = z
       /\ \A z \in f : rec'[y].tid = rec'[z].tid => y = z
  BY <1>1, <1>2, <1>3, <1>f DEF FreeList
<1>8. \A y \in f, u \in Threads : Owns(u)' => th'[u].tid # rec'[y].tid
  BY <1>1, <1>2, <1>3, <1>5, <1>6, <1>f DEF FreeList
<1>9. f \subseteq Nodes' /\ freeTids' \in f \cup {0}
  BY <1>1, <1>2, <1>3, <1>f DEF FreeList
<1>10. ASSUME NEW u \in Threads
       PROVE  /\ Owns(u)' => th'[u].tid < nexttid' /\ th'[u].tid < MaxTids
              /\ th'[u].pc = "give" => rec'[th'[u].own].tid = th'[u].tid
              /\ th'[u].pc \in {"head", "pop", "take"} => nexttid' > MaxTids
              /\ th'[u].pc \in {"pop", "take"} /\ nexttid' <= MaxTids + 1 => th'[u].hold \in f
              /\ th'[u].pc = "take" /\ nexttid' <= MaxTids + 1 => th'[u].below = rec'[th'[u].hold].next
  <2>1. CASE u = t
    BY <1>1, <1>2, <1>3, <1>f, <2>1 DEF FreeList
  <2>2. CASE u # t
    <3>1. th[u].pc \in {"pop", "take"} => nexttid > MaxTids + 1
      BY <1>1, <1>2, <2>2 DEF FreeList
    <3>2. ~(th[u].pc \in {"pop", "take"} /\ nexttid <= MaxTids + 1)
      BY <1>3, <3>1
    <3>3. QED
      BY <1>1, <1>2, <1>5, <2>2, <3>2 DEF FreeList
  <2>3. QED
    BY <2>1, <2>2
<1>11. ASSUME NEW u \in Threads, NEW v \in Threads, u # v
       PROVE  /\ th'[u].pc \in {"head", "pop", "take"} /\ th'[v].pc \in {"head", "pop", "take"} => nexttid' > MaxTids + 1
              /\ Owns(u)' /\ Owns(v)' => th'[u].tid # th'[v].tid
  BY <1>1, <1>2, <1>3, <1>5, <1>6, <1>11 DEF FreeList
<1>12. FreeList(f)'
  <2> QED BY <1>7, <1>8, <1>9, <1>10, <1>11 DEF FreeList
<1>13. QED
  BY <1>3, <1>4, <1>12 DEF Owned

\* A new record is private to the thread that made it.
LEMMA AddOwned ==
  ASSUME Typed, Owned, NEW t \in Threads, Moved(t), NEW h, Adds(h), h.freed = 0,
         UNCHANGED <<nexttid, freeTids, root>>, th'[t].list = th[t].list, th'[t].tid = th[t].tid,
         th'[t].own = Len(rec) + 1,
         \/ th[t].pc = "link" /\ th'[t].pc = "swap"
         \/ th[t].pc = "leave" /\ th'[t].pc = "give" /\ h.tid = th[t].tid
  PROVE  Owned'
<1> DEFINE x == Len(rec) + 1
<1>1. PICK free \in SUBSET Nodes : Apart(free) /\ FreeList(free)
  BY DEF Owned
<1>2. /\ Nodes' = Nodes \cup {x} /\ x \notin Nodes /\ rec'[x] = h
      /\ \A y \in Nodes : rec'[y] = rec[y]
  BY DEF Adds
<1>3. root \in Nodes /\ \A u \in Threads : Has(u) \subseteq Nodes
  BY HasNodes DEF Typed, TypeOK
<1>4. Apart(free)'
  <2> HIDE DEF x
  <2>1. /\ Private(t) = {} /\ Victim(t) = {} /\ Private(t)' = {x} /\ Victim(t)' = {}
        /\ Listed(t)' = Listed(t) /\ Has(t)' = Has(t) \cup {x}
    BY DEF Private, Victim, Listed, Has, x
  <2>2. \A u \in Threads : x \notin Has(u) /\ root \notin Has(u) /\ free \cap Has(u) = {}
    BY <1>1, <1>2, <1>3 DEF Apart
  <2>3. root' \notin free /\ root' \notin Has(t)' /\ free \cap Has(t)' = {}
    BY <1>1, <1>2, <1>3, <2>1, <2>2 DEF Apart
  <2>4. Listed(t)' \cap (Private(t)' \cup Victim(t)') = {}
    BY <2>1, <2>2 DEF Has
  <2>5. \A u \in Threads : u # t => Has(t)' \cap Has(u) = {}
    BY <1>1, <2>1, <2>2 DEF Apart
  <2>6. \A m, n \in DOMAIN th'[t].list : th'[t].list[m] = th'[t].list[n] => m = n
    BY <1>1 DEF Apart
  <2>7. /\ \A y \in Has(t)' \cup free \cup {root'} : rec'[y].freed = 0
        /\ \A u \in Threads : u # t => \A y \in Has(u) : rec'[y].freed = 0
    BY <1>1, <1>2, <1>3, <2>1 DEF Apart
  <2>8. \A y \in Nodes' : rec'[y].freed <= 1
    BY <1>1, <1>2 DEF Apart
  <2>9. QED
    BY <1>1, <2>2, <2>3, <2>4, <2>5, <2>6, <2>7, <2>8, ApartStep
<1>5. FreeList(free)'
  <2> HIDE DEF x
  <2>1. /\ Nodes \subseteq Nodes' /\ \A y \in free : rec'[y].next = rec[y].next /\ rec'[y].tid = rec[y].tid
        /\ \A u \in Threads : u # t /\ th[u].pc = "give" => rec'[th[u].own].tid = rec[th[u].own].tid
    BY <1>1, <1>2 DEF Typed, Shaped
  <2>2. Owns(t) /\ (th'[t].pc = "give" => rec'[th'[t].own].tid = th'[t].tid)
    BY <1>2 DEF Owns, x
  <2>3. QED
    BY <1>1, <2>1, <2>2, TidsStay
<1>6. QED
  BY <1>1, <1>2, <1>4, <1>5 DEF Owned

LEMMA LinkOwned ==
  ASSUME Typed, Owned, NEW t \in Threads, Link(t)
  PROVE  Owned'
<1>1. PICK a : Adds(Fresh(th[t].hold, 0, a))
  BY LinkMoves DEF AddsFresh
<1>2. Fresh(th[t].hold, 0, a).freed = 0
  BY DEF Fresh
<1>3. QED
  BY <1>1, <1>2, LinkMoves, AddOwned DEF SameScan, SameSlot

LEMMA NewNodeOwned ==
  ASSUME Typed, Owned, NEW t \in Threads, NewNode(t)
  PROVE  Owned'
<1>1. PICK a : Adds(Fresh(freeTids, th[t].tid, a))
  BY NewNodeMoves DEF AddsFresh
<1>2. Fresh(freeTids, th[t].tid, a).freed = 0 /\ Fresh(freeTids, th[t].tid, a).tid = th[t].tid
  BY DEF Fresh
<1>3. QED
  BY <1>1, <1>2, NewNodeMoves, AddOwned DEF SameScan, SameSlot

\* The record the thread made becomes the newest; the newest becomes its victim.
LEMMA SwapRootOwned ==
  ASSUME Typed, Owned, NEW t \in Threads, SwapRootById(t)
  PROVE  Owned'
<1> DEFINE x == th[t].own
<1>1. /\ UNCHANGED <<epoch, nexttid, reservations, rec, freeTids>> /\ Moved(t)
      /\ th[t].pc = "swap" /\ root = th[t].hold /\ root' = x /\ th'[t].pc = "commit" /\ th'[t].victim = root
      /\ th'[t].list = th[t].list /\ th'[t].tid = th[t].tid
  BY SwapRootMoves DEF SameSlot
<1>2. PICK free \in SUBSET Nodes : Apart(free) /\ FreeList(free)
  BY DEF Owned
<1>3. Nodes' = Nodes
  BY <1>1 DEF Nodes
<1>4. Apart(free)'
  <2>1. /\ Private(t) = {x} /\ Victim(t) = {} /\ Private(t)' = {} /\ Victim(t)' = {root}
        /\ Listed(t)' = Listed(t) /\ Has(t)' = Listed(t) \cup {root} /\ Has(t) = Listed(t) \cup {x}
    BY <1>1 DEF Private, Victim, Listed, Has
  <2>2. x \notin free /\ x # root /\ x \notin Listed(t) /\ root \notin Listed(t)
    BY <1>2, <2>1 DEF Apart
  <2>3. \A u \in Threads : u # t => x \notin Has(u) /\ root \notin Has(u)
    BY <1>2, <2>1 DEF Apart
  <2>4. /\ root' \notin free /\ root' \notin Has(t)' /\ \A u \in Threads : u # t => root' \notin Has(u)
        /\ free \cap Has(t)' = {} /\ Listed(t)' \cap (Private(t)' \cup Victim(t)') = {}
    BY <1>1, <1>2, <2>1, <2>2, <2>3 DEF Apart
  <2>5. \A u \in Threads : u # t => free \cap Has(u) = {} /\ Has(t)' \cap Has(u) = {}
    BY <1>2, <2>1, <2>3 DEF Apart
  <2>6. \A m, n \in DOMAIN th'[t].list : th'[t].list[m] = th'[t].list[n] => m = n
    BY <1>1, <1>2 DEF Apart
  <2>7. /\ \A y \in Has(t)' \cup free \cup {root'} : rec'[y].freed = 0
        /\ \A u \in Threads : u # t => \A y \in Has(u) : rec'[y].freed = 0
        /\ \A y \in Nodes' : rec'[y].freed <= 1
    BY <1>1, <1>2, <1>3, <2>1 DEF Apart
  <2> HIDE DEF x
  <2>8. QED
    BY <1>1, <1>2, <2>4, <2>5, <2>6, <2>7, ApartStep
<1>5. FreeList(free)'
  <2>1. Owns(t)
    BY <1>1 DEF Owns
  <2>2. QED
    BY <1>1, <1>2, <1>3, <2>1, TidsStay
<1>6. QED
  BY <1>2, <1>3, <1>4, <1>5 DEF Owned

\* A record that is freed leaves the thread that had it.
LEMMA FreeOwned ==
  ASSUME Typed, Owned, NEW t \in Threads, Moved(t), Nodes' = Nodes,
         UNCHANGED <<nexttid, freeTids, root>>, th'[t].tid = th[t].tid,
         NEW gone, gone \subseteq Has(t), Has(t)' \subseteq Has(t) \ gone,
         \A x \in Nodes : /\ rec'[x].next = rec[x].next /\ rec'[x].tid = rec[x].tid
                          /\ rec'[x].freed = IF x \in gone THEN rec[x].freed + 1 ELSE rec[x].freed,
         Private(t)' = {}, Victim(t)' = {},
         \A m, n \in DOMAIN th'[t].list : th'[t].list[m] = th'[t].list[n] => m = n,
         Owns(t), th'[t].pc \notin {"give", "head", "pop", "take"}
  PROVE  Owned'
<1>1. PICK free \in SUBSET Nodes : Apart(free) /\ FreeList(free)
  BY DEF Owned
<1>2. root \in Nodes /\ \A u \in Threads : Has(u) \subseteq Nodes
  BY HasNodes DEF Typed, TypeOK
<1>3. Apart(free)'
  <2>1. /\ root' \notin free /\ root' \notin Has(t)' /\ free \cap Has(t)' = {}
        /\ \A u \in Threads : u # t => root' \notin Has(u)
        /\ Listed(t)' \cap (Private(t)' \cup Victim(t)') = {}
    BY <1>1 DEF Apart
  <2>2. \A u \in Threads : u # t => free \cap Has(u) = {} /\ Has(t)' \cap Has(u) = {} /\ gone \cap Has(u) = {}
    BY <1>1 DEF Apart
  <2>3. gone \cap (free \cup {root}) = {}
    BY <1>1 DEF Apart
  <2>4. /\ \A y \in Has(t)' \cup free \cup {root'} : rec'[y].freed = 0
        /\ \A u \in Threads : u # t => \A y \in Has(u) : rec'[y].freed = 0
    BY <1>1, <1>2, <2>2, <2>3 DEF Apart
  <2>5. \A y \in Nodes' : rec'[y].freed <= 1
    BY <1>1 DEF Apart
  <2>6. QED
    BY <1>1, <2>1, <2>2, <2>4, <2>5, ApartStep
<1>4. FreeList(free)'
  <2>1. \A u \in Threads : u # t /\ th[u].pc = "give" => rec'[th[u].own].tid = rec[th[u].own].tid
    BY DEF Typed, Shaped
  <2>2. QED
    BY <1>1, <2>1, TidsStay
<1>5. QED
  BY <1>1, <1>3, <1>4 DEF Owned

LEMMA LoseRootOwned ==
  ASSUME Typed, Owned, NEW t \in Threads, LoseRootById(t)
  PROVE  Owned'
<1> DEFINE x == th[t].own
<1>1. /\ UNCHANGED <<epoch, nexttid, reservations, freeTids, root>> /\ Moved(t)
      /\ Edits(x, [rec[x] EXCEPT !.freed = @ + 1]) /\ x \in Nodes
      /\ th[t].pc = "swap" /\ th'[t].pc = "end" /\ th'[t].list = th[t].list /\ th'[t].tid = th[t].tid
  BY LoseRootMoves DEF SameScan, SameSlot
<1>2. /\ Private(t) = {x} /\ Private(t)' = {} /\ Victim(t) = {} /\ Victim(t)' = {} /\ Listed(t)' = Listed(t)
      /\ Owns(t)
  BY <1>1 DEF Private, Victim, Listed, Owns
<1>3. x \notin Listed(t) /\ \A m, n \in DOMAIN th'[t].list : th'[t].list[m] = th'[t].list[n] => m = n
  BY <1>1, <1>2 DEF Owned, Apart
<1>4. {x} \subseteq Has(t) /\ Has(t)' \subseteq Has(t) \ {x}
  BY <1>2, <1>3 DEF Has
<1>5. \A y \in Nodes : /\ rec'[y].next = rec[y].next /\ rec'[y].tid = rec[y].tid
                       /\ rec'[y].freed = IF y \in {x} THEN rec[y].freed + 1 ELSE rec[y].freed
  <2>1. rec[x] \in Header
    BY <1>1, Headers
  <2>2. QED
    BY <1>1, <2>1 DEF Edits, Header
<1>6. Nodes' = Nodes
  BY <1>1 DEF Edits, Nodes
<1> HIDE DEF x
<1>7. QED
  BY <1>1, <1>2, <1>3, <1>4, <1>5, <1>6, FreeOwned

LEMMA FreeOldOwned ==
  ASSUME Typed, Owned, NEW t \in Threads, FreeOld(t)
  PROVE  Owned'
<1> DEFINE k == Kept(t)
           list == SubSeq(th[t].list, 1, k)
<1>0. th[t].list \in Seq(Nat) /\ DOMAIN th[t].list = 1..Len(th[t].list)
  BY DEF Typed, TypeOK, State
<1>1. /\ UNCHANGED <<epoch, nexttid, reservations, freeTids, root>> /\ Moved(t) /\ Nodes' = Nodes
      /\ Gone(t) \subseteq Nodes
      /\ \A x \in Gone(t) : rec'[x] = [rec[x] EXCEPT !.freed = @ + 1]
      /\ \A x \in Nodes \ Gone(t) : rec'[x] = rec[x]
      /\ th[t].pc = "slots" /\ th'[t].pc \in {"slot", "end", "leave"} /\ th'[t].list = list
      /\ th'[t].tid = th[t].tid /\ DOMAIN list = 1..k /\ \A n \in 1..k : list[n] = th[t].list[n]
  BY FreeOldMoves DEF SameSlot
<1>2. k \in 0..Len(th[t].list) /\ Len(th[t].list) \in Nat /\ Gone(t) = {th[t].list[n] : n \in (k + 1)..Len(th[t].list)}
  BY KeptCells DEF Gone
<1>3. \A m, n \in DOMAIN th[t].list : th[t].list[m] = th[t].list[n] => m = n
  BY DEF Owned, Apart
<1> HIDE DEF k, list
<1>4. 1..k \subseteq DOMAIN th[t].list /\ (k + 1)..Len(th[t].list) \subseteq DOMAIN th[t].list
  BY <1>0, <1>2
<1>5. \A m \in 1..k, n \in (k + 1)..Len(th[t].list) : m # n
  BY <1>2
<1>6. Private(t)' = {} /\ Victim(t)' = {} /\ Private(t) = {} /\ Victim(t) = {} /\ Owns(t)
  BY <1>1 DEF Private, Victim, Owns
<1>7. Listed(t)' = {th[t].list[n] : n \in 1..k}
  BY <1>1 DEF Listed
<1>8. Gone(t) \subseteq Has(t)
  BY <1>2, <1>4 DEF Has, Listed
<1>9. Has(t)' \subseteq Has(t) \ Gone(t)
  BY <1>2, <1>3, <1>4, <1>5, <1>6, <1>7 DEF Has, Listed
<1>10. \A m, n \in DOMAIN th'[t].list : th'[t].list[m] = th'[t].list[n] => m = n
  BY <1>1, <1>3, <1>4
<1>11. \A x \in Nodes : /\ rec'[x].next = rec[x].next /\ rec'[x].tid = rec[x].tid
                        /\ rec'[x].freed = IF x \in Gone(t) THEN rec[x].freed + 1 ELSE rec[x].freed
  <2> TAKE x \in Nodes
  <2>1. rec[x] \in Header
    BY Headers
  <2>2. CASE x \in Gone(t)
    BY <1>1, <2>1, <2>2 DEF Header
  <2>3. CASE x \notin Gone(t)
    BY <1>1, <2>3
  <2>4. QED
    BY <2>2, <2>3
<1>12. QED
  BY <1>1, <1>6, <1>8, <1>9, <1>10, <1>11, FreeOwned

\* A victim becomes the head of the thread's list.
LEMMA RetireOwned ==
  ASSUME Typed, Owned, NEW t \in Threads, Retire(t)
  PROVE  Owned'
<1> DEFINE x == th[t].victim
<1>0. th[t].list \in Seq(Nat) /\ DOMAIN th[t].list = 1..Len(th[t].list)
  BY DEF Typed, TypeOK, State
<1>1. /\ UNCHANGED <<epoch, nexttid, reservations, freeTids, root>> /\ Moved(t)
      /\ Edits(x, [rec[x] EXCEPT !.retire = epoch]) /\ x \in Nodes
      /\ th[t].pc = "retire" /\ th'[t].pc \in {"scan", "slot", "end", "leave"}
      /\ th'[t].list = <<x>> \o th[t].list /\ th'[t].tid = th[t].tid
  BY RetireMoves DEF SameSlot
<1>2. x \in Nat /\ rec[x] \in Header
  BY <1>1, Headers
<1>3. Private(t)' = {} /\ Victim(t)' = {} /\ Private(t) = {} /\ Victim(t) = {x} /\ Owns(t)
  BY <1>1 DEF Private, Victim, Owns
<1>4. x \notin Listed(t) /\ \A m, n \in DOMAIN th[t].list : th[t].list[m] = th[t].list[n] => m = n
  BY <1>3 DEF Owned, Apart
<1>5. /\ DOMAIN th'[t].list = 1..(Len(th[t].list) + 1) /\ th'[t].list[1] = x /\ Len(th[t].list) \in Nat
      /\ \A n \in DOMAIN th[t].list : n \in Nat /\ n >= 1 /\ th'[t].list[n + 1] = th[t].list[n]
      /\ \A n \in 2..(Len(th[t].list) + 1) : n - 1 \in DOMAIN th[t].list /\ th'[t].list[n] = th[t].list[n - 1]
  <2> DEFINE s == th[t].list
             v == th[t].victim
  <2>1. s \in Seq(Nat) /\ v \in Nat /\ th'[t].list = <<v>> \o s
    BY <1>0, <1>1, <1>2
  <2> HIDE DEF s, v
  <2>2. /\ DOMAIN (<<v>> \o s) = 1..(Len(s) + 1) /\ Len(s) \in Nat /\ (<<v>> \o s)[1] = v
        /\ \A n \in DOMAIN s : n \in Nat /\ n >= 1 /\ (<<v>> \o s)[n + 1] = s[n]
        /\ \A n \in 2..(Len(s) + 1) : n - 1 \in DOMAIN s /\ (<<v>> \o s)[n] = s[n - 1]
    BY <2>1, Push
  <2>3. QED
    BY <2>1, <2>2 DEF s, v
<1>6. \A m, n \in DOMAIN th'[t].list : th'[t].list[m] = th'[t].list[n] => m = n
  <2> SUFFICES ASSUME NEW m \in DOMAIN th'[t].list, NEW n \in DOMAIN th'[t].list,
                      th'[t].list[m] = th'[t].list[n]
               PROVE  m = n
    OBVIOUS
  <2>1. \A j \in 2..(Len(th[t].list) + 1) : th'[t].list[j] # x
    BY <1>4, <1>5 DEF Listed
  <2>2. CASE m = 1 \/ n = 1
    BY <1>5, <2>1, <2>2
  <2>3. CASE m \in 2..(Len(th[t].list) + 1) /\ n \in 2..(Len(th[t].list) + 1)
    <3>1. m - 1 = n - 1
      <4>1. /\ m - 1 \in DOMAIN th[t].list /\ n - 1 \in DOMAIN th[t].list
            /\ th[t].list[m - 1] = th[t].list[n - 1]
        BY <1>5, <2>3
      <4>2. QED
        BY <1>4, <4>1
    <3>2. QED
      BY <1>5, <2>3, <3>1
  <2>4. QED
    BY <1>5, <2>2, <2>3
<1>7. Has(t)' \subseteq Has(t)
  <2>1. ASSUME NEW n \in DOMAIN th'[t].list PROVE th'[t].list[n] \in Listed(t) \cup {x}
    <3>1. n = 1 \/ n \in 2..(Len(th[t].list) + 1)
      BY <1>5
    <3>2. QED
      BY <1>5, <3>1 DEF Listed
  <2>2. Listed(t)' \subseteq Listed(t) \cup {x}
    BY <2>1 DEF Listed
  <2>3. QED
    BY <1>3, <2>2 DEF Has
<1>8. \A y \in Nodes : /\ rec'[y].next = rec[y].next /\ rec'[y].tid = rec[y].tid
                       /\ rec'[y].freed = IF y \in {} THEN rec[y].freed + 1 ELSE rec[y].freed
  BY <1>1, <1>2 DEF Edits, Header
<1>9. Nodes' = Nodes
  BY <1>1 DEF Edits, Nodes
<1> HIDE DEF x
<1>10. {} \subseteq Has(t) /\ Has(t)' \subseteq Has(t) \ {}
  BY <1>7
<1>11. QED
  BY <1>1, <1>3, <1>6, <1>8, <1>9, <1>10, FreeOwned

\* A node enters the list of free tids, and the thread has no tid any more.
LEMMA GiveTidOwned ==
  ASSUME Typed, Owned, NEW t \in Threads, GiveTidById(t)
  PROVE  Owned'
<1>1. PICK x : /\ x = th[t].own
      /\ UNCHANGED <<epoch, nexttid, reservations, root>> /\ Moved(t)
      /\ Edits(x, [rec[x] EXCEPT !.next = freeTids])
      /\ th[t].pc = "give" /\ x \in Nodes /\ freeTids' = x
      /\ th'[t].pc = "gone" /\ th'[t].list = th[t].list
  BY GiveTidMoves DEF SameScan
<1>2. PICK free \in SUBSET Nodes : Apart(free) /\ FreeList(free)
  BY DEF Owned
<1>f. PICK f : f = free \cup {x}
  OBVIOUS
<1>3. Nodes' = Nodes /\ f \subseteq Nodes /\ x # 0
  BY <1>1, <1>2, <1>f, Headers DEF Nodes, Edits
<1>e. /\ rec'[x].next = freeTids /\ \A y \in Nodes : y # x => rec'[y] = rec[y]
      /\ \A y \in Nodes : rec'[y].tid = rec[y].tid /\ rec'[y].freed = rec[y].freed
  <2>1. rec[x] \in Header
    BY <1>1, Headers
  <2>2. QED
    BY <1>1, <2>1 DEF Edits, Header
<1>n. \A u \in Threads :
        /\ Has(u) \subseteq Nodes
        /\ th[u].pc = "give" => th[u].own \in Nodes
        /\ th[u].pc \in {"pop", "take"} => th[u].hold \in Nodes
  BY HasNodes DEF Typed, Shaped
<1>4. Private(t) = {x} /\ Victim(t) = {} /\ Private(t)' = {} /\ Victim(t)' = {} /\ Owns(t) /\ ~Owns(t)'
  BY <1>1 DEF Private, Victim, Owns
<1>5. x \notin free /\ x # root /\ x \notin Listed(t)
  BY <1>2, <1>4 DEF Apart, Has
<1>6. Apart(f)'
  <2>1. Has(t)' = Listed(t) /\ Listed(t)' = Listed(t) /\ Has(t) = Listed(t) \cup {x}
    BY <1>1, <1>4 DEF Has, Listed
  <2>2. /\ root' \notin f /\ root' \notin Has(t)' /\ f \cap Has(t)' = {}
        /\ \A u \in Threads : u # t => root' \notin Has(u)
        /\ Listed(t)' \cap (Private(t)' \cup Victim(t)') = {}
    BY <1>1, <1>2, <1>f, <1>4, <1>5, <2>1 DEF Apart
  <2>3. \A u \in Threads : u # t => f \cap Has(u) = {} /\ Has(t)' \cap Has(u) = {}
    BY <1>2, <1>f, <2>1 DEF Apart
  <2>4. \A m, n \in DOMAIN th'[t].list : th'[t].list[m] = th'[t].list[n] => m = n
    BY <1>1, <1>2 DEF Apart
  <2>5. /\ \A y \in Has(t)' \cup f \cup {root'} : rec'[y].freed = 0
        /\ \A u \in Threads : u # t => \A y \in Has(u) : rec'[y].freed = 0
        /\ \A y \in Nodes' : rec'[y].freed <= 1
    <3>1. root \in Nodes /\ root' = root /\ free \subseteq Nodes /\ Listed(t) \subseteq Has(t)
      BY <1>1, <1>2, <2>1 DEF Typed, TypeOK
    <3>2. /\ \A u \in Threads : \A y \in Has(u) : rec[y].freed = 0
          /\ \A y \in free \cup {root} : rec[y].freed = 0
          /\ \A y \in Nodes : rec[y].freed <= 1
      BY <1>2 DEF Apart
    <3>3. x \in Has(t)
      BY <2>1
    <3>4. QED
      BY <1>3, <1>e, <1>n, <1>f, <2>1, <3>1, <3>2, <3>3
  <2>6. QED
    BY <1>1, <1>2, <2>2, <2>3, <2>4, <2>5, ApartStep
<1>7. \A u \in Threads : u # t => th'[u] = th[u] /\ Owns(u)' = Owns(u)
  BY <1>1, OthersKeep
<1>8. /\ rec[x].tid = th[t].tid /\ rec[x].tid < nexttid /\ rec[x].tid < MaxTids
      /\ \A y \in free : rec[y].tid # rec[x].tid
      /\ \A u \in Threads : u # t /\ Owns(u) => th[u].tid # rec[x].tid
  BY <1>1, <1>2, <1>4 DEF FreeList
<1>9. \A y \in f :
       /\ rec'[y].next \in f \cup {0}
       /\ rec'[y].next # 0 => rec'[y].next # freeTids'
       /\ rec'[y].tid < nexttid' /\ rec'[y].tid < MaxTids
       /\ \A z \in f : rec'[y].next = rec'[z].next /\ rec'[y].next # 0 => y = z
       /\ \A z \in f : rec'[y].tid = rec'[z].tid => y = z
  BY <1>1, <1>2, <1>3, <1>5, <1>8, <1>e, <1>f DEF FreeList
<1>10. \A y \in f, u \in Threads : Owns(u)' => th'[u].tid # rec'[y].tid
  BY <1>1, <1>2, <1>3, <1>4, <1>7, <1>8, <1>e, <1>f DEF FreeList
<1>11. f \subseteq Nodes' /\ freeTids' \in f \cup {0}
  BY <1>1, <1>3, <1>f
<1>12. ASSUME NEW u \in Threads
       PROVE  /\ Owns(u)' => th'[u].tid < nexttid' /\ th'[u].tid < MaxTids
              /\ th'[u].pc = "give" => rec'[th'[u].own].tid = th'[u].tid
              /\ th'[u].pc \in {"head", "pop", "take"} => nexttid' > MaxTids
              /\ th'[u].pc \in {"pop", "take"} /\ nexttid' <= MaxTids + 1 => th'[u].hold \in f
              /\ th'[u].pc = "take" /\ nexttid' <= MaxTids + 1 => th'[u].below = rec'[th'[u].hold].next
  <2>1. CASE u = t
    BY <1>1, <1>4, <2>1
  <2>2. CASE u # t
    <3>1. th'[u] = th[u] /\ Owns(u)' = Owns(u)
      BY <1>7, <2>2
    <3>2. th[u].hold \in free => th[u].hold # x /\ rec'[th[u].hold] = rec[th[u].hold]
      BY <1>2, <1>5, <1>e
    <3>3. QED
      BY <1>1, <1>2, <1>e, <1>f, <1>n, <3>1, <3>2 DEF FreeList
  <2>3. QED
    BY <2>1, <2>2
<1>13. ASSUME NEW u \in Threads, NEW v \in Threads, u # v
       PROVE  /\ th'[u].pc \in {"head", "pop", "take"} /\ th'[v].pc \in {"head", "pop", "take"} => nexttid' > MaxTids + 1
              /\ Owns(u)' /\ Owns(v)' => th'[u].tid # th'[v].tid
  BY <1>1, <1>2, <1>4, <1>7, <1>13 DEF FreeList
<1>14. FreeList(f)'
  BY <1>9, <1>10, <1>11, <1>12, <1>13 DEF FreeList
<1>15. QED
  BY <1>3, <1>6, <1>14 DEF Owned

LEMMA RetryGiveOwned ==
  ASSUME Typed, Owned, NEW t \in Threads, RetryGiveById(t)
  PROVE  Owned'
<1> DEFINE x == th[t].own
<1>1. /\ UNCHANGED <<nexttid, freeTids, root, th>> /\ Moved(t) /\ th[t].pc = "give" /\ x \in Nodes
      /\ Edits(x, [rec[x] EXCEPT !.next = freeTids])
  BY RetryGiveMoves
<1>2. PICK free \in SUBSET Nodes : Apart(free) /\ FreeList(free)
  BY DEF Owned
<1>3. x \notin free /\ Owns(t)
  BY <1>1, <1>2 DEF Apart, Has, Private, Owns
<1>4. /\ Nodes' = Nodes
      /\ \A y \in Nodes : /\ rec'[y].freed = rec[y].freed /\ rec'[y].tid = rec[y].tid
                          /\ y # x => rec'[y].next = rec[y].next
  <2>1. rec[x] \in Header
    BY <1>1, Headers
  <2>2. QED
    BY <1>1, <2>1 DEF Edits, Header, Nodes
<1>5. Apart(free)'
  BY <1>1, <1>2, <1>4, ApartStays DEF Private, Victim
<1>6. FreeList(free)'
  <2>1. \A u \in Threads : th[u].pc = "give" => rec'[th[u].own].tid = rec[th[u].own].tid
    BY <1>4 DEF Typed, Shaped
  <2>2. th'[t].pc = "give" => rec'[th'[t].own].tid = th'[t].tid
    BY <1>1, <1>2, <2>1 DEF FreeList
  <2>3. \A y \in free : rec'[y].next = rec[y].next /\ rec'[y].tid = rec[y].tid
    BY <1>2, <1>3, <1>4
  <2>4. th'[t].pc \notin {"head", "pop", "take"} /\ th'[t].tid = th[t].tid
    BY <1>1
  <2>5. QED
    BY <1>1, <1>2, <1>3, <1>4, <2>1, <2>2, <2>3, <2>4, TidsStay
<1>7. QED
  BY <1>2, <1>4, <1>5, <1>6 DEF Owned

-----------------------------------------------------------------------------
(* The chain of records.                                                   *)

LEMMA Writes ==
  ASSUME Typed
  PROVE  /\ epoch \in Nat /\ root \in Nodes
         /\ \A x \in Nodes : rec[x].write \in Nat /\ rec[x].next \in Nodes \cup {0} /\ x # 0
         /\ \A t \in Threads : th[t].saw \in Nat /\ th[t].at \in Nat
<1>1. \A x \in Nodes : rec[x] \in Header /\ rec[x].next \in Nodes \cup {0} /\ x # 0
  BY Headers
<1>2. QED
  BY <1>1 DEF Typed, TypeOK, Header, State

\* A step that leaves the bucket and what was committed.
LEMMA OrderedStays ==
  ASSUME Typed, Typed', Ordered, NEW t \in Threads, Moved(t), Nodes \subseteq Nodes', root' = root, epoch' >= epoch,
         \A x \in Nodes : /\ rec'[x].write = rec[x].write
                          /\ rec[x].write # 0 \/ x = root => rec'[x].next = rec[x].next,
         \A x \in Nodes' \ Nodes : rec'[x].write = 0,
         \A u \in Threads : u # t /\ th[u].pc = "swap" => rec'[th[u].own].next = rec[th[u].own].next,
         Informed(t)', Linear(t)',
         th[t].pc \in {"commit", "committed"} /\ rec[root].write = 0 /\ th[t].own = root =>
           th'[t].pc \in {"commit", "committed"} /\ th'[t].own = root /\ th'[t].victim = th[t].victim,
         Committing(t)' /\ Target(t)' = root /\ rec[root].write = 0 =>
           \/ Committing(t) /\ Target(t) = root /\ th'[t].saw = th[t].saw
           \/ th'[t].saw > epoch
  PROVE  Ordered'
<1>1. /\ epoch \in Nat /\ epoch' \in Nat /\ root \in Nodes
      /\ \A x \in Nodes : rec[x].write \in Nat /\ rec[x].next \in Nodes \cup {0} /\ x # 0
      /\ \A u \in Threads : th[u].saw \in Nat /\ th[u].at \in Nat /\ th'[u].saw \in Nat
  <2>1. epoch' \in Nat /\ \A u \in Threads : th'[u].saw \in Nat
    BY DEF Typed, TypeOK, State
  <2>2. QED
    BY <2>1, Writes
<1>2. Chained'
  <2>1. epoch' >= 2 /\ \A x \in Nodes' : rec'[x].write <= epoch'
    BY <1>1 DEF Ordered, Chained
  <2>2. rec'[root].next = rec[root].next /\ rec'[root].write = rec[root].write
    BY <1>1
  <2>3. IF rec'[root'].write = 0
        THEN /\ rec'[root'].next \in Nodes' /\ rec'[rec'[root'].next].write # 0
             /\ \A x \in Nodes' : rec'[x].write <= rec'[rec'[root'].next].write
        ELSE \A x \in Nodes' : rec'[x].write <= rec'[root'].write
    BY <1>1, <2>2 DEF Ordered, Chained
  <2>4. ASSUME NEW z \in Nodes', rec'[z].write # 0
        PROVE  /\ rec'[z].next = 0 => rec'[z].write <= 2
               /\ rec'[z].next # 0 =>
                    /\ rec'[z].next \in Nodes' /\ rec'[rec'[z].next].write # 0
                    /\ \A x \in Nodes' : rec'[x].write <= rec'[rec'[z].next].write \/ rec'[x].write >= rec'[z].write
    <3>1. z \in Nodes /\ rec[z].write # 0 /\ rec'[z].next = rec[z].next /\ rec'[z].write = rec[z].write
      BY <2>4
    <3>2. /\ rec[z].next = 0 => rec[z].write <= 2
          /\ rec[z].next # 0 =>
               /\ rec[z].next \in Nodes /\ rec[rec[z].next].write # 0
               /\ \A x \in Nodes : rec[x].write <= rec[rec[z].next].write \/ rec[x].write >= rec[z].write
      BY <3>1 DEF Ordered, Chained
    <3>3. QED
      BY <1>1, <3>1, <3>2
  <2>5. QED
    BY <2>1, <2>3, <2>4 DEF Chained
<1>3. RootWriter'
  <2>1. SUFFICES ASSUME rec[root].write = 0
                 PROVE  \E u \in Threads : /\ th'[u].pc \in {"commit", "committed"}
                                           /\ th'[u].own = root /\ th'[u].victim = rec[root].next
    BY <1>1 DEF RootWriter
  <2>2. PICK u \in Threads : /\ th[u].pc \in {"commit", "committed"}
                             /\ th[u].own = root /\ th[u].victim = rec[root].next
    BY <2>1 DEF Ordered, RootWriter
  <2>3. /\ th'[u].pc \in {"commit", "committed"} /\ th'[u].own = root /\ th'[u].victim = rec[root].next
    BY <2>1, <2>2 DEF Moved
  <2>4. QED
    BY <2>3
<1>4. ASSUME NEW u \in Threads, u # t PROVE Informed(u)'
  <2>1. th'[u] = th[u] /\ Holds(u)' = Holds(u) /\ Committing(u)' = Committing(u) /\ Target(u)' = Target(u)
    BY <1>4, OthersKeep
  <2>2. Informed(u) /\ Shaped(u)
    BY DEF Ordered, Typed
  <2>3. /\ Holds(u) => th[u].hold \in Nodes
        /\ th[u].pc \in {"swap", "give", "commit", "committed"} => th[u].own \in Nodes
        /\ Committing(u) => Target(u) \in Nodes
    BY <2>2 DEF Informed, Shaped, Committing, Target, Holds
  <2>4. \A x \in Nodes' : rec'[x].write = 0 \/ (x \in Nodes /\ rec'[x].write = rec[x].write)
    OBVIOUS
  <2>5. Committing(u) /\ rec[Target(u)].write = 0 => \A x \in Nodes' : rec'[x].write < th[u].saw
    BY <1>1, <2>2, <2>4 DEF Informed
  <2>6. Committing(u) => th[u].saw <= epoch'
    BY <1>1, <2>2 DEF Informed
  <2>7. /\ Holds(u) => th[u].hold \in Nodes'
        /\ Holds(u) /\ rec'[th[u].hold].write = 0 => th[u].hold = root' /\ th[u].pc \in {"see", "help", "helped"}
        /\ th[u].pc \in {"swap", "give"} => rec'[th[u].own].write = 0
        /\ th[u].pc = "swap" => rec'[th[u].own].next = th[u].hold
        /\ th[u].pc \in {"commit", "committed"} /\ rec'[th[u].own].write = 0 => th[u].own = root'
    BY <1>4, <2>2, <2>3 DEF Informed
  <2>8. Committing(u) /\ rec'[Target(u)].write = 0 => \A x \in Nodes' : rec'[x].write < th[u].saw
    BY <2>3, <2>5
  <2>9. QED
    BY <2>1, <2>6, <2>7, <2>8 DEF Informed
<1>5. ASSUME NEW u \in Threads, u # t PROVE Linear(u)'
  <2>1. th'[u] = th[u] /\ Holds(u)' = Holds(u) /\ Reads(u)' = Reads(u)
    BY <1>5, OthersKeep
  <2>2. SUFFICES ASSUME Reads(u)
                 PROVE  /\ th[u].at <= epoch' /\ th[u].at >= 2
                        /\ Holds(u) /\ rec'[th[u].hold].write # 0 =>
                             \A x \in Nodes' : rec'[x].write > rec'[th[u].hold].write => rec'[x].write > th[u].at
                        /\ Holds(u) /\ th[u].hold # root' /\ rec'[root'].write = 0 =>
                             \A v \in Threads : Committing(v)' /\ Target(v)' = root' => th'[v].saw > th[u].at
                        /\ th[u].pc = "found" => rec'[th[u].hold].write <= th[u].at
    BY <2>1 DEF Linear
  <2>3. Linear(u) /\ Informed(u)
    BY DEF Ordered
  <2>4. th[u].at <= epoch' /\ th[u].at >= 2 /\ th[u].at <= epoch
    BY <1>1, <2>2, <2>3 DEF Linear
  <2>5. Holds(u) => th[u].hold \in Nodes /\ rec'[th[u].hold].write = rec[th[u].hold].write
    BY <2>3 DEF Informed
  <2>6. ASSUME Holds(u), rec'[th[u].hold].write # 0, NEW x \in Nodes', rec'[x].write > rec'[th[u].hold].write
        PROVE  rec'[x].write > th[u].at
    <3>1. x \in Nodes /\ rec'[x].write = rec[x].write
      BY <1>1, <2>5, <2>6
    <3>2. QED
      BY <2>2, <2>3, <2>5, <2>6, <3>1 DEF Linear
  <2>7. ASSUME Holds(u), th[u].hold # root', rec'[root'].write = 0, NEW v \in Threads,
               Committing(v)', Target(v)' = root'
        PROVE  th'[v].saw > th[u].at
    <3>1. \A w \in Threads : Committing(w) /\ Target(w) = root => th[w].saw > th[u].at
      BY <1>1, <2>2, <2>3, <2>7 DEF Linear
    <3>2. CASE v = t
      BY <1>1, <2>4, <2>7, <3>1, <3>2
    <3>3. CASE v # t
      <4>1. th'[v] = th[v] /\ Committing(v)' = Committing(v) /\ Target(v)' = Target(v)
        BY <3>3, OthersKeep
      <4>2. QED
        BY <2>7, <3>1, <4>1
    <3>4. QED
      BY <3>2, <3>3
  <2>8. th[u].pc = "found" => rec'[th[u].hold].write <= th[u].at
    <3>1. th[u].pc = "found" => Holds(u)
      BY DEF Holds
    <3>2. QED
      BY <2>2, <2>3, <2>5, <3>1 DEF Linear
  <2>9. QED
    BY <2>4, <2>6, <2>7, <2>8
<1>6. \A u \in Threads : Informed(u)' /\ Linear(u)'
  BY <1>4, <1>5
<1>7. QED
  BY <1>2, <1>3, <1>6 DEF Ordered

LEMMA SilentOrdered ==
  ASSUME Typed, Typed', Ordered, NEW t \in Threads, Moved(t), UNCHANGED <<epoch, rec, root>>,
         Informed(t)', Linear(t)', th[t].pc \notin {"commit", "committed"}, ~Committing(t)'
  PROVE  Ordered'
<1>1. epoch' >= epoch /\ Nodes' = Nodes
  BY Writes DEF Nodes
<1>2. QED
  BY <1>1, OrderedStays

LEMMA IdleOrdered ==
  ASSUME Typed, Typed', Ordered, NEW t \in Threads, Moved(t), UNCHANGED <<epoch, rec, root>>,
         th[t].pc \notin {"commit", "committed"}, ~Holds(t)', th'[t].pc # "give", ~Reads(t)'
  PROVE  Ordered'
<1>1. Informed(t)' /\ Linear(t)' /\ ~Committing(t)'
  BY DEF Informed, Linear, Holds, Committing
<1>2. QED
  BY <1>1, SilentOrdered

LEMMA StillOrdered ==
  ASSUME Typed, Owned, Ordered, NEW t \in Threads,
         \/ NewTid(t) \/ LoadHeadById(t) \/ ReadBelowById(t) \/ PopTidById(t) \/ ClearSlot(t) \/ Begin(t) \/ Reserve(t) 
         \/ EndOp(t) \/ Leave(t)
  PROVE  Ordered'
<1>0. UNCHANGED <<epoch, rec, root>>
  BY DEF NewTid, LoadHeadById, ReadBelowById, PopTidById, ClearSlot, Begin, Reserve, EndOp, Leave
<1>1. CASE NewTid(t)
  BY <1>0, <1>1, NewTidMoves, IdleOrdered DEF Holds, Reads, InEmpty
<1>2. CASE LoadHeadById(t)
  BY <1>0, <1>2, LoadHeadMoves, IdleOrdered DEF Holds, Reads, InEmpty
<1>3. CASE PopTidById(t)
  BY <1>0, <1>3, PopTidMoves, IdleOrdered DEF Holds, Reads, InEmpty
<1>4. CASE ClearSlot(t)
  BY <1>0, <1>4, ClearSlotMoves, IdleOrdered DEF Holds, Reads, InEmpty
<1>5. CASE Begin(t)
  BY <1>0, <1>5, BeginMoves, IdleOrdered DEF Holds, Reads, InEmpty
<1>6. CASE Reserve(t)
  <2>1. /\ Typed' /\ Moved(t) /\ th[t].pc = "reserve" /\ th'[t].op = th[t].op
        /\ (th'[t].pc = "again") \/ (th'[t].pc = "root" /\ th[t].op # "read")
    BY <1>6, ReserveMoves DEF SameOp
  <2>2. QED
    BY <1>0, <2>1, IdleOrdered DEF Holds, Reads, InEmpty
<1>7. CASE EndOp(t)
  BY <1>0, <1>7, EndOpMoves, IdleOrdered DEF Holds, Reads, InEmpty
<1>8. CASE Leave(t)
  BY <1>0, <1>8, LeaveMoves, IdleOrdered DEF Holds, Reads, InEmpty
<1>9. CASE ReadBelowById(t)
  BY <1>0, <1>9, ReadBelowMoves, IdleOrdered DEF Holds, Reads, InEmpty
<1>10. QED
  BY <1>1, <1>2, <1>3, <1>4, <1>5, <1>6, <1>7, <1>8, <1>9

LEMMA ReadEpochOrdered ==
  ASSUME Typed, Ordered, NEW t \in Threads, ReadEpoch(t)
  PROVE  Ordered'
<1>1. /\ UNCHANGED <<epoch, rec, root>> /\ Typed' /\ Moved(t) /\ th[t].pc = "again" /\ th'[t].pc = "root"
      /\ th'[t].at = epoch
  BY ReadEpochMoves DEF Local
<1>2. ~Holds(t)' /\ ~Committing(t)'
  BY <1>1 DEF Holds, InEmpty, Committing
<1>3. Informed(t)'
  BY <1>1, <1>2 DEF Informed
<1>4. Linear(t)'
  BY <1>1, <1>2, Writes DEF Linear, Ordered, Chained
<1>5. QED
  BY <1>1, <1>2, <1>3, <1>4, SilentOrdered

LEMMA LoadRootOrdered ==
  ASSUME Typed, Ordered, NEW t \in Threads, LoadRoot(t)
  PROVE  Ordered'
<1>1. /\ UNCHANGED <<epoch, rec, root>> /\ Typed' /\ Moved(t) /\ th[t].pc = "root" /\ th'[t].pc = "see"
      /\ th'[t].at = th[t].at /\ th'[t].op = th[t].op /\ th'[t].hold = root
  BY LoadRootMoves DEF Local, SameOp
<1>2. Holds(t)' /\ ~Committing(t)' /\ Nodes' = Nodes /\ root \in Nodes /\ Reads(t)' = Reads(t)
  BY <1>1, Writes DEF Holds, InEmpty, Committing, Nodes, Reads
<1>3. Informed(t)'
  BY <1>1, <1>2 DEF Informed
<1>4. Linear(t)'
  <2>1. rec[root].write # 0 => \A x \in Nodes : ~(rec[x].write > rec[root].write)
    BY Writes DEF Ordered, Chained
  <2>2. Reads(t) => th[t].at <= epoch /\ th[t].at >= 2
    BY DEF Ordered, Linear
  <2>3. QED
    BY <1>1, <1>2, <2>1, <2>2 DEF Linear
<1>5. QED
  BY <1>1, <1>2, <1>3, <1>4, SilentOrdered

\* The thread goes on with what it holds.
LEMMA CarryOrdered ==
  ASSUME Typed, Typed', Ordered, NEW t \in Threads, Moved(t), UNCHANGED <<epoch, rec, root>>,
         th'[t].hold = th[t].hold, th'[t].at = th[t].at, th'[t].op = th[t].op,
         Holds(t)' => Holds(t), Reads(t)' => Reads(t),
         th[t].pc \notin {"commit", "committed"}, ~Committing(t)',
         th'[t].pc \notin {"swap", "give", "commit"},
         Holds(t)' /\ rec[th[t].hold].write = 0 => th'[t].pc \in {"see", "help"},
         th'[t].pc = "found" => rec[th[t].hold].write <= th[t].at
  PROVE  Ordered'
<1>1. Nodes' = Nodes /\ Informed(t) /\ Linear(t)
  BY DEF Nodes, Ordered
<1>2. Informed(t)'
  BY <1>1 DEF Informed, Committing
<1>3. Linear(t)'
  <2>1. ASSUME Holds(t), th[t].hold # root, rec[root].write = 0, Reads(t), NEW v \in Threads,
               Committing(v)', Target(v)' = root
        PROVE  th'[v].saw > th[t].at
    <3>1. v # t
      BY <2>1
    <3>2. th'[v] = th[v] /\ Committing(v)' = Committing(v) /\ Target(v)' = Target(v)
      BY <3>1, OthersKeep
    <3>3. QED
      BY <1>1, <2>1, <3>2 DEF Linear
  <2>2. QED
    BY <1>1, <2>1 DEF Linear
<1>4. QED
  BY <1>2, <1>3, SilentOrdered

LEMMA GoOnOrdered ==
  ASSUME Typed, Owned, Ordered, NEW t \in Threads,
         \/ SeeEpochById(t) \/ AcceptById(t) \/ EndView(t) \/ BeginScan(t) \/ ScanSlot(t) \/ LeaveScan(t)
  PROVE  Ordered'
<1>0. UNCHANGED <<epoch, rec, root>> /\ Informed(t) /\ Shaped(t) /\ th[t] \in State
  BY DEF SeeEpochById, AcceptById, EndView, BeginScan, ScanSlot, LeaveScan, Ordered, Typed, TypeOK
<1>1. CASE SeeEpochById(t)
  <2>1. /\ Typed' /\ Moved(t) /\ th[t].pc = "see" /\ SameHand(t) /\ SameOp(t)
        /\ \/ th'[t].pc = "help" /\ rec[th[t].hold].write = 0
           \/ th'[t].pc = th[t].then /\ rec[th[t].hold].write # 0
    BY <1>1, SeeEpochMoves
  <2>2. th[t].then = IF th[t].op = "read" THEN "older" ELSE "link"
    BY <1>0, <2>1 DEF Shaped
  <2>3. QED
    BY <1>0, <2>1, <2>2, CarryOrdered DEF SameHand, SameOp, Holds, Reads, Committing, InEmpty
<1>2. CASE AcceptById(t)
  <2>1. /\ Typed' /\ Moved(t) /\ th[t].pc = "older" /\ SameHand(t) /\ SameOp(t) /\ th'[t].pc = "found"
    BY <1>2, AcceptMoves
  <2>2. rec[th[t].hold].write <= th[t].at
    BY <1>2 DEF AcceptById
  <2>3. Holds(t) /\ rec[th[t].hold].write # 0
    BY <1>0, <2>1 DEF Holds, Informed
  <2>4. QED
    BY <1>0, <2>1, <2>2, <2>3, CarryOrdered DEF SameHand, SameOp, Holds, Reads, Committing, InEmpty
<1>3. CASE EndView(t)
  <2>1. /\ Typed' /\ Moved(t) /\ th[t].pc = "found" /\ SameHand(t) /\ SameOp(t) /\ th'[t].pc = "end"
    BY <1>3, EndViewMoves
  <2>2. Holds(t) /\ rec[th[t].hold].write # 0
    BY <1>0, <2>1 DEF Holds, Informed
  <2>3. QED
    BY <1>0, <2>1, <2>2, CarryOrdered DEF SameHand, SameOp, Holds, Reads, Committing, InEmpty
<1>4. CASE BeginScan(t) \/ ScanSlot(t) \/ LeaveScan(t)
  <2>1. ScanSlot(t) => th[t].tid < MaxTids
    BY DEF ScanSlot, At, Owned, FreeList, Owns
  <2>2. /\ Typed' /\ Moved(t) /\ SameHand(t) /\ SameOp(t) /\ th'[t].back = th[t].back
        /\ th'[t].pc \in {"scan", "slots"} /\ th[t].pc \in {"scan", "slots", "leave"}
        /\ th[t].pc = "leave" => th[t].back = "leave"
    BY <1>0, <1>4, <2>1, BeginScanMoves, ScanSlotMoves, LeaveScanMoves DEF SameScan, Shaped
  <2>3. Holds(t)' = Holds(t) /\ (Holds(t) => rec[th[t].hold].write # 0)
    BY <1>0, <2>2 DEF Holds, InEmpty, Informed
  <2>4. QED
    BY <1>0, <2>2, <2>3, CarryOrdered DEF SameHand, SameOp, Reads, Committing
<1>5. QED
  BY <1>1, <1>2, <1>3, <1>4

\* The step to an older record.
LEMMA OlderInformed ==
  ASSUME Typed, Ordered, NEW t \in Threads, OlderById(t)
  PROVE  /\ th[t].hold \in Nodes /\ rec[th[t].hold].next \in Nodes /\ rec[rec[th[t].hold].next].write # 0
         /\ rec[th[t].hold].write # 0 /\ Reads(t) /\ Holds(t)
         /\ \A x \in Nodes : rec[x].write > rec[rec[th[t].hold].next].write => rec[x].write > th[t].at
<1>1. th[t].pc = "older" /\ Holds(t) /\ Reads(t)
  BY DEF OlderById, At, Holds, Reads, Typed, Shaped
<1>2. th[t].hold \in Nodes /\ rec[th[t].hold].write # 0
  BY <1>1 DEF Ordered, Informed
<1>3. rec[th[t].hold].write > th[t].at /\ th[t].at >= 2 /\ th[t].at \in Nat /\ rec[th[t].hold].write \in Nat
  BY <1>1, <1>2, Writes DEF OlderById, Ordered, Linear
<1>4. rec[th[t].hold].next # 0
  BY <1>2, <1>3 DEF Ordered, Chained
<1>5. /\ rec[th[t].hold].next \in Nodes /\ rec[rec[th[t].hold].next].write # 0
      /\ \A x \in Nodes : \/ rec[x].write <= rec[rec[th[t].hold].next].write
                          \/ rec[x].write >= rec[th[t].hold].write
  BY <1>2, <1>4 DEF Ordered, Chained
<1>6. QED
  BY <1>1, <1>2, <1>3, <1>5, Writes

LEMMA OlderOrdered ==
  ASSUME Typed, Ordered, NEW t \in Threads, OlderById(t)
  PROVE  Ordered'
<1> DEFINE z == rec[th[t].hold].next
<1>0. /\ th[t].hold \in Nodes /\ z \in Nodes /\ rec[z].write # 0 /\ rec[th[t].hold].write # 0
      /\ Reads(t) /\ Holds(t)
      /\ \A x \in Nodes : rec[x].write > rec[z].write => rec[x].write > th[t].at
  BY OlderInformed
<1>1. /\ UNCHANGED <<epoch, rec, root>> /\ Typed' /\ Moved(t) /\ th[t].pc = "older" /\ th'[t].pc = "older"
      /\ th'[t].at = th[t].at /\ th'[t].hold = z
  BY <1>0, OlderMoves DEF Local, SameOp
<1> HIDE DEF z
<1>2. Nodes' = Nodes /\ ~Committing(t)'
  BY <1>1 DEF Nodes, Committing
<1>3. Informed(t)'
  BY <1>0, <1>1, <1>2 DEF Informed
<1>4. Linear(t)'
  <2>1. ASSUME rec[root].write = 0, NEW v \in Threads, Committing(v)', Target(v)' = root
        PROVE  th'[v].saw > th[t].at
    <3>1. v # t /\ th[t].hold # root
      BY <1>0, <1>2, <2>1
    <3>2. th'[v] = th[v] /\ Committing(v)' = Committing(v) /\ Target(v)' = Target(v)
      BY <1>1, <3>1, OthersKeep
    <3>3. QED
      BY <1>0, <2>1, <3>1, <3>2 DEF Ordered, Linear
  <2>2. th[t].at <= epoch /\ th[t].at >= 2
    BY <1>0 DEF Ordered, Linear
  <2>3. QED
    BY <1>0, <1>1, <1>2, <2>1, <2>2 DEF Linear
<1>5. QED
  BY <1>1, <1>2, <1>3, <1>4, SilentOrdered

LEMMA FlushOrdered ==
  ASSUME Typed, Owned, Ordered, NEW t \in Threads, Flush(t)
  PROVE  Ordered'
<1>1. /\ UNCHANGED <<epoch, rec, root>> /\ Typed' /\ Moved(t) /\ SameHand(t) /\ SameOp(t) /\ SameScan(t)
      /\ th'[t].pc = th[t].pc
  BY FlushOwned, FlushMoves
<1>2. /\ Nodes' = Nodes /\ Holds(t)' = Holds(t) /\ Reads(t)' = Reads(t) /\ Committing(t)' = Committing(t)
      /\ Target(t)' = Target(t) /\ epoch' >= epoch
  BY <1>1, Writes DEF Nodes, Holds, InEmpty, Reads, Committing, Target, SameHand, SameOp, SameScan
<1>3. Informed(t) /\ Linear(t)
  BY DEF Ordered
<1>4. Informed(t)'
  BY <1>1, <1>2, <1>3 DEF Informed, SameHand, SameOp
<1>5. Linear(t)'
  <2>1. \A v \in Threads : Committing(v)' = Committing(v) /\ Target(v)' = Target(v) /\ th'[v].saw = th[v].saw
    BY <1>1, <1>2, OthersKeep DEF SameOp
  <2>2. QED
    BY <1>1, <1>2, <1>3, <2>1 DEF Linear, SameHand, SameOp
<1>6. QED
  BY <1>1, <1>2, <1>4, <1>5, OrderedStays DEF SameHand, SameOp

LEMMA NewEpochOrdered ==
  ASSUME Typed, Ordered, NEW t \in Threads, NewEpoch(t)
  PROVE  Ordered'
<1>1. /\ UNCHANGED <<rec, root>> /\ Typed' /\ Moved(t) /\ SameHand(t) /\ th'[t].op = th[t].op
      /\ th'[t].at = th[t].at /\ th'[t].saw = epoch + 1 /\ epoch' = epoch + 1
      /\ (th[t].pc = "help" /\ th'[t].pc = "helped") \/ (th[t].pc = "commit" /\ th'[t].pc = "committed")
  BY NewEpochMoves
<1>2. /\ Nodes' = Nodes /\ Holds(t) /\ Holds(t)' /\ Reads(t)' = Reads(t) /\ ~Committing(t) /\ Committing(t)'
      /\ epoch' >= epoch
  BY <1>1, Writes DEF Nodes, Holds, InEmpty, Reads, Committing
<1>3. Informed(t) /\ Linear(t)
  BY DEF Ordered
<1>4. Informed(t)'
  <2>1. th'[t].saw <= epoch' /\ \A x \in Nodes : rec[x].write < th'[t].saw
    BY <1>1, Writes DEF Ordered, Chained
  <2>2. QED
    BY <1>1, <1>2, <1>3, <2>1 DEF Informed, SameHand
<1>5. Linear(t)'
  <2>1. SUFFICES ASSUME Reads(t) PROVE Linear(t)'
    BY <1>2 DEF Linear
  <2>2. th[t].at \in Nat /\ th[t].at <= epoch /\ th[t].at >= 2 /\ epoch \in Nat
    BY <1>3, <2>1, Writes DEF Linear
  <2>3. ASSUME th[t].hold # root, rec[root].write = 0, NEW v \in Threads, Committing(v)', Target(v)' = root
        PROVE  th'[v].saw > th[t].at
    <3>1. CASE v = t
      BY <1>1, <2>2, <3>1
    <3>2. CASE v # t
      <4>1. th'[v] = th[v] /\ Committing(v)' = Committing(v) /\ Target(v)' = Target(v)
        BY <1>1, <3>2, OthersKeep
      <4>2. QED
        BY <1>2, <1>3, <2>1, <2>3, <4>1 DEF Linear
    <3>3. QED
      BY <3>1, <3>2
  <2>4. th[t].at <= epoch' /\ th'[t].pc # "found"
    BY <1>1, <2>2
  <2>5. QED
    BY <1>1, <1>2, <1>3, <2>1, <2>2, <2>3, <2>4 DEF Linear, SameHand
<1>6. th'[t].saw > epoch
  BY <1>1, Writes
<1>7. QED
  BY <1>1, <1>2, <1>4, <1>5, <1>6, OrderedStays DEF SameHand

LEMMA LinkOrdered ==
  ASSUME Typed, Ordered, NEW t \in Threads, Link(t)
  PROVE  Ordered'
<1>p. PICK a : Adds(Fresh(th[t].hold, 0, a))
  BY LinkMoves DEF AddsFresh
<1> DEFINE x == Len(rec) + 1
           h == Fresh(th[t].hold, 0, a)
<1>1. /\ UNCHANGED <<epoch, root>> /\ Typed' /\ Moved(t) /\ th[t].pc = "link" /\ th'[t].pc = "swap" /\ Adds(h)
      /\ th'[t].hold = th[t].hold /\ th'[t].own = x /\ th'[t].op = th[t].op
  BY <1>p, LinkMoves DEF SameOp
<1>2. h.write = 0 /\ h.next = th[t].hold
  BY DEF Fresh
<1> HIDE DEF x, h
<1>3. /\ Nodes' = Nodes \cup {x} /\ x \notin Nodes /\ rec'[x] = h /\ \A y \in Nodes : rec'[y] = rec[y]
  BY <1>1 DEF Adds, x
<1>4. Holds(t) /\ Holds(t)' /\ ~Committing(t)' /\ th[t].hold \in Nodes /\ rec[th[t].hold].write # 0 /\ ~Reads(t)'
  BY <1>1 DEF Holds, Committing, Reads, Ordered, Informed
<1>5. Informed(t)' /\ Linear(t)'
  BY <1>1, <1>2, <1>3, <1>4 DEF Informed, Linear
<1>6. epoch' >= epoch /\ Nodes \subseteq Nodes' /\ \A y \in Nodes' \ Nodes : rec'[y].write = 0
  BY <1>1, <1>2, <1>3, Writes
<1>7. \A u \in Threads : u # t /\ th[u].pc = "swap" => rec'[th[u].own].next = rec[th[u].own].next
  BY <1>3 DEF Typed, Shaped
<1>8. QED
  BY <1>1, <1>3, <1>4, <1>5, <1>6, <1>7, OrderedStays

LEMMA NewNodeOrdered ==
  ASSUME Typed, Ordered, NEW t \in Threads, NewNode(t)
  PROVE  Ordered'
<1>p. PICK a : Adds(Fresh(freeTids, th[t].tid, a))
  BY NewNodeMoves DEF AddsFresh
<1> DEFINE x == Len(rec) + 1
           h == Fresh(freeTids, th[t].tid, a)
<1>1. /\ UNCHANGED <<epoch, root>> /\ Typed' /\ Moved(t) /\ th[t].pc = "leave" /\ th'[t].pc = "give" /\ Adds(h)
      /\ th'[t].own = x
  BY <1>p, NewNodeMoves
<1>2. h.write = 0
  BY DEF Fresh
<1> HIDE DEF x, h
<1>3. /\ Nodes' = Nodes \cup {x} /\ x \notin Nodes /\ rec'[x] = h /\ \A y \in Nodes : rec'[y] = rec[y]
  BY <1>1 DEF Adds, x
<1>4. ~Holds(t)' /\ ~Committing(t)' /\ ~Reads(t)'
  BY <1>1 DEF Holds, Committing, Reads, InEmpty
<1>5. Informed(t)' /\ Linear(t)'
  BY <1>1, <1>2, <1>3, <1>4 DEF Informed, Linear
<1>6. epoch' >= epoch /\ Nodes \subseteq Nodes' /\ \A y \in Nodes' \ Nodes : rec'[y].write = 0
  BY <1>1, <1>2, <1>3, Writes
<1>7. \A u \in Threads : u # t /\ th[u].pc = "swap" => rec'[th[u].own].next = rec[th[u].own].next
  BY <1>3 DEF Typed, Shaped
<1>8. QED
  BY <1>1, <1>3, <1>4, <1>5, <1>6, <1>7, OrderedStays

\* Headers change, but neither what was committed nor the chain.
LEMMA HeadersOrdered ==
  ASSUME Typed, Typed', Ordered, NEW t \in Threads, Moved(t), UNCHANGED <<epoch, root>>, Nodes' = Nodes,
         \A y \in Nodes : rec'[y].write = rec[y].write /\ rec'[y].next = rec[y].next,
         th'[t].hold = th[t].hold, Holds(t)' => Holds(t) /\ rec[th[t].hold].write # 0, ~Reads(t)',
         ~Committing(t)', th[t].pc \notin {"commit", "committed"}, th'[t].pc \notin {"swap", "give", "commit"}
  PROVE  Ordered'
<1>1. Informed(t)' /\ Linear(t)'
  BY DEF Informed, Linear, Ordered, Committing
<1>2. epoch' >= epoch /\ \A u \in Threads : u # t /\ th[u].pc = "swap" => rec'[th[u].own].next = rec[th[u].own].next
  BY Writes DEF Typed, Shaped
<1>3. QED
  BY <1>1, <1>2, OrderedStays

LEMMA LoseRootOrdered ==
  ASSUME Typed, Ordered, NEW t \in Threads, LoseRootById(t)
  PROVE  Ordered'
<1> DEFINE x == th[t].own
<1>1. /\ UNCHANGED <<epoch, root>> /\ Typed' /\ Moved(t) /\ th[t].pc = "swap" /\ th'[t].pc = "end" /\ x \in Nodes
      /\ Edits(x, [rec[x] EXCEPT !.freed = @ + 1]) /\ th'[t].hold = th[t].hold
  BY LoseRootMoves DEF SameHand
<1>2. rec[x] \in Header
  BY <1>1, Headers
<1>3. Nodes' = Nodes /\ \A y \in Nodes : rec'[y].write = rec[y].write /\ rec'[y].next = rec[y].next
  BY <1>1, <1>2 DEF Edits, Header, Nodes
<1>4. Holds(t) /\ rec[th[t].hold].write # 0 /\ ~Reads(t)' /\ ~Committing(t)'
  BY <1>1 DEF Holds, Ordered, Informed, Reads, Committing
<1>5. QED
  BY <1>1, <1>3, <1>4, HeadersOrdered

LEMMA RetireOrdered ==
  ASSUME Typed, Ordered, NEW t \in Threads, Retire(t)
  PROVE  Ordered'
<1> DEFINE x == th[t].victim
<1>1. /\ UNCHANGED <<epoch, root>> /\ Typed' /\ Moved(t) /\ x \in Nodes
      /\ Edits(x, [rec[x] EXCEPT !.retire = epoch]) /\ th'[t].hold = th[t].hold /\ th[t].pc = "retire"
      /\ th'[t].pc \in {"scan", th[t].back} /\ th[t].back \in {"slot", "end", "leave"} /\ th'[t].back = th[t].back
  BY RetireMoves
<1>2. rec[x] \in Header
  BY <1>1, Headers
<1>3. Nodes' = Nodes /\ \A y \in Nodes : rec'[y].write = rec[y].write /\ rec'[y].next = rec[y].next
  BY <1>1, <1>2 DEF Edits, Header, Nodes
<1>4. (Holds(t)' => Holds(t)) /\ (Holds(t) => rec[th[t].hold].write # 0) /\ ~Reads(t)' /\ ~Committing(t)'
  BY <1>1 DEF Holds, InEmpty, Ordered, Informed, Reads, Committing
<1>5. QED
  BY <1>1, <1>3, <1>4, HeadersOrdered

LEMMA FreeOldOrdered ==
  ASSUME Typed, Ordered, NEW t \in Threads, FreeOld(t)
  PROVE  Ordered'
<1>1. /\ UNCHANGED <<epoch, root>> /\ Typed' /\ Moved(t) /\ Nodes' = Nodes /\ Gone(t) \subseteq Nodes
      /\ \A x \in Gone(t) : rec'[x] = [rec[x] EXCEPT !.freed = @ + 1]
      /\ \A x \in Nodes \ Gone(t) : rec'[x] = rec[x]
      /\ th'[t].hold = th[t].hold /\ th[t].pc = "slots"
      /\ th'[t].pc = th[t].back /\ th[t].back \in {"slot", "end", "leave"} /\ th'[t].back = th[t].back
  BY FreeOldMoves DEF SameHand
<1>2. \A y \in Nodes : rec'[y].write = rec[y].write /\ rec'[y].next = rec[y].next
  <2> TAKE y \in Nodes
  <2>1. rec[y] \in Header
    BY Headers
  <2>2. CASE y \in Gone(t)
    BY <1>1, <2>1, <2>2 DEF Header
  <2>3. CASE y \notin Gone(t)
    BY <1>1, <2>3
  <2>4. QED
    BY <2>2, <2>3
<1>3. (Holds(t)' => Holds(t)) /\ (Holds(t) => rec[th[t].hold].write # 0) /\ ~Reads(t)' /\ ~Committing(t)'
  BY <1>1 DEF Holds, InEmpty, Ordered, Informed, Reads, Committing
<1>4. QED
  BY <1>1, <1>2, <1>3, HeadersOrdered

LEMMA GiveOrdered ==
  ASSUME Typed, Owned, Ordered, NEW t \in Threads, GiveTidById(t) \/ RetryGiveById(t)
  PROVE  Ordered'
<1> DEFINE x == th[t].own
<1>1. /\ UNCHANGED <<epoch, root>>
      /\ (th'[t].pc = "give" /\ th'[t].own = x) \/ th'[t].pc = "gone"
      /\ Typed' /\ Moved(t) /\ th[t].pc = "give" /\ x \in Nodes
      /\ Edits(x, [rec[x] EXCEPT !.next = freeTids])
  BY GiveTidMoves, RetryGiveMoves
<1>2. rec[x] \in Header
  BY <1>1, Headers
<1>3. /\ Nodes' = Nodes
      /\ \A y \in Nodes : rec'[y].write = rec[y].write /\ (y # x => rec'[y].next = rec[y].next)
  BY <1>1, <1>2 DEF Edits, Header, Nodes
<1>4. x # root /\ rec[x].write = 0 /\ \A u \in Threads : u # t /\ th[u].pc = "swap" => th[u].own # x /\ th[u].own \in Nodes
  <2>1. \A u \in Threads : th[u].pc \in {"swap", "give"} => th[u].own \in Has(u)
    BY DEF Has, Private
  <2>2. root \notin Has(t) /\ \A u \in Threads : u # t => Has(t) \cap Has(u) = {}
    BY DEF Owned, Apart
  <2>3. QED
    BY <1>1, <2>1, <2>2 DEF Ordered, Informed, Typed, Shaped
<1>5. ~Holds(t)' /\ ~Reads(t)' /\ ~Committing(t)' /\ epoch' >= epoch
  BY <1>1, Writes DEF Holds, InEmpty, Reads, Committing
<1>6. Informed(t)' /\ Linear(t)'
  BY <1>1, <1>3, <1>4, <1>5 DEF Informed, Linear
<1>7. QED
  BY <1>1, <1>3, <1>4, <1>5, <1>6, OrderedStays

\* What a thread commits is a record, and if it is not committed, the newest.
LEMMA Targets ==
  ASSUME Typed, Ordered, NEW t \in Threads, Committing(t)
  PROVE  /\ Target(t) \in Nodes /\ Holds(t) /\ th[t].hold \in Nodes
         /\ rec[Target(t)].write = 0 =>
              Target(t) = root /\ th[t].saw <= epoch /\ \A x \in Nodes : rec[x].write < th[t].saw
         /\ th[t].pc = "committed" => rec[th[t].hold].write # 0
<1>1. Informed(t) /\ Shaped(t)
  BY DEF Ordered, Typed
<1>2. QED
  BY <1>1 DEF Informed, Shaped, Committing, Target, Holds

\* The record was committed already.
LEMMA LateEpochOrdered ==
  ASSUME Typed, Ordered, NEW t \in Threads, StoreEpochById(t), rec[Target(t)].write # 0
  PROVE  Ordered'
<1> DEFINE x == Target(t)
<1>0. Committing(t) /\ x \in Nodes /\ Holds(t) /\ th[t].hold \in Nodes
  BY Targets DEF StoreEpochById, Committing
<1>1. /\ UNCHANGED <<epoch, root>> /\ Typed' /\ Moved(t)
      /\ Edits(x, [rec[x] EXCEPT !.write = IF @ = 0 THEN th[t].saw ELSE @])
      /\ SameHand(t) /\ SameOp(t) /\ th'[t].back = th[t].back
      /\ (th[t].pc = "helped" /\ th'[t].pc = th[t].then) \/ (th[t].pc = "committed" /\ th'[t].pc = "retire")
  BY <1>0, StoreEpochMoves DEF SameScan
<1>2. th[t].pc = "helped" => th[t].then = IF th[t].op = "read" THEN "older" ELSE "link"
  BY DEF Typed, Shaped
<1>3. rec[x] \in Header
  BY <1>0, Headers
<1>4. Nodes' = Nodes /\ \A y \in Nodes : rec'[y].write = rec[y].write /\ rec'[y].next = rec[y].next
  BY <1>1, <1>3 DEF Edits, Header, Nodes
<1>5. th[t].pc = "helped" => x = th[t].hold
  BY DEF Target
<1>6. rec[th[t].hold].write # 0
  BY <1>0, <1>1, <1>5, Targets
<1>7. ~Committing(t)' /\ (Reads(t)' => Reads(t))
  BY <1>1, <1>2 DEF Committing, Reads, SameOp
<1>8. Informed(t)'
  BY <1>0, <1>1, <1>2, <1>4, <1>6, <1>7 DEF Informed, SameHand
<1>9. Linear(t)'
  <2>1. SUFFICES ASSUME Reads(t)' PROVE Linear(t)'
    BY DEF Linear
  <2>2. ASSUME th[t].hold # root, rec[root].write = 0, NEW v \in Threads, Committing(v)', Target(v)' = root
        PROVE  th'[v].saw > th[t].at
    <3>1. v # t
      BY <1>7, <2>2
    <3>2. th'[v] = th[v] /\ Committing(v)' = Committing(v) /\ Target(v)' = Target(v)
      BY <1>1, <3>1, OthersKeep
    <3>3. QED
      BY <1>0, <1>7, <2>1, <2>2, <3>2 DEF Ordered, Linear
  <2>3. th'[t].pc # "found"
    BY <1>1, <1>2
  <2>4. Linear(t) /\ Reads(t) /\ root \in Nodes
    BY <1>7, <2>1, Writes DEF Ordered
  <2>5. QED
    BY <1>0, <1>1, <1>4, <1>6, <2>2, <2>3, <2>4 DEF Linear, SameHand, SameOp
<1>10. epoch' >= epoch /\ \A u \in Threads : u # t /\ th[u].pc = "swap" => rec'[th[u].own].next = rec[th[u].own].next
  BY <1>1, <1>4, Writes DEF Typed, Shaped
<1>11. th[t].pc \in {"commit", "committed"} => th[t].own = x
  BY <1>1 DEF Target
<1>12. ~(th[t].pc \in {"commit", "committed"} /\ rec[root].write = 0 /\ th[t].own = root)
  BY <1>11
<1>13. QED
  BY <1>1, <1>4, <1>7, <1>8, <1>9, <1>10, <1>12, OrderedStays

\* The newest record is committed, with an epoch later than all before.
LEMMA FirstEpochOrdered ==
  ASSUME Typed, Owned, Ordered, NEW t \in Threads, StoreEpochById(t), rec[Target(t)].write = 0
  PROVE  Ordered'
<1>0. /\ Committing(t) /\ Target(t) = root /\ Holds(t) /\ th[t].hold \in Nodes /\ th[t].saw <= epoch
      /\ \A x \in Nodes : rec[x].write < th[t].saw
      /\ th[t].pc = "committed" => rec[th[t].hold].write # 0
  BY Targets DEF StoreEpochById, Committing
<1>w. /\ epoch \in Nat /\ root \in Nodes
      /\ \A x \in Nodes : rec[x].write \in Nat /\ rec[x].next \in Nodes \cup {0} /\ x # 0
      /\ \A u \in Threads : th[u].saw \in Nat /\ th[u].at \in Nat
  BY Writes
<1>1. /\ UNCHANGED <<epoch, root>> /\ Typed' /\ Moved(t)
      /\ Edits(root, [rec[root] EXCEPT !.write = IF @ = 0 THEN th[t].saw ELSE @])
      /\ SameHand(t) /\ SameOp(t) /\ th'[t].back = th[t].back
      /\ (th[t].pc = "helped" /\ th'[t].pc = th[t].then) \/ (th[t].pc = "committed" /\ th'[t].pc = "retire")
  BY <1>0, <1>w, StoreEpochMoves DEF SameScan
<1>2. th[t].pc = "helped" => th[t].then = IF th[t].op = "read" THEN "older" ELSE "link"
  BY DEF Typed, Shaped
<1>3. /\ Nodes' = Nodes /\ rec'[root].write = th[t].saw /\ th[t].saw > 0
      /\ \A y \in Nodes : rec'[y].next = rec[y].next /\ (y # root => rec'[y].write = rec[y].write)
  <2>1. rec[root] \in Header
    BY <1>w, Headers
  <2>2. QED
    BY <1>0, <1>1, <1>w, <2>1 DEF Edits, Header, Nodes
<1>4. rec[root].write = 0 /\ rec'[root].write # 0
  BY <1>0, <1>3, <1>w
<1>5. Chained'
  <2>1. /\ rec[root].next \in Nodes /\ rec[rec[root].next].write # 0 /\ rec[root].next # root
        /\ \A x \in Nodes : rec[x].write <= rec[rec[root].next].write
    BY <1>4 DEF Ordered, Chained
  <2>2. epoch' >= 2 /\ \A x \in Nodes' : rec'[x].write <= epoch' /\ rec'[x].write <= rec'[root].write
    BY <1>0, <1>1, <1>3, <1>w DEF Ordered, Chained
  <2>3. ASSUME NEW z \in Nodes, rec'[z].write # 0
        PROVE  /\ rec'[z].next = 0 => rec'[z].write <= 2
               /\ rec'[z].next # 0 =>
                    /\ rec'[z].next \in Nodes' /\ rec'[rec'[z].next].write # 0
                    /\ \A x \in Nodes' : rec'[x].write <= rec'[rec'[z].next].write \/ rec'[x].write >= rec'[z].write
    <3>1. CASE z = root
      BY <1>3, <1>w, <2>1, <3>1
    <3>2. CASE z # root
      <4>1. rec[z].write # 0 /\ rec'[z].write = rec[z].write /\ rec'[z].next = rec[z].next
        BY <1>3, <2>3, <3>2
      <4>2. /\ rec[z].next = 0 => rec[z].write <= 2
            /\ rec[z].next # 0 =>
               /\ rec[z].next \in Nodes /\ rec[rec[z].next].write # 0
               /\ \A x \in Nodes : rec[x].write <= rec[rec[z].next].write \/ rec[x].write >= rec[z].write
        BY <4>1 DEF Ordered, Chained
      <4>3. rec'[root].write >= rec'[z].write
        BY <1>0, <1>3, <1>w, <4>1
      <4>4. ASSUME rec[z].next # 0
            PROVE  /\ rec[z].next \in Nodes /\ rec'[rec[z].next].write = rec[rec[z].next].write
                   /\ \A x \in Nodes : rec'[x].write <= rec[rec[z].next].write \/ rec'[x].write >= rec[z].write
        BY <1>3, <1>4, <4>1, <4>2, <4>3, <4>4
      <4>5. QED
        BY <1>3, <4>1, <4>2, <4>4
    <3>3. QED
      BY <3>1, <3>2
  <2>4. QED
    BY <1>1, <1>3, <1>4, <2>2, <2>3 DEF Chained
<1>6. RootWriter'
  BY <1>1, <1>4 DEF RootWriter
<1>7. ASSUME NEW u \in Threads PROVE Informed(u)'
  <2>1. Informed(u) /\ Shaped(u) /\ (Committing(u) => Target(u) \in Nodes)
    BY Targets DEF Ordered, Typed
  <2>2. \A x \in Nodes : rec'[x].write = 0 => rec[x].write = 0 /\ x # root
    BY <1>3, <1>4
  <2>3. CASE u = t
    <3>1. ~Committing(t)' /\ th'[t].pc \notin {"swap", "give", "commit"} /\ rec'[th[t].hold].write # 0
      <4>1. th[t].pc = "helped" => th[t].hold = root
        BY <1>0 DEF Target
      <4>2. rec'[th[t].hold].write # 0
        BY <1>0, <1>1, <1>4, <2>2, <4>1
      <4>3. QED
        BY <1>1, <1>2, <4>2 DEF Committing
    <3>2. QED
      BY <1>0, <1>1, <1>3, <2>3, <3>1 DEF Informed, SameHand, Committing
  <2>4. CASE u # t
    <3>1. th'[u] = th[u] /\ Holds(u)' = Holds(u) /\ Committing(u)' = Committing(u) /\ Target(u)' = Target(u)
      BY <1>1, <2>4, OthersKeep
    <3>2. Holds(u) => th[u].hold \in Nodes /\ rec'[th[u].hold].write # 0
      BY <2>1, <2>2 DEF Informed
    <3>3. th[u].pc \in {"commit", "committed"} => rec'[th[u].own].write # 0
      BY <2>1, <2>2 DEF Informed, Shaped
    <3>4. Committing(u) => rec'[Target(u)].write # 0 /\ th[u].saw <= epoch
      <4>1. ASSUME Committing(u), rec[Target(u)].write = 0 PROVE Target(u) = root
        BY <4>1, Targets
      <4>2. QED
        BY <2>1, <2>2, <4>1 DEF Informed
    <3>5. th[u].pc \in {"swap", "give"} =>
            th[u].own \in Nodes /\ th[u].own # root /\ rec'[th[u].own].write = 0
                                /\ rec'[th[u].own].next = rec[th[u].own].next
      <4>1. th[u].pc \in {"swap", "give"} => th[u].own \in Has(u) /\ root \notin Has(u)
        BY DEF Has, Private, Owned, Apart
      <4>2. QED
        BY <1>3, <2>1, <4>1 DEF Informed, Shaped
    <3>6. QED
      BY <1>1, <1>3, <2>1, <3>1, <3>2, <3>3, <3>4, <3>5 DEF Informed
  <2>5. QED
    BY <2>3, <2>4
<1>8. ASSUME NEW u \in Threads PROVE Linear(u)'
  <2>0. /\ Reads(u)' => Reads(u) /\ (Holds(u)' => Holds(u))
        /\ th'[u].hold = th[u].hold /\ th'[u].at = th[u].at
        /\ th'[u].pc = "found" => th[u].pc = "found"
    <3>1. CASE u = t
      BY <1>0, <1>1, <1>2, <3>1 DEF Reads, SameHand, SameOp, Committing
    <3>2. CASE u # t
      BY <1>1, <3>2, OthersKeep
    <3>3. QED
      BY <3>1, <3>2
  <2>1. SUFFICES ASSUME Reads(u)' PROVE Linear(u)'
    BY DEF Linear
  <2>2. Linear(u) /\ Reads(u) /\ Informed(u)
    BY <2>0, <2>1 DEF Ordered
  <2>3. th'[u].at <= epoch' /\ th'[u].at >= 2
    BY <1>1, <2>0, <2>2 DEF Linear
  <2>4. ASSUME Holds(u)', NEW x \in Nodes, rec'[x].write > rec'[th[u].hold].write
        PROVE  rec'[x].write > th[u].at
    <3>1. Holds(u) /\ th[u].hold \in Nodes
      BY <2>0, <2>1, <2>2, <2>4 DEF Informed
    <3>2. CASE th[u].hold = root
      <4>1. x # root
        BY <1>3, <1>w, <2>4, <3>2
      <4>2. rec'[x].write < th[t].saw
        BY <1>0, <1>3, <4>1
      <4>3. QED
        BY <1>3, <1>w, <2>4, <3>2, <4>1, <4>2
    <3>3. CASE th[u].hold # root
      <4>1. rec[th[u].hold].write # 0 /\ rec'[th[u].hold].write = rec[th[u].hold].write
        BY <1>3, <2>2, <3>1, <3>3 DEF Informed
      <4>2. CASE x = root
        BY <1>0, <1>3, <1>4, <2>2, <3>1, <3>3, <4>2 DEF Linear
      <4>3. CASE x # root
        BY <1>3, <2>2, <2>4, <3>1, <4>1, <4>3 DEF Linear
      <4>4. QED
        BY <4>2, <4>3
    <3>4. QED
      BY <3>2, <3>3
  <2>5. th'[u].pc = "found" => rec'[th[u].hold].write <= th[u].at
    <3>1. SUFFICES ASSUME th[u].pc = "found" PROVE rec'[th[u].hold].write <= th[u].at
      BY <2>0
    <3>2. Holds(u)
      BY <3>1 DEF Holds
    <3>3. th[u].hold \in Nodes /\ th[u].hold # root
      <4>1. th[u].hold \in Nodes /\ (rec[th[u].hold].write = 0 => th[u].pc \in {"see", "help", "helped"})
        BY <2>2, <3>2 DEF Informed
      <4>2. QED
        BY <1>4, <3>1, <4>1
    <3>4. QED
      BY <1>3, <2>2, <3>1, <3>3 DEF Linear
  <2>6. QED
    BY <1>1, <1>3, <1>4, <2>0, <2>3, <2>4, <2>5 DEF Linear
<1>9. QED
  BY <1>5, <1>6, <1>7, <1>8 DEF Ordered

LEMMA SwapRootOrdered ==
  ASSUME Typed, Ordered, NEW t \in Threads, SwapRootById(t)
  PROVE  Ordered'
<1> DEFINE x == th[t].own
<1>1. /\ UNCHANGED <<epoch, rec>> /\ Typed' /\ Moved(t) /\ th[t].pc = "swap" /\ th'[t].pc = "commit"
      /\ root = th[t].hold /\ root' = x /\ th'[t].hold = root /\ th'[t].own = x /\ th'[t].victim = root
  BY SwapRootMoves DEF SameOp
<1>2. /\ x \in Nodes /\ rec[x].write = 0 /\ rec[x].next = root /\ rec[root].write # 0 /\ root \in Nodes
      /\ Nodes' = Nodes /\ Holds(t)' /\ ~Committing(t)' /\ ~Reads(t)'
  <2>1. Holds(t) /\ Informed(t) /\ Shaped(t)
    BY <1>1 DEF Holds, Ordered, Typed
  <2>2. QED
    BY <1>1, <2>1 DEF Informed, Shaped, Nodes, Holds, Committing, Reads
<1> HIDE DEF x
<1>3. Chained'
  BY <1>1, <1>2 DEF Ordered, Chained
<1>4. RootWriter'
  BY <1>1, <1>2 DEF RootWriter
<1>5. ASSUME NEW u \in Threads PROVE Informed(u)'
  <2>1. CASE u = t
    BY <1>1, <1>2, <2>1 DEF Informed
  <2>2. CASE u # t
    <3>1. th'[u] = th[u] /\ Holds(u)' = Holds(u) /\ Committing(u)' = Committing(u) /\ Target(u)' = Target(u)
      BY <1>1, <2>2, OthersKeep
    <3>2. Informed(u)
      BY DEF Ordered
    <3>3. /\ Holds(u) => rec[th[u].hold].write # 0
          /\ th[u].pc \in {"commit", "committed"} => rec[th[u].own].write # 0
      BY <1>2, <3>2 DEF Informed
    <3>4. QED
      BY <1>1, <1>2, <3>1, <3>2, <3>3 DEF Informed
  <2>3. QED
    BY <2>1, <2>2
<1>6. ASSUME NEW u \in Threads PROVE Linear(u)'
  <2>1. CASE u = t
    BY <1>2, <2>1 DEF Linear
  <2>2. CASE u # t
    <3>1. th'[u] = th[u] /\ Holds(u)' = Holds(u) /\ Reads(u)' = Reads(u)
      BY <1>1, <2>2, OthersKeep
    <3>2. \A v \in Threads : Committing(v)' => Target(v)' # root'
      <4> SUFFICES ASSUME NEW v \in Threads, Committing(v)', Target(v)' = x PROVE FALSE
        BY <1>1
      <4>1. v # t
        BY <1>2
      <4>2. Committing(v) /\ Target(v) = x
        BY <1>1, <4>1, OthersKeep
      <4>3. x = root
        BY <1>2, <4>2, Targets
      <4>4. QED
        BY <1>2, <4>3
    <3>3. Linear(u)
      BY DEF Ordered
    <3>4. QED
      BY <1>1, <1>2, <3>1, <3>2, <3>3 DEF Linear
  <2>3. QED
    BY <2>1, <2>2
<1>7. QED
  BY <1>3, <1>4, <1>5, <1>6 DEF Ordered

-----------------------------------------------------------------------------
(* The first part of the invariant.                                        *)

LEMMA InitIInv == Init => IInv
<1> SUFFICES ASSUME Init PROVE IInv
  OBVIOUS
<1>1. /\ Len(rec) = 1 /\ rec \in Seq(Header) /\ Nodes = {1} /\ root = 1 /\ freeTids = 0 /\ epoch = 2 /\ nexttid = 0
      /\ rec[1].next = 0 /\ rec[1].write = 2 /\ rec[1].freed = 0
  BY DEF Init, Fresh, Header, Nodes
<1>2. ASSUME NEW t \in Threads
      PROVE  th[t] = Thread \/ th[t] = [Thread EXCEPT !.pc = "gone"]
  BY DEF Init
<1>3. Thread \in State /\ [Thread EXCEPT !.pc = "gone"] \in State
  <2>1. <<>> \in Seq(Nat) /\ "new" \in PCs /\ "gone" \in PCs
    BY DEF PCs
  <2>2. Thread \in State
    BY <2>1, Numbers DEF Thread, State, NotPending
  <2>3. QED
    BY <2>1, <2>2 DEF State
<1>4. th \in [Threads -> State]
  <2>1. th = [t \in Threads |-> th[t]]
    BY DEF Init
  <2>2. QED
    BY <1>2, <1>3, <2>1
<1>5. ASSUME NEW t \in Threads
      PROVE  /\ th[t].pc \in {"new", "gone"} /\ th[t].hold = 0 /\ th[t].list = <<>>
             /\ th[t].pending = NotPending
  BY <1>2 DEF Thread
<1>6. TypeOK
  <2>1. reservations \in [0..(MaxTids - 1) -> Nat]
    BY DEF Init
  <2>2. QED
    BY <1>1, <1>4, <2>1 DEF TypeOK
<1>7. \A t \in Threads : Shaped(t) /\ ~Holds(t) /\ ~Reads(t) /\ ~Owns(t) /\ Has(t) = {}
  BY <1>5 DEF Shaped, Owns, Holds, InEmpty, Reads, Has, Listed, Private, Victim
<1>8. Owned
  <2>1. Apart({})
    <3>1. \A t \in Threads : Listed(t) = {} /\ DOMAIN th[t].list = {}
      BY <1>5 DEF Listed
    <3>2. QED
      BY <1>1, <1>7, <3>1 DEF Apart
  <2>2. FreeList({})
    BY <1>1, <1>5, <1>7 DEF FreeList
  <2>3. QED
    BY <2>1, <2>2 DEF Owned
<1>9. Ordered
  <2>1. Chained
    BY <1>1 DEF Chained
  <2>2. RootWriter
    BY <1>1 DEF RootWriter
  <2>3. \A t \in Threads : Informed(t) /\ Linear(t)
    BY <1>5, <1>7 DEF Informed, Linear, Committing
  <2>4. QED
    BY <2>1, <2>2, <2>3 DEF Ordered
<1>10. QED
  BY <1>6, <1>7, <1>8, <1>9 DEF IInv

LEMMA StepIInv ==
  ASSUME IInv, NEW t \in Threads, StepById(t) \/ Flush(t)
  PROVE  IInv'
<1>0. Typed /\ Owned /\ Ordered
  BY DEF IInv, Typed
<1> SUFFICES Typed' /\ Owned' /\ Ordered'
  BY DEF IInv, Typed
<1>1. CASE AcquireById(t)
  <2>1. CASE NewTid(t)
    BY <1>0, <2>1, NewTidMoves, NewTidOwned, StillOrdered
  <2>2. CASE LoadHeadById(t)
    BY <1>0, <2>2, LoadHeadMoves, LoadHeadOwned, StillOrdered
  <2>3. CASE PopTidById(t)
    BY <1>0, <2>3, PopTidMoves, PopTidOwned, StillOrdered
  <2>4. CASE ClearSlot(t)
    BY <1>0, <2>4, OpOwned, OlderInformed, StillOrdered DEF Quiet
  <2>5. CASE ReadBelowById(t)
    BY <1>0, <2>5, ReadBelowMoves, ReadBelowOwned, StillOrdered
  <2>6. QED
    BY <1>1, <2>1, <2>2, <2>3, <2>4, <2>5 DEF AcquireById
<1>2. CASE StartOp(t)
  <2>1. Typed' /\ Owned'
    BY <1>0, <1>2, OpOwned, OlderInformed DEF StartOp, Quiet
  <2>2. QED
    BY <1>0, <1>2, <2>1, StillOrdered, ReadEpochOrdered DEF StartOp
<1>3. CASE EndOp(t)
  BY <1>0, <1>3, OpOwned, OlderInformed, StillOrdered DEF Quiet
<1>4. CASE CommitById(t)
  <2>1. CASE SeeEpochById(t)
    BY <1>0, <2>1, OpOwned, OlderInformed, GoOnOrdered DEF Quiet
  <2>2. CASE NewEpoch(t)
    BY <1>0, <2>2, NewEpochMoves, NewEpochOwned, NewEpochOrdered
  <2>3. CASE StoreEpochById(t)
    <3>1. Target(t) \in Nodes
      BY <1>0, <2>3, Targets DEF StoreEpochById, Committing
    <3>2. QED
      BY <1>0, <2>3, <3>1, StoreEpochMoves, StoreEpochOwned, LateEpochOrdered, FirstEpochOrdered
  <2>4. QED
    BY <1>4, <2>1, <2>2, <2>3 DEF CommitById
<1>5. CASE LoadRoot(t)
  BY <1>0, <1>5, OpOwned, OlderInformed, LoadRootOrdered DEF Quiet
<1>6. CASE ReadById(t)
  <2>1. Typed' /\ Owned'
    BY <1>0, <1>6, OpOwned, OlderInformed DEF ReadById, Quiet
  <2>2. QED
    BY <1>0, <1>6, <2>1, OlderOrdered, GoOnOrdered DEF ReadById
<1>7. CASE WriteById(t)
  <2>1. CASE Link(t)
    BY <1>0, <2>1, LinkMoves, LinkOwned, LinkOrdered
  <2>2. CASE SwapRootById(t)
    BY <1>0, <2>2, SwapRootMoves, SwapRootOwned, SwapRootOrdered
  <2>3. CASE LoseRootById(t)
    BY <1>0, <2>3, LoseRootMoves, LoseRootOwned, LoseRootOrdered
  <2>4. QED
    BY <1>7, <2>1, <2>2, <2>3 DEF WriteById
<1>8. CASE Retire(t)
  BY <1>0, <1>8, RetireMoves, RetireOwned, RetireOrdered
<1>9. CASE Empty(t)
  <2>1. CASE FreeOld(t)
    BY <1>0, <2>1, FreeOldMoves, FreeOldOwned, FreeOldOrdered
  <2>2. CASE BeginScan(t) \/ ScanSlot(t)
    <3>1. Typed' /\ Owned'
      BY <1>0, <2>2, OpOwned, OlderInformed DEF Quiet
    <3>2. QED
      BY <1>0, <2>2, <3>1, GoOnOrdered
  <2>3. QED
    BY <1>9, <2>1, <2>2 DEF Empty
<1>10. CASE ReleaseById(t)
  <2>1. CASE Leave(t) \/ LeaveScan(t)
    <3>1. Typed' /\ Owned'
      BY <1>0, <2>1, OpOwned, OlderInformed DEF Quiet
    <3>2. QED
      BY <1>0, <2>1, <3>1, StillOrdered, GoOnOrdered
  <2>2. CASE NewNode(t)
    BY <1>0, <2>2, NewNodeMoves, NewNodeOwned, NewNodeOrdered
  <2>3. CASE GiveTidById(t)
    BY <1>0, <2>3, GiveTidMoves, GiveTidOwned, GiveOrdered
  <2>4. CASE RetryGiveById(t)
    BY <1>0, <2>4, RetryGiveMoves, RetryGiveOwned, GiveOrdered
  <2>5. QED
    BY <1>10, <2>1, <2>2, <2>3, <2>4 DEF ReleaseById
<1>11. CASE Flush(t)
  BY <1>0, <1>11, FlushOwned, FlushOrdered
<1>12. QED
  BY <1>1, <1>2, <1>3, <1>4, <1>5, <1>6, <1>7, <1>8, <1>9, <1>10, <1>11 DEF StepById

LEMMA IdleIInv ==
  ASSUME IInv, UNCHANGED vars
  PROVE  IInv'
<1>1. UNCHANGED <<epoch, nexttid, reservations, rec, freeTids, root, th>> /\ Nodes' = Nodes
  BY DEF vars, Nodes
<1>2. TypeOK' /\ \A t \in Threads : Shaped(t)'
  BY <1>1 DEF IInv, TypeOK, Shaped, Owns, Holds, InEmpty
<1>3. Owned'
  <2>1. PICK free \in SUBSET Nodes : Apart(free) /\ FreeList(free)
    BY DEF IInv, Owned
  <2>2. \A t \in Threads : /\ Has(t)' = Has(t) /\ Listed(t)' = Listed(t) /\ Private(t)' = Private(t)
                           /\ Victim(t)' = Victim(t) /\ Owns(t)' = Owns(t)
    BY <1>1 DEF Has, Listed, Private, Victim, Owns
  <2>3. Apart(free)'
    BY <1>1, <2>1, <2>2 DEF Apart
  <2>4. FreeList(free)'
    BY <1>1, <2>1, <2>2 DEF FreeList
  <2>5. QED
    BY <1>1, <2>1, <2>3, <2>4 DEF Owned
<1>4. Ordered'
  <2>1. \A t \in Threads : /\ Holds(t)' = Holds(t) /\ Reads(t)' = Reads(t) /\ Committing(t)' = Committing(t)
                           /\ Target(t)' = Target(t)
    BY <1>1 DEF Holds, Reads, Committing, Target, InEmpty
  <2>2. Chained' /\ RootWriter'
    BY <1>1 DEF IInv, Ordered, Chained, RootWriter
  <2>3. \A t \in Threads : Informed(t)'
    BY <1>1, <2>1 DEF IInv, Ordered, Informed
  <2>4. \A t \in Threads : Linear(t)'
    BY <1>1, <2>1 DEF IInv, Ordered, Linear
  <2>5. QED
    BY <2>2, <2>3, <2>4 DEF Ordered
<1>5. QED
  BY <1>2, <1>3, <1>4 DEF IInv

-----------------------------------------------------------------------------
(* What a reservation protects.                                            *)

\* What a thread can come to: the newest record, or one that was committed.
Reach == {x \in Nodes : rec[x].write # 0 \/ x = root}

LEMMA SafeStays ==
  ASSUME NEW t \in Threads, Moved(t), NEW u \in Threads, NEW x, Safe(u, x),
         th'[u].tid = th[u].tid, Epoch(u)' = Epoch(u),
         rec'[x].freed = rec[x].freed, rec'[x].retire = rec[x].retire,
         x \in Listed(t)' => x \in Listed(t),
         th'[t].pc = "slots" => /\ th[t].pc = "slots" /\ th'[t].last = th[t].last
                                /\ th'[t].i = th[t].i /\ th'[t].lowest = th[t].lowest
  PROVE  Safe(u, x)'
<1>1. ASSUME NEW v \in Threads, x \in Listed(v)'
      PROVE  /\ Epoch(u)' <= rec'[x].retire
             /\ th'[v].pc = "slots" =>
                  /\ th'[u].tid < th'[v].last
                  /\ th'[u].tid < th'[v].i => th'[v].lowest <= Epoch(u)'
  <2>1. CASE v = t
    BY <1>1, <2>1 DEF Safe
  <2>2. CASE v # t
    <3>1. th'[v] = th[v] /\ Listed(v)' = Listed(v)
      BY <2>2, OthersKeep
    <3>2. QED
      BY <1>1, <3>1 DEF Safe
  <2>3. QED
    BY <2>1, <2>2
<1>2. QED
  BY <1>1 DEF Safe

LEMMA Reachable ==
  ASSUME Typed, Ordered, NEW t \in Threads
  PROVE  /\ Holds(t) => th[t].hold \in Reach
         /\ th[t].pc \in {"commit", "committed"} => th[t].own \in Reach
         /\ Reads(t) => \A z \in Nodes : rec[z].write > th[t].at => rec[z].next \in Reach
<1>1. /\ Holds(t) => th[t].hold \in Reach
      /\ th[t].pc \in {"commit", "committed"} => th[t].own \in Reach
  BY DEF Reach, Ordered, Informed, Typed, Shaped
<1>2. ASSUME Reads(t), NEW z \in Nodes, rec[z].write > th[t].at PROVE rec[z].next \in Reach
  <2>1. th[t].at >= 2 /\ rec[z].write \in Nat /\ th[t].at \in Nat
    BY <1>2, Writes DEF Ordered, Linear
  <2>2. rec[z].write # 0 /\ ~(rec[z].write <= 2)
    BY <1>2, <2>1
  <2>3. QED
    BY <2>2 DEF Ordered, Chained, Reach
<1>3. QED
  BY <1>1, <1>2

\* A thread that goes on with what it holds.
LEMMA ProtectedStays ==
  ASSUME Typed, Ordered, NEW u \in Threads, Protected(u), epoch' >= epoch, epoch' \in Nat,
         Holds(u)' => Holds(u), Reads(u)' => Reads(u), th'[u].hold = th[u].hold, th'[u].at = th[u].at,
         th'[u].pc \in {"reserve", "again", "root"} => th'[u].pc = th[u].pc /\ th'[u].saw = th[u].saw,
         th'[u].pending = th[u].pending, Owns(u) => Epoch(u)' = Epoch(u), Owns(u) => Epoch(u) \in Nat,
         \A x \in Reach : Safe(u, x) /\ (Holds(u) \/ Reads(u)) => Safe(u, x)',
         th'[u].pc \in {"commit", "committed"} =>
           \/ th[u].pc \in {"commit", "committed"} /\ th'[u].own = th[u].own
           \/ Safe(u, th[u].own)',
         \A z \in Nodes' : Reads(u)' /\ rec'[z].write > th[u].at =>
           \/ z \in Nodes /\ rec[z].write > th[u].at /\ rec'[z].next = rec[z].next
           \/ Safe(u, rec[z].next)'
  PROVE  Protected(u)'
<1>0. Drained(u)' = Drained(u) /\ (Holds(u) \/ Reads(u) \/ th[u].pc \in {"again", "root"} => Owns(u))
  BY DEF Drained, Holds, Reads, InEmpty, Owns
<1>1. epoch \in Nat /\ th[u].saw \in Nat /\ th[u].pending \in Nat
  BY DEF Typed, TypeOK, State
<1>2. Announced(u)' => Announced(u)
  BY <1>0 DEF Announced
<1>3. Announced(u)' => Epoch(u)' <= epoch'
  BY <1>0, <1>1, <1>2 DEF Protected, Announced
<1>4. Reads(u)' => Epoch(u)' <= th'[u].at
  BY <1>0 DEF Protected
<1>5. Holds(u)' => Safe(u, th[u].hold)'
  <2>1. ASSUME Holds(u) PROVE Safe(u, th[u].hold) /\ th[u].hold \in Reach /\ Owns(u)
    BY <1>0, <2>1, Reachable DEF Protected
  <2>2. PICK x : x = th[u].hold
    OBVIOUS
  <2>3. ASSUME Holds(u) PROVE Safe(u, x)'
    BY <2>1, <2>2, <2>3
  <2>4. QED
    BY <2>2, <2>3
<1>6. ASSUME Reads(u)', NEW z \in Nodes', rec'[z].write > th[u].at PROVE Safe(u, rec[z].next)'
  <2>1. CASE z \in Nodes /\ rec[z].write > th[u].at /\ rec'[z].next = rec[z].next
    <3>1. Safe(u, rec[z].next) /\ rec[z].next \in Reach /\ Reads(u)
      BY <1>0, <1>6, <2>1, Reachable DEF Protected
    <3>2. PICK x : x = rec[z].next
      OBVIOUS
    <3>3. Safe(u, x)'
      BY <3>1, <3>2
    <3>4. QED
      BY <2>1, <3>2, <3>3
  <2>2. QED
    BY <1>6, <2>1
<1>7. /\ Holds(u)' \/ Reads(u)' => Drained(u)'
      /\ th'[u].pc = "reserve" => th'[u].saw <= epoch' /\ th'[u].saw # NotPending
      /\ th'[u].pc \in {"again", "root"} /\ ~Drained(u)' => th'[u].pending <= epoch'
  BY <1>0, <1>1 DEF Protected
<1>8. th'[u].pc \in {"commit", "committed"} => Safe(u, th[u].own)'
  <2> SUFFICES ASSUME th[u].pc \in {"commit", "committed"}, th'[u].own = th[u].own
               PROVE  Safe(u, th[u].own)'
    OBVIOUS
  <2>1. Safe(u, th[u].own) /\ th[u].own \in Reach /\ Holds(u)
    BY Reachable DEF Protected, Holds
  <2>2. PICK x : x = th[u].own
    OBVIOUS
  <2>3. Safe(u, x)'
    BY <2>1, <2>2
  <2>4. QED
    BY <2>2, <2>3
<1>9. QED
  BY <1>3, <1>4, <1>5, <1>6, <1>7, <1>8 DEF Protected

\* A thread that has nothing, and does not begin to.
LEMMA IdleProtected ==
  ASSUME NEW t \in Threads, ~Holds(t)', ~Reads(t)', th'[t].pc \notin {"reserve", "again", "root"}
  PROVE  Protected(t)'
BY DEF Protected, Announced, Holds

LEMMA OwnerTid ==
  ASSUME Typed, Owned, NEW u \in Threads, Owns(u)
  PROVE  th[u].tid \in 0..(MaxTids - 1) /\ th[u].tid < nexttid /\ th[u].tid < MaxTids /\ Epoch(u) \in Nat
<1>1. th[u].tid < nexttid /\ th[u].tid < MaxTids
  BY DEF Owned, FreeList
<1>2. th[u].tid \in 0..(MaxTids - 1)
  BY <1>1, Numbers DEF Typed, TypeOK, State
<1>3. QED
  BY <1>1, <1>2 DEF Typed, TypeOK, Epoch

\* The epochs in the headers and the order of the chain, as the other threads see them.
SameChain ==
  \A z \in Nodes' : rec'[z].write # 0 => /\ z \in Nodes /\ rec'[z].write = rec[z].write
                                         /\ rec'[z].next = rec[z].next

LEMMA ChainKeeps ==
  ASSUME Typed, Typed', SameChain, NEW u \in Threads
  PROVE  \A z \in Nodes' : rec'[z].write > th[u].at =>
           z \in Nodes /\ rec[z].write > th[u].at /\ rec'[z].next = rec[z].next
<1>1. th[u].at \in Nat
  BY DEF Typed, TypeOK, State
<1>2. ASSUME NEW z \in Nodes' PROVE rec'[z].write \in Nat
  <2>1. rec' \in Seq(Header) /\ z \in 1..Len(rec')
    BY <1>2 DEF Typed, TypeOK, Nodes
  <2>2. rec'[z] \in Header
    BY <2>1
  <2>3. QED
    BY <2>2 DEF Header
<1>3. QED
  BY <1>1, <1>2 DEF SameChain

\* What a step of t that frees nothing in reach leaves to the others.
LEMMA OthersProtected ==
  ASSUME Typed, Owned, Ordered, Reclaimed, Typed', NEW t \in Threads, Moved(t), epoch' >= epoch,
         SameChain, NEW u \in Threads, u # t, Owns(u) => Epoch(u)' = Epoch(u),
         \A x \in Reach : Safe(u, x) /\ (Holds(u) \/ Reads(u)) => Safe(u, x)'
  PROVE  Protected(u)'
<1>1. th'[u] = th[u] /\ Holds(u)' = Holds(u) /\ Reads(u)' = Reads(u)
  BY OthersKeep
<1>2. Protected(u) /\ epoch' \in Nat /\ (Owns(u) => Epoch(u) \in Nat)
  BY OwnerTid DEF Reclaimed, Typed, TypeOK
<1>3. \A z \in Nodes' : rec'[z].write > th[u].at =>
        z \in Nodes /\ rec[z].write > th[u].at /\ rec'[z].next = rec[z].next
  BY ChainKeeps
<1>4. QED
  BY <1>1, <1>2, <1>3, ProtectedStays

LEMMA SortedStays ==
  ASSUME Typed, Typed', epoch' >= epoch, NEW u \in Threads, Sorted(u), th'[u].list = th[u].list,
         \A x \in Nodes : x \in Listed(u) => rec'[x].retire = rec[x].retire
  PROVE  Sorted(u)'
<1>1. \A n \in DOMAIN th[u].list : th[u].list[n] \in Nodes /\ th[u].list[n] \in Listed(u)
  BY DEF Typed, Shaped, Listed
<1>2. epoch \in Nat /\ epoch' \in Nat /\ \A x \in Nodes : rec[x].retire \in Nat
  BY Headers DEF Typed, TypeOK, Header
<1>3. QED
  BY <1>1, <1>2 DEF Sorted

\* A step that frees nothing in reach, and changes no list, slot or scan.
Calm(t) ==
  /\ Moved(t) /\ epoch' >= epoch /\ reservations' = reservations /\ SameChain
  /\ \A x \in Nodes : rec'[x].retire = rec[x].retire
  /\ \A x \in Reach : rec'[x].freed = rec[x].freed
  /\ th'[t].list = th[t].list
  /\ th'[t].pc = "slots" => /\ th[t].pc = "slots" /\ th'[t].last = th[t].last
                            /\ th'[t].i = th[t].i /\ th'[t].lowest = th[t].lowest

LEMMA CalmSafe ==
  ASSUME Typed, NEW t \in Threads, Calm(t), NEW u \in Threads, th'[u].tid = th[u].tid,
         NEW x \in Reach, Safe(u, x)
  PROVE  Safe(u, x)'
<1>1. x \in Nodes /\ Epoch(u)' = Epoch(u) /\ Listed(t)' = Listed(t)
  BY DEF Reach, Epoch, Calm, Listed
<1>2. rec'[x].retire = rec[x].retire /\ rec'[x].freed = rec[x].freed
  BY <1>1 DEF Calm
<1>3. QED
  BY <1>1, <1>2, SafeStays DEF Calm

LEMMA CalmReclaimed ==
  ASSUME Typed, Owned, Ordered, Reclaimed, Typed', NEW t \in Threads, Calm(t), Protected(t)'
  PROVE  Reclaimed'
<1>1. ASSUME NEW u \in Threads, u # t PROVE Protected(u)'
  <2>1. th'[u] = th[u]
    BY <1>1 DEF Calm, Moved
  <2>2. Epoch(u)' = Epoch(u)
    BY <2>1 DEF Epoch, Calm
  <2>3. \A x \in Reach : Safe(u, x) => Safe(u, x)'
    BY <2>1, CalmSafe
  <2>4. QED
    BY <1>1, <2>2, <2>3, OthersProtected DEF Calm
<1>2. ASSUME NEW u \in Threads PROVE Sorted(u)'
  <2>1. th'[u].list = th[u].list
    BY DEF Calm, Moved
  <2>2. QED
    BY <2>1, SortedStays DEF Calm, Reclaimed
<1>3. QED
  BY <1>1, <1>2 DEF Reclaimed

LEMMA HeadersCalm ==
  ASSUME Typed, NEW t \in Threads, Moved(t), rec' = rec, epoch' \in {epoch, epoch + 1},
         reservations' = reservations, th'[t].list = th[t].list, th'[t].pc # "slots"
  PROVE  Calm(t)
<1>1. Nodes' = Nodes /\ epoch' >= epoch
  BY DEF Nodes, Typed, TypeOK
<1>2. QED
  BY <1>1 DEF Calm, SameChain

\* Steps of a thread outside its operations, and the end of one.
LEMMA IdleReclaimed ==
  ASSUME Typed, Owned, Ordered, Reclaimed, NEW t \in Threads,
         \/ NewTid(t) \/ LoadHeadById(t) \/ ReadBelowById(t) \/ PopTidById(t) \/ ClearSlot(t) \/ EndOp(t) 
         \/ Leave(t) \/ LeaveScan(t)
  PROVE  Reclaimed'
<1>1. /\ Typed' /\ Moved(t) /\ UNCHANGED <<epoch, reservations, rec>>
      /\ th'[t].list = th[t].list
      /\ \/ th'[t].pc \in {"slot", "head", "pop", "take", "panic", "ready", "leave", "gone"}
         \/ th'[t].pc \in {"retire", "scan"} /\ th'[t].back # "end"
  <2>1. CASE NewTid(t)
    BY <2>1, NewTidMoves DEF SameScan
  <2>2. CASE LoadHeadById(t)
    BY <2>2, LoadHeadMoves DEF SameScan, Local
  <2>3. CASE PopTidById(t)
    BY <2>3, PopTidMoves
  <2>4. CASE ClearSlot(t)
    BY <2>4, ClearSlotMoves DEF SameScan, Local
  <2>5. CASE EndOp(t)
    BY <2>5, EndOpMoves DEF SameScan, Local
  <2>6. CASE Leave(t)
    BY <2>6, LeaveMoves DEF Local
  <2>7. CASE LeaveScan(t)
    <3>1. th[t].pc = "leave" => th[t].back = "leave"
      BY DEF Typed, Shaped
    <3>2. QED
      BY <2>7, <3>1, LeaveScanMoves DEF SameScan, Local
  <2>8. CASE ReadBelowById(t)
    BY <2>8, ReadBelowMoves DEF SameScan, Local
  <2>9. QED
    BY <2>1, <2>2, <2>3, <2>4, <2>5, <2>6, <2>7, <2>8
<1>2. ~Holds(t)' /\ ~Reads(t)' /\ th'[t].pc \notin {"reserve", "again", "root", "slots"}
  BY <1>1 DEF Holds, Reads, InEmpty
<1>3. Calm(t) /\ Protected(t)'
  BY <1>1, <1>2, HeadersCalm, IdleProtected
<1>4. QED
  BY <1>1, <1>3, CalmReclaimed

\* A reservation: its epoch is that of the start, or an earlier one.
LEMMA ReserveReclaimed ==
  ASSUME Typed, Owned, Ordered, Reclaimed, NEW t \in Threads, Begin(t) \/ Reserve(t)
  PROVE  Reclaimed'
<1>0. epoch \in Nat /\ epoch >= 2 /\ Protected(t) /\ th[t].saw \in Nat
  BY DEF Typed, TypeOK, State, Ordered, Chained, Reclaimed
<1>1. /\ Typed' /\ Moved(t) /\ UNCHANGED <<epoch, reservations, rec>> /\ th'[t].list = th[t].list
      /\ \/ th'[t].pc = "reserve" /\ th'[t].saw = epoch
         \/ th'[t].pc = "again" /\ th'[t].pending = th[t].saw /\ th[t].pc = "reserve"
         \/ th'[t].pc = "root" /\ th'[t].op # "read" /\ th'[t].pending = th[t].saw /\ th[t].pc = "reserve"
  <2>1. CASE Begin(t)
    BY <2>1, BeginMoves DEF SameScan, Local
  <2>2. CASE Reserve(t)
    BY <2>2, ReserveMoves DEF SameScan, SameOp, Local
  <2>3. QED
    BY <2>1, <2>2
<1>2. ~Holds(t)' /\ ~Reads(t)' /\ th'[t].pc # "slots"
  BY <1>1 DEF Holds, Reads, InEmpty
<1>3. th'[t].pc \in {"again", "root"} => th'[t].pending <= epoch' /\ ~Drained(t)'
  BY <1>0, <1>1 DEF Protected, Drained
<1>4. Protected(t)'
  BY <1>0, <1>1, <1>2, <1>3 DEF Protected, Announced, NotPending
<1>5. QED
  BY <1>1, <1>2, <1>4, HeadersCalm, CalmReclaimed

\* A thread that goes on with its operation and with the record it holds.
LEMMA CarryReclaimed ==
  ASSUME Typed, Owned, Ordered, Reclaimed, Typed', NEW t \in Threads, Calm(t), SameSlot(t),
         th'[t].hold = th[t].hold, th'[t].at = th[t].at, Holds(t)' => Holds(t), Reads(t)' => Reads(t),
         th'[t].pc \notin {"reserve", "again", "root"},
         th'[t].pc \in {"commit", "committed"} =>
           \/ th[t].pc \in {"commit", "committed"} /\ th'[t].own = th[t].own
           \/ Safe(t, th[t].own)'
  PROVE  Reclaimed'
<1>1. Protected(t) /\ epoch' >= epoch /\ epoch' \in Nat /\ (Owns(t) => Epoch(t) \in Nat)
  BY OwnerTid DEF Reclaimed, Calm, Typed, TypeOK
<1>2. Epoch(t)' = Epoch(t) /\ th'[t].pending = th[t].pending
  BY DEF SameSlot, Epoch, Calm
<1>3. \A x \in Reach : Safe(t, x) => Safe(t, x)'
  BY CalmSafe DEF SameSlot
<1>4. \A z \in Nodes' : rec'[z].write > th[t].at =>
        z \in Nodes /\ rec[z].write > th[t].at /\ rec'[z].next = rec[z].next
  BY ChainKeeps DEF Calm
<1>5. Protected(t)'
  BY <1>1, <1>2, <1>3, <1>4, ProtectedStays
<1>6. QED
  BY <1>5, CalmReclaimed

\* What the bucket has, or a writer that has not yet put it there or not yet retired
\* it, is safe from every scan.
LEMMA UnlistedSafe ==
  ASSUME Typed, Owned, NEW t \in Threads, NEW x,
         x = root \/ \E u \in Threads : x \in Victim(u) \cup Private(u)
  PROVE  Safe(t, x)
<1>1. PICK free \in SUBSET Nodes : Apart(free)
  BY DEF Owned
<1>2. rec[x].freed = 0
  BY <1>1 DEF Apart, Has
<1>3. ASSUME NEW v \in Threads PROVE x \notin Listed(v)
  <2>1. CASE x = root
    BY <1>1, <2>1 DEF Apart, Has
  <2>2. CASE \E u \in Threads : x \in Victim(u) \cup Private(u)
    BY <1>1, <2>2 DEF Apart, Has
  <2>3. QED
    BY <2>1, <2>2
<1>4. QED
  BY <1>2, <1>3 DEF Safe

LEMMA GoOnReclaimed ==
  ASSUME Typed, Owned, Ordered, Reclaimed, NEW t \in Threads,
         SeeEpochById(t) \/ AcceptById(t) \/ EndView(t) \/ NewEpoch(t) \/ SwapRootById(t)
  PROVE  Reclaimed'
<1>0. th[t].pc \in {"see", "help"} => th[t].then = IF th[t].op = "read" THEN "older" ELSE "link"
  BY DEF Typed, Shaped
<1>1. /\ Typed' /\ Moved(t) /\ rec' = rec /\ reservations' = reservations /\ epoch' \in {epoch, epoch + 1}
      /\ th'[t].list = th[t].list /\ SameSlot(t) /\ th'[t].hold = th[t].hold /\ th'[t].at = th[t].at
      /\ th'[t].op = th[t].op
      /\ \/ th[t].pc = "see" /\ th'[t].pc \in {"help", "older", "link"}
         \/ th[t].pc = "older" /\ th'[t].pc = "found"
         \/ th[t].pc = "found" /\ th'[t].pc = "end"
         \/ th[t].pc = "help" /\ th'[t].pc = "helped"
         \/ th[t].pc = "commit" /\ th'[t].pc = "committed" /\ th'[t].own = th[t].own
         \/ th[t].pc = "swap" /\ th'[t].pc = "commit" /\ th'[t].own = th[t].own
  <2>1. CASE SeeEpochById(t)
    BY <2>1, <1>0, SeeEpochMoves DEF SameScan, SameHand, SameOp, Local
  <2>2. CASE AcceptById(t)
    BY <2>2, AcceptMoves DEF SameScan, SameHand, SameOp, Local
  <2>3. CASE EndView(t)
    BY <2>3, EndViewMoves DEF SameScan, SameHand, SameOp, Local
  <2>4. CASE NewEpoch(t)
    BY <2>4, NewEpochMoves DEF SameScan, SameHand
  <2>5. CASE SwapRootById(t)
    BY <2>5, SwapRootMoves DEF SameOp
  <2>6. QED
    BY <2>1, <2>2, <2>3, <2>4, <2>5
<1>2. Calm(t)
  BY <1>1, HeadersCalm
<1>3. /\ Holds(t)' => Holds(t)
      /\ Reads(t)' => Reads(t)
      /\ th'[t].pc \notin {"reserve", "again", "root"}
  BY <1>1 DEF Holds, Reads, InEmpty
<1>4. ASSUME th[t].pc = "swap" PROVE Safe(t, th[t].own)'
  <2>1. PICK x : x = th[t].own /\ x \in Private(t)
    BY <1>4 DEF Private
  <2>2. Safe(t, x)
    BY <2>1, UnlistedSafe
  <2>3. Epoch(t)' = Epoch(t) /\ Listed(t)' = Listed(t) /\ th'[t].tid = th[t].tid /\ th'[t].pc # "slots"
    BY <1>1 DEF Epoch, Listed, SameSlot
  <2>4. Safe(t, x)'
    BY <1>1, <2>2, <2>3, SafeStays
  <2>5. th'[t].own = x
    BY <1>1, <1>4, <2>1
  <2>6. QED
    BY <2>4, <2>5
<1>5. QED
  BY <1>1, <1>2, <1>3, <1>4, CarryReclaimed

\* A linearized reader's second look at the epoch: its reservation is not newer, and
\* nothing committed is newer than what it reads.
LEMMA ReadEpochReclaimed ==
  ASSUME ~Delayed, Typed, Owned, Ordered, Reclaimed, NEW t \in Threads, ReadEpoch(t)
  PROVE  Reclaimed'
<1>1. /\ Typed' /\ Moved(t) /\ UNCHANGED <<epoch, reservations, rec>> /\ th'[t].list = th[t].list
      /\ SameSlot(t) /\ th[t].pc = "again" /\ th'[t].pc = "root" /\ th'[t].at = epoch
  BY ReadEpochMoves DEF Local, SameScan
<1>2. Drained(t) /\ Drained(t)' /\ ~Holds(t)' /\ Protected(t)
  BY <1>1 DEF ReadEpoch, At, Drained, SameSlot, Holds, InEmpty, Reclaimed
<1>3. Epoch(t)' = Epoch(t) /\ Epoch(t) <= epoch
  BY <1>1, <1>2 DEF Epoch, SameSlot, Protected, Announced
<1>4. \A z \in Nodes' : ~(rec'[z].write > th'[t].at)
  <2>1. Nodes' = Nodes /\ \A z \in Nodes : rec[z].write <= epoch
    BY <1>1 DEF Nodes, Ordered, Chained
  <2>2. QED
    BY <1>1, <2>1, Writes
<1>5. Protected(t)'
  BY <1>1, <1>2, <1>3, <1>4 DEF Protected, Announced
<1>6. QED
  BY <1>1, <1>5, HeadersCalm, CalmReclaimed

\* The newest record is safe to hold.
LEMMA LoadRootReclaimed ==
  ASSUME ~Delayed, Typed, Owned, Ordered, Reclaimed, NEW t \in Threads, LoadRoot(t)
  PROVE  Reclaimed'
<1>1. /\ Typed' /\ Moved(t) /\ UNCHANGED <<epoch, reservations, rec, root>> /\ th'[t].list = th[t].list
      /\ SameSlot(t) /\ th[t].pc = "root" /\ th'[t].pc = "see" /\ th'[t].hold = root
      /\ th'[t].at = th[t].at /\ th'[t].op = th[t].op
  BY LoadRootMoves DEF Local, SameScan, SameOp
<1>2. Drained(t) /\ Drained(t)' /\ Protected(t) /\ Calm(t) /\ Owns(t)
  BY <1>1, HeadersCalm DEF LoadRoot, At, Drained, SameSlot, Reclaimed, Owns
<1>3. Epoch(t)' = Epoch(t) /\ Epoch(t) <= epoch /\ (Reads(t)' => Reads(t))
  BY <1>1, <1>2 DEF Epoch, SameSlot, Protected, Announced, Reads
<1>4. Safe(t, root)'
  <2>1. Safe(t, root)
    BY UnlistedSafe
  <2>2. root \in Reach
    BY Writes DEF Reach
  <2>3. PICK x : x = root
    OBVIOUS
  <2>4. Safe(t, x)'
    BY <1>1, <1>2, <2>1, <2>2, <2>3, CalmSafe DEF SameSlot
  <2>5. QED
    BY <1>1, <2>3, <2>4
<1>5. ASSUME Reads(t)', NEW z \in Nodes', rec'[z].write > th'[t].at PROVE Safe(t, rec[z].next)'
  <2>1. z \in Nodes /\ rec[z].write > th[t].at /\ Reads(t)
    BY <1>1, <1>3, <1>5 DEF Nodes
  <2>2. Safe(t, rec[z].next) /\ rec[z].next \in Reach
    BY <1>2, <2>1, Reachable DEF Protected
  <2>3. PICK x : x = rec[z].next
    OBVIOUS
  <2>4. Safe(t, x)'
    BY <1>1, <1>2, <2>2, <2>3, CalmSafe DEF SameSlot
  <2>5. QED
    BY <1>1, <2>3, <2>4
<1>6. Protected(t)'
  BY <1>1, <1>2, <1>3, <1>4, <1>5 DEF Protected, Announced
<1>7. QED
  BY <1>1, <1>2, <1>6, CalmReclaimed

\* So is the record below one that is newer than the reader's epoch.
LEMMA OlderReclaimed ==
  ASSUME Typed, Owned, Ordered, Reclaimed, NEW t \in Threads, OlderById(t)
  PROVE  Reclaimed'
<1>0. /\ th[t].hold \in Nodes /\ Reads(t) /\ Holds(t) /\ Protected(t)
      /\ rec[th[t].hold].write > th[t].at
  BY OlderInformed DEF OlderById, Reclaimed
<1>1. /\ Typed' /\ Moved(t) /\ UNCHANGED <<epoch, reservations, rec>> /\ th'[t].list = th[t].list
      /\ SameSlot(t) /\ th[t].pc = "older" /\ th'[t].pc = "older" /\ th'[t].hold = rec[th[t].hold].next
      /\ th'[t].at = th[t].at
  BY <1>0, OlderMoves DEF Local, SameScan, SameOp
<1>2. Drained(t) /\ Drained(t)' /\ Calm(t)
  BY <1>0, <1>1, HeadersCalm DEF Drained, SameSlot, Protected
<1>3. Epoch(t)' = Epoch(t) /\ Epoch(t) <= epoch
  BY <1>0, <1>1, <1>2 DEF Epoch, SameSlot, Protected, Announced
<1>5. ASSUME NEW z \in Nodes, rec[z].write > th[t].at PROVE Safe(t, rec[z].next)'
  <2>1. Safe(t, rec[z].next) /\ rec[z].next \in Reach
    BY <1>0, <1>5, Reachable DEF Protected
  <2>2. PICK x : x = rec[z].next
    OBVIOUS
  <2>3. Safe(t, x)'
    BY <1>1, <1>2, <2>1, <2>2, CalmSafe DEF SameSlot
  <2>4. QED
    BY <1>1, <2>2, <2>3
<1>6. Safe(t, th[t].hold)'
  <2>1. PICK z \in Nodes : z = th[t].hold
    BY <1>0
  <2>2. Safe(t, rec[z].next)'
    BY <1>0, <1>5, <2>1
  <2>3. th'[t].hold = rec'[z].next
    BY <1>1, <2>1
  <2>4. QED
    BY <2>2, <2>3
<1>7. Nodes' = Nodes
  BY <1>1 DEF Nodes
<1>8. Protected(t)'
  BY <1>0, <1>1, <1>2, <1>3, <1>5, <1>6, <1>7 DEF Protected, Announced
<1>9. QED
  BY <1>1, <1>2, <1>8, CalmReclaimed

\* A record that is not in the bucket yet is in nobody's reach.
LEMMA OwnOutOfReach ==
  ASSUME Typed, Owned, Ordered, NEW t \in Threads, th[t].pc \in {"swap", "give"}
  PROVE  th[t].own \in Nodes /\ rec[th[t].own].write = 0 /\ th[t].own \notin Reach
<1>1. th[t].own \in Has(t) /\ th[t].own \in Nodes
  BY HasNodes DEF Has
<1>2. rec[th[t].own].write = 0
  BY DEF Ordered, Informed
<1>3. th[t].own # root
  BY <1>1 DEF Owned, Apart
<1>4. QED
  BY <1>1, <1>2, <1>3 DEF Reach

LEMMA AddReclaimed ==
  ASSUME Typed, Owned, Ordered, Reclaimed, NEW t \in Threads, Link(t) \/ NewNode(t)
  PROVE  Reclaimed'
<1>0. PICK n, k : (Link(t) /\ n = th[t].hold /\ k = 0) \/ (NewNode(t) /\ n = freeTids /\ k = th[t].tid)
  OBVIOUS
<1>a. PICK a : Adds(Fresh(n, k, a))
  BY <1>0, LinkMoves, NewNodeMoves DEF AddsFresh
<1>1. /\ Typed' /\ Moved(t) /\ UNCHANGED <<epoch, reservations>> /\ Adds(Fresh(n, k, a)) /\ SameSlot(t) /\ SameOp(t)
      /\ th'[t].hold = th[t].hold /\ SameScan(t)
      /\ \/ th[t].pc = "link" /\ th'[t].pc = "swap"
         \/ th[t].pc = "leave" /\ th'[t].pc = "give"
  BY <1>0, <1>a, LinkMoves, NewNodeMoves
<1>2. rec'[Len(rec) + 1].write = 0
  BY <1>1 DEF Adds, Fresh
<1>3. SameChain
  BY <1>1, <1>2 DEF Adds, SameChain
<1>4. Calm(t)
  BY <1>1, <1>3 DEF Calm, Adds, Reach, SameScan, Typed, TypeOK
<1>5. QED
  BY <1>1, <1>4, CarryReclaimed DEF Holds, Reads, InEmpty, SameOp

LEMMA LoseRootReclaimed ==
  ASSUME Typed, Owned, Ordered, Reclaimed, NEW t \in Threads, LoseRootById(t)
  PROVE  Reclaimed'
<1>1. /\ Typed' /\ Moved(t) /\ UNCHANGED <<epoch, reservations>> /\ SameSlot(t) /\ SameOp(t)
      /\ Edits(th[t].own, [rec[th[t].own] EXCEPT !.freed = @ + 1])
      /\ SameHand(t) /\ SameScan(t) /\ th[t].pc = "swap" /\ th'[t].pc = "end"
  BY LoseRootMoves
<1>2. th[t].own \in Nodes /\ rec[th[t].own].write = 0 /\ th[t].own \notin Reach
  BY <1>1, OwnOutOfReach
<1>3. Nodes' = Nodes /\ rec[th[t].own] \in Header
  BY <1>1, <1>2, Headers DEF Edits, Nodes
<1>4. SameChain
  BY <1>1, <1>2, <1>3 DEF Edits, SameChain, Header
<1>a. \A x \in Nodes : /\ rec'[x].retire = rec[x].retire
                       /\ x # th[t].own => rec'[x].freed = rec[x].freed
  BY <1>1, <1>3 DEF Edits, Header
<1>5. Calm(t)
  BY <1>1, <1>2, <1>4, <1>a DEF Calm, Reach, SameScan, Typed, TypeOK
<1>6. QED
  BY <1>1, <1>5, CarryReclaimed DEF Holds, Reads, InEmpty, SameOp, SameHand

LEMMA GiveReclaimed ==
  ASSUME Typed, Owned, Ordered, Reclaimed, NEW t \in Threads, GiveTidById(t) \/ RetryGiveById(t)
  PROVE  Reclaimed'
<1>1. /\ Typed' /\ Moved(t) /\ UNCHANGED <<epoch, reservations>> /\ th[t].pc = "give"
      /\ th'[t].pc \in {"give", "gone"} /\ SameSlot(t) /\ th'[t].list = th[t].list
      /\ th'[t].hold = th[t].hold /\ th'[t].at = th[t].at
      /\ Edits(th[t].own, [rec[th[t].own] EXCEPT !.next = freeTids])
  BY GiveTidMoves, RetryGiveMoves DEF SameScan, SameOp, SameSlot
<1>2. th[t].own \in Nodes /\ rec[th[t].own].write = 0 /\ th[t].own \notin Reach
  BY <1>1, OwnOutOfReach
<1>3. Nodes' = Nodes /\ rec[th[t].own] \in Header
  BY <1>1, <1>2, Headers DEF Edits, Nodes
<1>4. SameChain
  BY <1>1, <1>2, <1>3 DEF Edits, SameChain, Header
<1>a. \A x \in Nodes : /\ rec'[x].retire = rec[x].retire
                       /\ x # th[t].own => rec'[x].freed = rec[x].freed
  BY <1>1, <1>3 DEF Edits, Header
<1>5. Calm(t)
  BY <1>1, <1>2, <1>4, <1>a DEF Calm, Reach, Typed, TypeOK
<1>6. QED
  BY <1>1, <1>5, CarryReclaimed DEF Holds, Reads, InEmpty, SameSlot

\* An epoch that somebody else has stored already stays.
LEMMA LateEpochReclaimed ==
  ASSUME Typed, Owned, Ordered, Reclaimed, NEW t \in Threads, StoreEpochById(t), rec[Target(t)].write # 0
  PROVE  Reclaimed'
<1>0. Committing(t)
  BY DEF StoreEpochById, Committing
<1>1. PICK x \in Nodes : x = Target(t)
  BY <1>0, Targets
<1>2. /\ Typed' /\ Moved(t) /\ UNCHANGED <<epoch, reservations>> /\ SameSlot(t) /\ SameOp(t)
      /\ Edits(x, [rec[x] EXCEPT !.write = IF @ = 0 THEN th[t].saw ELSE @])
      /\ SameHand(t) /\ SameScan(t) /\ th[t].pc \in {"helped", "committed"}
      /\ th'[t].pc = (IF th[t].pc = "helped" THEN th[t].then ELSE "retire")
  BY <1>1, StoreEpochMoves
<1>3. th[t].pc = "helped" => th[t].then \in {"older", "link"}
  BY DEF Typed, Shaped
<1>4. Nodes' = Nodes /\ rec[x] \in Header
  BY <1>2, Headers DEF Edits, Nodes
<1>5. \A y \in Nodes : rec'[y] = rec[y]
  BY <1>1, <1>2, <1>4 DEF Edits, Header
<1>6. Calm(t)
  BY <1>2, <1>3, <1>4, <1>5 DEF Calm, SameChain, Reach, SameScan, Typed, TypeOK
<1>7. QED
  BY <1>2, <1>3, <1>6, CarryReclaimed DEF Holds, Reads, InEmpty, SameOp, SameHand

\* The first epoch stored in the newest record makes the one below it a thing that
\* older readers may come to: it is still its writer's, who has not retired it.
LEMMA FirstEpochReclaimed ==
  ASSUME Typed, Owned, Ordered, Reclaimed, NEW t \in Threads, StoreEpochById(t), rec[Target(t)].write = 0
  PROVE  Reclaimed'
<1>0. Committing(t)
  BY DEF StoreEpochById, Committing
<1>1. Target(t) = root /\ root \in Nodes
  BY <1>0, Targets
<1>2. /\ Typed' /\ Moved(t) /\ UNCHANGED <<epoch, reservations, root>> /\ SameSlot(t) /\ SameOp(t)
      /\ Edits(root, [rec[root] EXCEPT !.write = IF @ = 0 THEN th[t].saw ELSE @])
      /\ SameHand(t) /\ SameScan(t) /\ th[t].pc \in {"helped", "committed"}
      /\ th'[t].pc = (IF th[t].pc = "helped" THEN th[t].then ELSE "retire")
  BY <1>1, StoreEpochMoves
<1>3. th[t].pc = "helped" => th[t].then \in {"older", "link"}
  BY DEF Typed, Shaped
<1>4. Nodes' = Nodes /\ rec[root] \in Header
  BY <1>1, <1>2, Headers DEF Edits, Nodes
<1>5. /\ \A y \in Nodes : rec'[y].retire = rec[y].retire /\ rec'[y].freed = rec[y].freed /\ rec'[y].next = rec[y].next
      /\ \A y \in Nodes : y # root => rec'[y].write = rec[y].write
  <2>1. /\ rec'[root].retire = rec[root].retire /\ rec'[root].freed = rec[root].freed
        /\ rec'[root].next = rec[root].next
    BY <1>2, <1>4 DEF Edits, Header
  <2>2. \A y \in Nodes : y # root => rec'[y] = rec[y]
    BY <1>2 DEF Edits
  <2>3. QED
    BY <2>1, <2>2
<1>6. ASSUME NEW u \in Threads, NEW x \in Nodes, Safe(u, x) PROVE Safe(u, x)'
  <2>1. th'[u].tid = th[u].tid /\ Epoch(u)' = Epoch(u) /\ Listed(t)' = Listed(t)
    BY <1>2 DEF Moved, SameSlot, SameScan, Epoch, Listed
  <2>2. th'[t].pc # "slots"
    BY <1>2, <1>3
  <2>3. QED
    BY <1>2, <1>5, <1>6, <2>1, <2>2, SafeStays
<1>7. ASSUME NEW u \in Threads PROVE Safe(u, rec[root].next)'
  <2>1. PICK v \in Threads : th[v].pc \in {"commit", "committed"} /\ th[v].victim = rec[root].next
    BY <1>1 DEF Ordered, RootWriter
  <2>2. PICK x \in Nodes : x = rec[root].next
    BY <1>1 DEF Ordered, Chained
  <2>3. x \in Victim(v)
    BY <2>1, <2>2 DEF Victim
  <2>4. Safe(u, x)'
    BY <1>6, <2>3, UnlistedSafe
  <2>5. QED
    BY <1>1, <1>2, <1>5, <2>2, <2>4
<1>8. ASSUME NEW u \in Threads PROVE Protected(u)'
  <2>1. /\ Holds(u)' => Holds(u)
        /\ Reads(u)' => Reads(u)
        /\ th'[u].hold = th[u].hold /\ th'[u].at = th[u].at /\ th'[u].pending = th[u].pending
        /\ th'[u].pc \in {"reserve", "again", "root"} => th'[u].pc = th[u].pc /\ th'[u].saw = th[u].saw
        /\ th'[u].pc \in {"commit", "committed"} =>
             th[u].pc \in {"commit", "committed"} /\ th'[u].own = th[u].own
        /\ Epoch(u)' = Epoch(u)
    <3>1. CASE u = t
      BY <1>2, <1>3, <3>1 DEF Holds, Reads, InEmpty, SameSlot, SameOp, SameHand, Epoch
    <3>2. CASE u # t
      <4>1. th'[u] = th[u] /\ Holds(u)' = Holds(u) /\ Reads(u)' = Reads(u)
        BY <1>2, <3>2, OthersKeep
      <4>2. QED
        BY <1>2, <4>1 DEF Epoch
    <3>3. QED
      BY <3>1, <3>2
  <2>2. \A z \in Nodes' : Reads(u)' /\ rec'[z].write > th[u].at =>
           \/ z \in Nodes /\ rec[z].write > th[u].at /\ rec'[z].next = rec[z].next
           \/ Safe(u, rec[z].next)'
    <3> SUFFICES ASSUME NEW z \in Nodes', rec'[z].write > th[u].at, z = root PROVE Safe(u, rec[z].next)'
      BY <1>4, <1>5
    <3>1. Safe(u, rec[root].next)'
      BY <1>7
    <3>2. rec'[z].next = rec'[root'].next
      BY <1>2
    <3>3. QED
      BY <3>1, <3>2
  <2>3. /\ Protected(u) /\ epoch' >= epoch /\ epoch' \in Nat /\ (Owns(u) => Epoch(u) \in Nat)
        /\ \A x \in Reach : Safe(u, x) => Safe(u, x)'
    BY <1>2, <1>6, OwnerTid DEF Reclaimed, Typed, TypeOK, Reach
  <2>4. QED
    BY <2>1, <2>2, <2>3, ProtectedStays
<1>9. ASSUME NEW u \in Threads PROVE Sorted(u)'
  <2>1. th'[u].list = th[u].list /\ epoch' >= epoch
    BY <1>2 DEF Moved, SameScan, Typed, TypeOK
  <2>2. QED
    BY <1>2, <1>5, <2>1, SortedStays DEF Reclaimed
<1>10. QED
  BY <1>8, <1>9 DEF Reclaimed

\* Who holds or reads something has a visible reservation, not newer than the epoch.
LEMMA VisibleEpoch ==
  ASSUME Typed, Owned, Reclaimed, NEW u \in Threads, Holds(u) \/ Reads(u)
  PROVE  /\ Owns(u) /\ Drained(u) /\ Epoch(u) \in Nat /\ Epoch(u) <= epoch /\ th[u].tid < nexttid
         /\ th[u].tid < MaxTids /\ th[u].tid \in 0..(MaxTids - 1)
<1>1. Owns(u) /\ Drained(u)
  BY DEF Owns, Holds, Reads, InEmpty, Reclaimed, Protected
<1>2. Announced(u)
  BY <1>1 DEF Announced, Holds, Reads
<1>3. QED
  BY <1>1, <1>2, OwnerTid DEF Reclaimed, Protected

\* A record is retired with the epoch of now, which no visible reservation exceeds.
LEMMA RetireReclaimed ==
  ASSUME Typed, Owned, Ordered, Reclaimed, NEW t \in Threads, Retire(t)
  PROVE  Reclaimed'
<1>1. PICK v \in Nodes : v = th[t].victim
  BY RetireMoves
<1>2. /\ Typed' /\ Moved(t) /\ UNCHANGED <<epoch, reservations, root>> /\ SameSlot(t) /\ SameOp(t)
      /\ Edits(v, [rec[v] EXCEPT !.retire = epoch]) /\ th[t].pc = "retire"
      /\ th'[t].pc \in {"scan", th[t].back} /\ th[t].back \in {"slot", "end", "leave"}
      /\ th'[t].hold = th[t].hold /\ th'[t].back = th[t].back
      /\ th'[t].list = <<v>> \o th[t].list
  BY <1>1, RetireMoves
<1>3. Nodes' = Nodes /\ rec[v] \in Header /\ epoch \in Nat /\ epoch' >= epoch
  BY <1>2, Headers DEF Edits, Nodes, Typed, TypeOK
<1>4. /\ rec'[v].retire = epoch /\ rec'[v].freed = rec[v].freed /\ rec'[v].next = rec[v].next
      /\ rec'[v].write = rec[v].write
      /\ \A y \in Nodes : y # v => rec'[y] = rec[y]
  BY <1>2, <1>3 DEF Edits, Header
<1>5. SameChain
  BY <1>3, <1>4 DEF SameChain
<1>6. ASSUME NEW u \in Threads PROVE v \notin Listed(u)
  <2>1. PICK free : Apart(free)
    BY DEF Owned
  <2>2. v \in Victim(t)
    BY <1>1, <1>2 DEF Victim
  <2>3. QED
    BY <1>6, <2>1, <2>2 DEF Apart, Has
<1>7. /\ th[t].list \in Seq(Nat) /\ v \in Nat
      /\ \A n \in DOMAIN th'[t].list : (n = 1 /\ th'[t].list[n] = v) \/ (n - 1 \in DOMAIN th[t].list /\ th'[t].list[n] = th[t].list[n - 1])
      /\ \A n \in DOMAIN th'[t].list : n \in Nat /\ n >= 1
  <2>1. th[t].list \in Seq(Nat) /\ v \in Nat
    BY Headers DEF Typed, TypeOK, State
  <2>2. QED
    BY <1>2, <2>1, Push
<1>8. Listed(t)' \subseteq Listed(t) \cup {v}
  BY <1>7 DEF Listed
<1>9. ASSUME NEW u \in Threads, Holds(u) \/ Reads(u), NEW x \in Nodes, Safe(u, x)
      PROVE  Safe(u, x)'
  <2>1. Epoch(u) <= epoch /\ Epoch(u)' = Epoch(u) /\ th'[u].tid = th[u].tid
    BY <1>2, <1>9, VisibleEpoch DEF Epoch, Moved, SameSlot
  <2>2. rec'[x].freed = rec[x].freed /\ rec[x].freed = 0
    BY <1>4, <1>9 DEF Safe
  <2>3. ASSUME NEW w \in Threads, x \in Listed(w)'
        PROVE  /\ Epoch(u)' <= rec'[x].retire
               /\ th'[w].pc = "slots" =>
                    /\ th'[u].tid < th'[w].last
                    /\ th'[u].tid < th'[w].i => th'[w].lowest <= Epoch(u)'
    <3>1. CASE x = v
      <4>1. w = t
        BY <1>2, <1>6, <2>3, <3>1, OthersKeep
      <4>2. QED
        BY <1>2, <1>4, <2>1, <3>1, <4>1
    <3>2. CASE x # v
      <4>1. x \in Listed(w) /\ rec'[x] = rec[x]
        BY <1>2, <1>4, <1>8, <2>3, <3>2, OthersKeep
      <4>2. th'[w].pc = "slots" => w # t /\ th'[w] = th[w]
        BY <1>2 DEF Moved
      <4>3. QED
        BY <1>9, <2>1, <4>1, <4>2 DEF Safe
    <3>3. QED
      BY <3>1, <3>2
  <2>4. QED
    BY <2>2, <2>3 DEF Safe
<1>10. ASSUME NEW u \in Threads, u # t PROVE Protected(u)' /\ Sorted(u)'
  <2>1. Epoch(u)' = Epoch(u) /\ th'[u].list = th[u].list
    BY <1>2, <1>10 DEF Epoch, Moved
  <2>2. Protected(u)'
    BY <1>2, <1>3, <1>5, <1>9, <1>10, <2>1, OthersProtected DEF Reach
  <2>3. \A x \in Nodes : x \in Listed(u) => rec'[x].retire = rec[x].retire
    BY <1>4, <1>6
  <2>4. QED
    BY <1>2, <1>3, <2>1, <2>2, <2>3, SortedStays DEF Reclaimed
<1>11. Protected(t)'
  <2>1. /\ Holds(t)' => Holds(t)
        /\ ~Reads(t)' /\ th'[t].pc \notin {"reserve", "again", "root"}
    BY <1>2 DEF Holds, Reads, InEmpty
  <2>2. /\ Protected(t) /\ epoch' \in Nat /\ (Owns(t) => Epoch(t) \in Nat)
        /\ Epoch(t)' = Epoch(t) /\ th'[t].pending = th[t].pending /\ th'[t].at = th[t].at
    BY <1>2, <1>3, OwnerTid DEF Reclaimed, SameSlot, SameOp, Epoch
  <2>3. QED
    BY <1>2, <1>3, <1>9, <2>1, <2>2, ProtectedStays DEF Reach
<1>12. Sorted(t)'
  <2>1. /\ \A n \in DOMAIN th[t].list : /\ th[t].list[n] \in Nodes /\ th[t].list[n] # v
                                        /\ rec'[th[t].list[n]] = rec[th[t].list[n]]
                                        /\ rec[th[t].list[n]].retire \in Nat
    <3>1. \A n \in DOMAIN th[t].list : th[t].list[n] \in Nodes /\ th[t].list[n] # v
      BY <1>6 DEF Typed, Shaped, Listed
    <3>2. QED
      BY <1>4, <3>1, Headers DEF Header
  <2>2. Sorted(t)
    BY DEF Reclaimed
  <2>3. ASSUME NEW n \in DOMAIN th'[t].list PROVE rec'[th'[t].list[n]].retire <= epoch'
    <3>1. CASE th'[t].list[n] = v
      BY <1>2, <1>3, <1>4, <3>1
    <3>2. CASE n - 1 \in DOMAIN th[t].list /\ th'[t].list[n] = th[t].list[n - 1]
      BY <1>2, <2>1, <2>2, <3>2 DEF Sorted
    <3>3. QED
      BY <1>7, <3>1, <3>2
  <2>4. ASSUME NEW m \in DOMAIN th'[t].list, NEW n \in DOMAIN th'[t].list, m < n
        PROVE  rec'[th'[t].list[n]].retire <= rec'[th'[t].list[m]].retire
    <3>1. n # 1 /\ n - 1 \in DOMAIN th[t].list /\ th'[t].list[n] = th[t].list[n - 1] /\ m \in Nat /\ n \in Nat
      BY <1>7, <2>4
    <3>2. CASE m = 1 /\ th'[t].list[m] = v
      BY <1>2, <1>4, <2>3, <3>1, <3>2
    <3>3. CASE m - 1 \in DOMAIN th[t].list /\ th'[t].list[m] = th[t].list[m - 1]
      BY <2>1, <2>2, <2>4, <3>1, <3>3 DEF Sorted
    <3>4. QED
      BY <1>7, <3>2, <3>3
  <2>5. QED
    BY <2>3, <2>4 DEF Sorted
<1>13. QED
  BY <1>10, <1>11, <1>12 DEF Reclaimed

\* A scan begins, or goes on to the next slot.
LEMMA ScanReclaimed ==
  ASSUME Typed, Owned, Ordered, Reclaimed, Typed', NEW t \in Threads, Local, Moved(t), SameSlot(t),
         SameOp(t), SameHand(t), th'[t].list = th[t].list, th'[t].back = th[t].back,
         th[t].pc \in {"scan", "slots"}, th'[t].pc = "slots",
         \A u \in Threads : \A x \in Nodes :
           (Holds(u) \/ Reads(u)) /\ Safe(u, x) /\ x \in Listed(t) =>
             th[u].tid < th'[t].last /\ (th[u].tid < th'[t].i => th'[t].lowest <= Epoch(u))
  PROVE  Reclaimed'
<1>1. UNCHANGED <<epoch, reservations, rec>> /\ Nodes' = Nodes /\ epoch' >= epoch /\ epoch' \in Nat
  BY DEF Local, Nodes, Typed, TypeOK
<1>2. SameChain
  BY <1>1 DEF SameChain
<1>3. ASSUME NEW u \in Threads PROVE th'[u].tid = th[u].tid /\ Epoch(u)' = Epoch(u) /\ th'[u].list = th[u].list
  BY <1>1 DEF Moved, SameSlot, Epoch
<1>4. ASSUME NEW u \in Threads, Holds(u) \/ Reads(u), NEW x \in Nodes, Safe(u, x)
      PROVE  Safe(u, x)'
  <2>1. ASSUME NEW w \in Threads, x \in Listed(w)'
        PROVE  /\ Epoch(u)' <= rec'[x].retire
               /\ th'[w].pc = "slots" =>
                    /\ th'[u].tid < th'[w].last
                    /\ th'[u].tid < th'[w].i => th'[w].lowest <= Epoch(u)'
    <3>1. x \in Listed(w)
      BY <1>3, <2>1 DEF Listed
    <3>2. CASE w = t
      BY <1>1, <1>3, <1>4, <3>1, <3>2 DEF Safe
    <3>3. CASE w # t
      <4>1. th'[w] = th[w]
        BY <3>3 DEF Moved
      <4>2. QED
        BY <1>1, <1>3, <1>4, <3>1, <4>1 DEF Safe
    <3>4. QED
      BY <3>2, <3>3
  <2>2. QED
    BY <1>1, <1>4, <2>1 DEF Safe
<1>5. ASSUME NEW u \in Threads, u # t PROVE Protected(u)'
  BY <1>1, <1>2, <1>3, <1>4, <1>5, OthersProtected DEF Reach
<1>6. Protected(t)'
  <2>1. /\ Holds(t)' => Holds(t)
        /\ ~Reads(t)' /\ th'[t].pc \notin {"reserve", "again", "root"}
    BY DEF Holds, Reads, InEmpty
  <2>2. /\ Protected(t) /\ (Owns(t) => Epoch(t) \in Nat) /\ th'[t].hold = th[t].hold
        /\ Epoch(t)' = Epoch(t) /\ th'[t].pending = th[t].pending /\ th'[t].at = th[t].at
    BY <1>3, OwnerTid DEF Reclaimed, SameSlot, SameOp, SameHand
  <2>3. QED
    BY <1>1, <1>4, <2>1, <2>2, ProtectedStays DEF Reach
<1>7. ASSUME NEW u \in Threads PROVE Sorted(u)'
  BY <1>1, <1>3, SortedStays DEF Reclaimed
<1>8. QED
  BY <1>5, <1>6, <1>7 DEF Reclaimed

\* The scan looks at the slot of every thread that has one.
LEMMA BeginScanReclaimed ==
  ASSUME Typed, Owned, Ordered, Reclaimed, NEW t \in Threads, BeginScan(t)
  PROVE  Reclaimed'
<1>1. ASSUME NEW u \in Threads, Holds(u) \/ Reads(u)
      PROVE  th[u].tid < th'[t].last /\ ~(th[u].tid < th'[t].i)
  <2>1. th[u].tid < nexttid /\ th[u].tid < MaxTids /\ th[u].tid \in Nat
    BY <1>1, VisibleEpoch
  <2>2. nexttid \in Nat /\ MaxTids \in Nat
    BY Numbers DEF Typed, TypeOK
  <2>3. th'[t].last = (IF nexttid <= MaxTids THEN nexttid ELSE MaxTids) /\ th'[t].i = 0
    BY <2>2, BeginScanMoves, Numbers
  <2>4. QED
    BY <2>1, <2>2, <2>3
<1>2. QED
  BY <1>1, BeginScanMoves, ScanReclaimed

\* From its slot on, the scan's lowest epoch is not newer than a reservation.
LEMMA ScanSlotReclaimed ==
  ASSUME ~Delayed, Typed, Owned, Ordered, Reclaimed, NEW t \in Threads, ScanSlot(t)
  PROVE  Reclaimed'
<1>0. th[t].tid < MaxTids /\ th[t].pc = "slots" /\ Drained(t) /\ th[t].i < th[t].last
  BY OwnerTid DEF ScanSlot, At, Owns
<1>1. /\ Typed' /\ Slot(t, th[t].i) \in Nat
      /\ Local /\ Moved(t) /\ th'[t].pc = "slots" /\ SameSlot(t) /\ SameOp(t) /\ SameHand(t)
      /\ th'[t].list = th[t].list /\ th'[t].i = th[t].i + 1 /\ th'[t].last = th[t].last
      /\ th'[t].lowest = Min({th[t].lowest, Slot(t, th[t].i)}) /\ th'[t].back = th[t].back
  BY <1>0, ScanSlotMoves
<1>2. th[t].lowest \in Nat /\ th[t].i \in Nat /\ Slot(t, th[t].i) = reservations[th[t].i]
  BY <1>0 DEF Slot, Typed, TypeOK, State
<1>3. th'[t].lowest = IF th[t].lowest <= Slot(t, th[t].i) THEN th[t].lowest ELSE Slot(t, th[t].i)
  BY <1>1, <1>2, Numbers
<1>4. ASSUME NEW u \in Threads, Holds(u) \/ Reads(u), NEW x \in Nodes, Safe(u, x), x \in Listed(t)
      PROVE  th[u].tid < th'[t].last /\ (th[u].tid < th'[t].i => th'[t].lowest <= Epoch(u))
  <2>1. th[u].tid \in Nat /\ Epoch(u) \in Nat
    BY <1>4, VisibleEpoch
  <2>2. th[u].tid < th[t].last /\ (th[u].tid < th[t].i => th[t].lowest <= Epoch(u))
    BY <1>0, <1>4 DEF Safe
  <2>3. CASE th[u].tid = th[t].i
    <3>1. Slot(t, th[t].i) = Epoch(u)
      BY <1>2, <2>3 DEF Epoch
    <3>2. QED
      BY <1>1, <1>2, <1>3, <2>1, <2>2, <3>1
  <2>4. CASE th[u].tid # th[t].i
    <3>1. th[u].tid < th'[t].i => th[u].tid < th[t].i
      BY <1>1, <1>2, <2>1, <2>4
    <3>2. QED
      BY <1>1, <1>2, <1>3, <2>1, <2>2, <3>1
  <2>5. QED
    BY <2>3, <2>4
<1>5. QED
  BY <1>0, <1>1, <1>4, ScanReclaimed

\* What somebody holds or may come to is not among the cells a scan frees: they were
\* all retired before the lowest reservation.
LEMMA FreeOldReclaimed ==
  ASSUME Typed, Owned, Ordered, Reclaimed, NEW t \in Threads, FreeOld(t)
  PROVE  Reclaimed'
<1>1. /\ Typed' /\ th[t].pc = "slots" /\ th[t].i = th[t].last /\ UNCHANGED <<epoch, reservations>>
      /\ Nodes' = Nodes /\ Gone(t) \subseteq Nodes
      /\ \A x \in Gone(t) : rec'[x] = [rec[x] EXCEPT !.freed = @ + 1]
      /\ \A x \in Nodes \ Gone(t) : rec'[x] = rec[x]
      /\ th[t].back \in {"slot", "end", "leave"} /\ Moved(t) /\ th'[t].pc = th[t].back
      /\ SameSlot(t) /\ SameOp(t) /\ SameHand(t)
      /\ th'[t].back = th[t].back
  BY FreeOldMoves
<1>2. PICK k : k = Kept(t)
  OBVIOUS
<1>3. /\ k \in 0..Len(th[t].list) /\ Len(th[t].list) \in Nat
      /\ k < Len(th[t].list) => rec[th[t].list[k + 1]].retire < th[t].lowest
      /\ DOMAIN th'[t].list = 1..k /\ \A n \in 1..k : th'[t].list[n] = th[t].list[n]
  BY <1>2, KeptCells, FreeOldMoves
<1>4. DOMAIN th[t].list = 1..Len(th[t].list)
  BY DEF Typed, TypeOK, State
<1>5. \A x \in Nodes : /\ rec'[x].retire = rec[x].retire /\ rec'[x].write = rec[x].write
                       /\ rec'[x].next = rec[x].next
  <2>1. ASSUME NEW x \in Gone(t) PROVE /\ rec'[x].retire = rec[x].retire /\ rec'[x].write = rec[x].write
                                       /\ rec'[x].next = rec[x].next
    BY <1>1, <2>1, Headers DEF Header
  <2>2. QED
    BY <1>1, <2>1
<1>6. SameChain /\ epoch' >= epoch /\ epoch' \in Nat
  BY <1>1, <1>5 DEF SameChain, Typed, TypeOK
<1>7. Listed(t)' \subseteq Listed(t)
  BY <1>3, <1>4 DEF Listed
<1>8. ASSUME NEW u \in Threads, Holds(u) \/ Reads(u), NEW x \in Nodes, Safe(u, x) PROVE x \notin Gone(t)
  <2> SUFFICES ASSUME x \in Gone(t) PROVE FALSE
    OBVIOUS
  <2>1. PICK n \in (k + 1)..Len(th[t].list) : x = th[t].list[n]
    BY <1>2 DEF Gone
  <2>2. n \in DOMAIN th[t].list /\ k + 1 \in DOMAIN th[t].list /\ k < Len(th[t].list) /\ k + 1 <= n
    BY <1>3, <1>4, <2>1
  <2>3. x \in Listed(t)
    BY <2>1, <2>2 DEF Listed
  <2>4. th[t].lowest <= Epoch(u) /\ Epoch(u) <= rec[x].retire
    BY <1>1, <1>8, <2>3 DEF Safe
  <2>5. th[t].list[k + 1] \in Nodes
    BY <2>2 DEF Typed, Shaped
  <2>6. rec[x].retire <= rec[th[t].list[k + 1]].retire
    <3>1. CASE k + 1 = n
      <4>1. rec[x].retire \in Nat
        BY Headers DEF Header
      <4>2. QED
        BY <2>1, <3>1, <4>1
    <3>2. CASE k + 1 # n
      <4>1. k + 1 < n
        BY <1>3, <2>1, <2>2, <3>2
      <4>2. QED
        BY <2>1, <2>2, <4>1 DEF Reclaimed, Sorted
    <3>3. QED
      BY <3>1, <3>2
  <2>7. /\ rec[x].retire \in Nat /\ rec[th[t].list[k + 1]].retire \in Nat /\ th[t].lowest \in Nat
        /\ Epoch(u) \in Nat
    BY <1>8, <2>5, Headers, VisibleEpoch DEF Header, Typed, TypeOK, State
  <2>8. rec[th[t].list[k + 1]].retire < th[t].lowest
    BY <1>3, <2>2
  <2>9. \A a, b, c, d \in Nat : ~(a <= b /\ b <= c /\ c <= d /\ d < a)
    OBVIOUS
  <2>10. QED
    BY <2>4, <2>6, <2>7, <2>8, <2>9, Zenon
<1>9. ASSUME NEW u \in Threads, Holds(u) \/ Reads(u), NEW x \in Nodes, Safe(u, x) PROVE Safe(u, x)'
  <2>1. th'[u].tid = th[u].tid /\ Epoch(u)' = Epoch(u)
    BY <1>1 DEF Moved, SameSlot, Epoch
  <2>2. rec'[x] = rec[x] /\ th'[t].pc # "slots"
    BY <1>1, <1>8, <1>9
  <2>3. QED
    BY <1>1, <1>7, <1>9, <2>1, <2>2, SafeStays
<1>10. ASSUME NEW u \in Threads, u # t PROVE Protected(u)' /\ Sorted(u)'
  <2>1. Epoch(u)' = Epoch(u) /\ th'[u].list = th[u].list
    BY <1>1, <1>10 DEF Epoch, Moved
  <2>2. Protected(u)'
    BY <1>1, <1>6, <1>9, <1>10, <2>1, OthersProtected DEF Reach
  <2>3. QED
    BY <1>1, <1>5, <1>6, <2>1, <2>2, SortedStays DEF Reclaimed
<1>11. Protected(t)'
  <2>1. /\ Holds(t)' => Holds(t)
        /\ ~Reads(t)' /\ th'[t].pc \notin {"reserve", "again", "root", "commit", "committed"}
    BY <1>1 DEF Holds, Reads, InEmpty
  <2>2. /\ Protected(t) /\ (Owns(t) => Epoch(t) \in Nat) /\ th'[t].hold = th[t].hold
        /\ Epoch(t)' = Epoch(t) /\ th'[t].pending = th[t].pending /\ th'[t].at = th[t].at
    BY <1>1, OwnerTid DEF Reclaimed, SameSlot, SameOp, SameHand, Epoch
  <2>3. QED
    BY <1>6, <1>9, <2>1, <2>2, ProtectedStays DEF Reach
<1>12. Sorted(t)'
  <2>1. \A n \in 1..k : n \in DOMAIN th[t].list /\ th[t].list[n] \in Nodes
    BY <1>3, <1>4 DEF Typed, Shaped
  <2>2. \A n \in 1..k : rec'[th'[t].list[n]].retire = rec[th[t].list[n]].retire
    BY <1>3, <1>5, <2>1
  <2>3. Sorted(t)
    BY DEF Reclaimed
  <2>4. QED
    BY <1>1, <1>3, <2>1, <2>2, <2>3 DEF Sorted
<1>13. QED
  BY <1>10, <1>11, <1>12 DEF Reclaimed

\* A reservation becomes visible: only its own thread's epoch changes.
LEMMA FlushReclaimed ==
  ASSUME Typed, Owned, Ordered, Reclaimed, NEW t \in Threads, Flush(t)
  PROVE  Reclaimed'
<1>0. Owns(t) /\ ~Drained(t) /\ th[t].tid < MaxTids
  BY OwnerTid DEF Flush, Drained, Typed, Shaped
<1>1. /\ Typed' /\ th[t].tid \in 0..(MaxTids - 1)
      /\ reservations' = [reservations EXCEPT ![th[t].tid] = th[t].pending]
      /\ UNCHANGED <<epoch, rec, root>> /\ Moved(t)
      /\ th'[t].pc = th[t].pc /\ th'[t].tid = th[t].tid /\ th'[t].pending = NotPending /\ SameOp(t)
      /\ SameHand(t) /\ SameScan(t)
  BY <1>0, FlushMoves
<1>2. SameChain /\ epoch' >= epoch /\ Nodes' = Nodes /\ Listed(t)' = Listed(t)
  BY <1>1 DEF SameChain, Nodes, Listed, SameScan, Typed, TypeOK
<1>3. ASSUME NEW u \in Threads, u # t PROVE Protected(u)'
  <2>1. th'[u] = th[u]
    BY <1>1, <1>3 DEF Moved
  <2>2. ASSUME Owns(u) PROVE Epoch(u)' = Epoch(u)
    <3>1. th[u].tid # th[t].tid /\ th[u].tid \in 0..(MaxTids - 1)
      BY <1>0, <1>3, <2>2, OwnerTid DEF Owned, FreeList
    <3>2. QED
      BY <1>1, <2>1, <3>1 DEF Epoch, Typed, TypeOK
  <2>3. ASSUME Holds(u) \/ Reads(u), NEW x \in Nodes, Safe(u, x) PROVE Safe(u, x)'
    <3>1. Owns(u)
      BY <2>3, VisibleEpoch
    <3>2. QED
      BY <1>1, <1>2, <2>1, <2>2, <2>3, <3>1, SafeStays DEF SameScan
  <2>4. QED
    BY <1>1, <1>2, <1>3, <2>2, <2>3, OthersProtected DEF Reach
<1>4. Protected(t)'
  <2>1. ~Holds(t) /\ ~Reads(t) /\ Protected(t)
    BY <1>0 DEF Reclaimed, Protected
  <2>2. ~Holds(t)' /\ ~Reads(t)'
    BY <1>1, <2>1 DEF Holds, Reads, InEmpty, SameScan, SameOp
  <2>3. th'[t].pc \in {"again", "root"} => Epoch(t)' <= epoch'
    <3>1. Epoch(t)' = th[t].pending
      BY <1>1 DEF Epoch, Typed, TypeOK
    <3>2. QED
      BY <1>0, <1>1, <2>1, <3>1 DEF Protected
  <2>4. Drained(t)'
    BY <1>1 DEF Drained
  <2>5. QED
    BY <1>1, <2>1, <2>2, <2>3, <2>4 DEF Protected, Announced, SameOp, Holds
<1>5. ASSUME NEW u \in Threads PROVE Sorted(u)'
  <2>1. th'[u].list = th[u].list
    BY <1>1 DEF Moved, SameScan
  <2>2. QED
    BY <1>1, <1>2, <2>1, SortedStays DEF Reclaimed
<1>6. QED
  BY <1>3, <1>4, <1>5 DEF Reclaimed

LEMMA StepReclaimed ==
  ASSUME ~Delayed, IInv, Reclaimed, NEW t \in Threads, StepById(t) \/ Flush(t)
  PROVE  Reclaimed'
<1>0. Typed /\ Owned /\ Ordered
  BY DEF IInv, Typed
<1>1. CASE AcquireById(t) \/ EndOp(t)
  BY <1>0, <1>1, IdleReclaimed DEF AcquireById
<1>2. CASE StartOp(t)
  BY <1>0, <1>2, ReserveReclaimed, ReadEpochReclaimed DEF StartOp
<1>3. CASE CommitById(t)
  BY <1>0, <1>3, GoOnReclaimed, FirstEpochReclaimed, LateEpochReclaimed DEF CommitById
<1>4. CASE LoadRoot(t)
  BY <1>0, <1>4, LoadRootReclaimed
<1>5. CASE ReadById(t)
  BY <1>0, <1>5, GoOnReclaimed, OlderReclaimed DEF ReadById
<1>6. CASE WriteById(t)
  BY <1>0, <1>6, AddReclaimed, GoOnReclaimed, LoseRootReclaimed DEF WriteById
<1>7. CASE Retire(t)
  BY <1>0, <1>7, RetireReclaimed
<1>8. CASE Empty(t)
  BY <1>0, <1>8, BeginScanReclaimed, ScanSlotReclaimed, FreeOldReclaimed DEF Empty
<1>9. CASE ReleaseById(t)
  BY <1>0, <1>9, IdleReclaimed, AddReclaimed, GiveReclaimed DEF ReleaseById
<1>10. CASE Flush(t)
  BY <1>0, <1>10, FlushReclaimed
<1>11. QED
  BY <1>1, <1>2, <1>3, <1>4, <1>5, <1>6, <1>7, <1>8, <1>9, <1>10 DEF StepById

LEMMA InitReclaimed == Init => Reclaimed
<1> SUFFICES ASSUME Init, NEW t \in Threads PROVE Protected(t) /\ Sorted(t)
  BY DEF Reclaimed
<1>1. th[t].pc \in {"new", "gone"} /\ th[t].list = <<>>
  BY DEF Init, Thread
<1>2. ~Holds(t) /\ ~Reads(t)
  BY <1>1 DEF Holds, Reads, InEmpty
<1>3. Protected(t)
  BY <1>1, <1>2 DEF Protected, Announced
<1>4. Sorted(t)
  BY <1>1 DEF Sorted
<1>5. QED
  BY <1>3, <1>4

LEMMA StillReclaimed ==
  ASSUME Reclaimed, UNCHANGED vars
  PROVE  Reclaimed'
<1>1. UNCHANGED <<epoch, reservations, rec, th>> /\ Nodes' = Nodes
  BY DEF vars, Nodes
<1>2. ASSUME NEW t \in Threads PROVE Protected(t)' /\ Sorted(t)'
  <2>1. /\ Holds(t)' = Holds(t) /\ Reads(t)' = Reads(t) /\ Drained(t)' = Drained(t)
        /\ Announced(t)' = Announced(t) /\ Epoch(t)' = Epoch(t)
    BY <1>1 DEF Holds, Reads, Drained, Announced, Epoch, InEmpty
  <2>2. ASSUME NEW x, Safe(t, x) PROVE Safe(t, x)'
    BY <1>1, <2>1, <2>2 DEF Safe, Listed
  <2>3. Protected(t) /\ Sorted(t)
    BY DEF Reclaimed
  <2>4. Holds(t)' => Safe(t, th[t].hold)'
    <3>1. PICK x : x = th[t].hold
      OBVIOUS
    <3>2. Holds(t) => Safe(t, x)'
      BY <2>2, <2>3, <3>1 DEF Protected
    <3>3. QED
      BY <1>1, <2>1, <3>1, <3>2
  <2>5. ASSUME Reads(t)', NEW z \in Nodes', rec'[z].write > th'[t].at PROVE Safe(t, rec[z].next)'
    <3>1. PICK x : x = rec[z].next
      OBVIOUS
    <3>2. Safe(t, x)'
      BY <1>1, <2>1, <2>2, <2>3, <2>5, <3>1 DEF Protected
    <3>3. QED
      BY <1>1, <3>1, <3>2
  <2>9. th[t].pc \in {"commit", "committed"} => Safe(t, th[t].own)'
    <3>1. PICK x : x = th[t].own
      OBVIOUS
    <3>2. th[t].pc \in {"commit", "committed"} => Safe(t, x)'
      BY <2>2, <2>3, <3>1 DEF Protected
    <3>3. QED
      BY <1>1, <3>1, <3>2
  <2>6. Protected(t)'
    BY <1>1, <2>1, <2>3, <2>4, <2>5, <2>9 DEF Protected
  <2>7. Sorted(t)'
    BY <1>1, <2>3 DEF Sorted
  <2>8. QED
    BY <2>6, <2>7
<1>3. QED
  BY <1>2 DEF Reclaimed

-----------------------------------------------------------------------------
(* Addresses.  Memory is given out again only when it has been freed, so   *)
(* no two records in use are at one address.                               *)

Reuse ==
  \A x \in Nodes :
    /\ rec[x].addr # 0
    /\ \A y \in Nodes : x < y /\ rec[x].addr = rec[y].addr => rec[x].freed # 0

\* What is in use is where its pointer points to, and nothing else is there.
LEMMA InUse ==
  ASSUME Typed, Reuse, NEW x \in Nodes, rec[x].freed = 0
  PROVE  /\ Mem(x) = x
         /\ \A y \in Nodes \cup {0} : (y = 0 \/ rec[y].freed = 0) /\ Addr(x) = Addr(y) => x = y
<1>0. DOMAIN rec = Nodes /\ Nodes \subseteq Nat /\ x # 0
  BY Headers DEF Typed, TypeOK, Nodes
<1>1. Mem(x) = x
  <2> DEFINE S == {y \in DOMAIN rec : rec[y].addr = rec[x].addr}
  <2>1. x \in S /\ \A y \in S : y \in Nat /\ y <= x
    <3>1. x \in S /\ x \in Nat
      BY <1>0
    <3>2. ASSUME NEW y \in S PROVE y \in Nat /\ ~(x < y)
      BY <1>0, <3>2 DEF Reuse
    <3>3. QED
      BY <3>1, <3>2
  <2>2. \A z \in S : (\A y \in S : z >= y) => z = x
    BY <2>1
  <2> HIDE DEF S
  <2>3. Max(S) = x
    BY <2>1, <2>2 DEF Max
  <2>4. QED
    BY <2>3 DEF Mem, S
<1>2. ASSUME NEW y \in Nodes \cup {0}, y = 0 \/ rec[y].freed = 0, Addr(x) = Addr(y) PROVE x = y
  <2>1. Addr(x) = rec[x].addr /\ rec[x].addr # 0 /\ Addr(0) = 0
    BY <1>0 DEF Addr, Reuse
  <2>2. y # 0 /\ y \in Nodes
    BY <1>2, <2>1
  <2>3. rec[x].addr = rec[y].addr
    BY <1>2, <2>1, <2>2 DEF Addr
  <2>4. ~(x < y) /\ ~(y < x)
    BY <1>2, <2>2, <2>3 DEF Reuse
  <2>5. QED
    BY <1>0, <2>2, <2>4
<1>3. QED
  BY <1>1, <1>2

\* A step that adds no record keeps the addresses, and what is freed.
LEMMA ReuseStays ==
  ASSUME Reuse, Nodes' = Nodes,
         \A x \in Nodes : rec'[x].addr = rec[x].addr /\ (rec[x].freed # 0 => rec'[x].freed # 0)
  PROVE  Reuse'
BY DEF Reuse

LEMMA EditReuse ==
  ASSUME Typed, Reuse, NEW x \in Nodes, NEW h, Edits(x, h), h.addr = rec[x].addr,
         rec[x].freed # 0 => h.freed # 0
  PROVE  Reuse'
<1>1. Nodes' = Nodes
  BY DEF Edits, Nodes
<1>2. QED
  BY <1>1, ReuseStays DEF Edits

LEMMA AddReuse ==
  ASSUME Typed, Reuse, NEW next, NEW tid, AddsFresh(next, tid)
  PROVE  Reuse'
<1>1. PICK a \in Nat \ {0} : /\ Adds(Fresh(next, tid, a))
                             /\ \A y \in Nodes : rec[y].freed = 0 => rec[y].addr # a
  BY DEF AddsFresh
<1>2. PICK n : n = Len(rec) + 1
  OBVIOUS
<1>3. /\ Nodes' = Nodes \cup {n} /\ rec'[n].addr = a /\ \A y \in Nodes : rec'[y] = rec[y] /\ y < n
      /\ n \in Nat
  BY <1>1, <1>2 DEF Adds, Fresh, Typed, TypeOK, Nodes
<1>4. ASSUME NEW x \in Nodes' PROVE rec'[x].addr # 0
  BY <1>1, <1>3, <1>4 DEF Reuse
<1>5. ASSUME NEW x \in Nodes', NEW y \in Nodes', x < y, rec'[x].addr = rec'[y].addr
      PROVE  rec'[x].freed # 0
  <2>1. x \in Nodes /\ x \in Nat /\ y \in Nat /\ rec'[x] = rec[x]
    BY <1>3, <1>5 DEF Nodes
  <2>2. CASE y = n
    BY <1>1, <1>3, <1>5, <2>1, <2>2
  <2>3. CASE y \in Nodes
    BY <1>3, <1>5, <2>1, <2>3 DEF Reuse
  <2>4. QED
    BY <1>3, <2>2, <2>3
<1>6. QED
  BY <1>4, <1>5 DEF Reuse

LEMMA StepReuse ==
  ASSUME IInv, Reuse, NEW t \in Threads, StepById(t) \/ Flush(t)
  PROVE  Reuse'
<1>0. Typed /\ Owned /\ Ordered
  BY DEF IInv, Typed
<1>1. CASE rec' = rec
  BY <1>1, ReuseStays DEF Nodes
<1>2. CASE StoreEpochById(t)
  <2>1. PICK x \in Nodes : x = Target(t)
    BY <1>0, <1>2, Targets DEF StoreEpochById, Committing
  <2>2. Edits(x, [rec[x] EXCEPT !.write = IF @ = 0 THEN th[t].saw ELSE @]) /\ rec[x] \in Header
    BY <1>0, <1>2, <2>1, StoreEpochMoves, Headers
  <2>3. QED
    BY <1>0, <2>2, EditReuse DEF Header
<1>3. CASE Link(t) \/ NewNode(t)
  BY <1>0, <1>3, LinkMoves, NewNodeMoves, AddReuse
<1>4. CASE LoseRootById(t)
  <2>1. PICK x \in Nodes : x = th[t].own
    BY <1>0, <1>4, LoseRootMoves
  <2>2. Edits(x, [rec[x] EXCEPT !.freed = @ + 1]) /\ rec[x] \in Header
    BY <1>0, <1>4, <2>1, LoseRootMoves, Headers
  <2>3. QED
    BY <1>0, <2>2, EditReuse DEF Header
<1>5. CASE Retire(t)
  <2>1. PICK x \in Nodes : x = th[t].victim
    BY <1>0, <1>5, RetireMoves
  <2>2. Edits(x, [rec[x] EXCEPT !.retire = epoch]) /\ rec[x] \in Header
    BY <1>0, <1>5, <2>1, RetireMoves, Headers
  <2>3. QED
    BY <1>0, <2>2, EditReuse DEF Header
<1>6. CASE FreeOld(t)
  <2>1. /\ Nodes' = Nodes /\ \A x \in Gone(t) : rec'[x] = [rec[x] EXCEPT !.freed = @ + 1]
        /\ \A x \in Nodes \ Gone(t) : rec'[x] = rec[x]
    BY <1>0, <1>6, FreeOldMoves
  <2>2. ASSUME NEW x \in Nodes PROVE rec'[x].addr = rec[x].addr /\ (rec[x].freed # 0 => rec'[x].freed # 0)
    <3>1. rec[x] \in Header /\ rec[x].freed \in Nat
      BY <1>0, Headers DEF Header
    <3>2. CASE x \in Gone(t)
      <4>1. rec'[x] = [rec[x] EXCEPT !.freed = @ + 1]
        BY <2>1, <3>2
      <4>2. rec'[x].addr = rec[x].addr /\ rec'[x].freed = rec[x].freed + 1
        BY <3>1, <4>1 DEF Header
      <4>3. QED
        BY <3>1, <4>2
    <3>3. CASE x \notin Gone(t)
      BY <2>1, <3>3
    <3>4. QED
      BY <3>2, <3>3
  <2>3. QED
    BY <2>1, <2>2, ReuseStays
<1>7. CASE GiveTidById(t) \/ RetryGiveById(t)
  <2>1. PICK x \in Nodes : x = th[t].own
    BY <1>0, <1>7, GiveTidMoves, RetryGiveMoves
  <2>2. Edits(x, [rec[x] EXCEPT !.next = freeTids]) /\ rec[x] \in Header
    BY <1>0, <1>7, <2>1, GiveTidMoves, RetryGiveMoves, Headers
  <2>3. QED
    BY <1>0, <2>2, EditReuse DEF Header
<1>8. StepById(t) \/ Flush(t) =>
        \/ rec' = rec \/ StoreEpochById(t) \/ Link(t) \/ NewNode(t) \/ LoseRootById(t) \/ Retire(t)
        \/ FreeOld(t) \/ GiveTidById(t) \/ RetryGiveById(t)
  BY DEF StepById, AcquireById, StartOp, CommitById, ReadById, WriteById, Empty, ReleaseById, Flush, EndOp,
     LoadRoot, NewTid, LoadHeadById, ReadBelowById, PopTidById, ClearSlot, Begin, Reserve, ReadEpoch,
     SeeEpochById, NewEpoch, AcceptById, OlderById, EndView, SwapRootById, BeginScan, ScanSlot, Leave, LeaveScan
<1>9. QED
  BY <1>1, <1>2, <1>3, <1>4, <1>5, <1>6, <1>7, <1>8

\* What a thread has in hand is in use: what it holds under its reservation, the
\* record it commits, and the node a thread that takes a tid has found on the list.
LEMMA InHand ==
  ASSUME IInv, Reclaimed, OneTaker, NEW t \in Threads
  PROVE  /\ Holds(t) \/ th[t].pc \in {"pop", "take"} => th[t].hold \in Nodes /\ rec[th[t].hold].freed = 0
         /\ th[t].pc \in {"commit", "committed"} => th[t].own \in Nodes /\ rec[th[t].own].freed = 0
         /\ th[t].pc = "take" => th[t].below = rec[th[t].hold].next
         /\ root \in Nodes /\ rec[root].freed = 0
         /\ freeTids \in Nodes \cup {0} /\ (freeTids # 0 => rec[freeTids].freed = 0)
<1>1. PICK free \in SUBSET Nodes : Apart(free) /\ FreeList(free)
  BY DEF IInv, Owned
<1>2. Protected(t) /\ Shaped(t) /\ Informed(t) /\ TypeOK
  BY DEF IInv, Reclaimed, Ordered
<1>3. Holds(t) => th[t].hold \in Nodes /\ rec[th[t].hold].freed = 0
  BY <1>2 DEF Protected, Informed, Safe
<1>4. th[t].pc \in {"pop", "take"} => th[t].hold \in Nodes /\ rec[th[t].hold].freed = 0
  BY <1>1 DEF FreeList, Apart, OneTaker
<1>5. th[t].pc \in {"commit", "committed"} => th[t].own \in Nodes /\ rec[th[t].own].freed = 0
  BY <1>2 DEF Protected, Shaped, Safe
<1>6. th[t].pc = "take" => th[t].below = rec[th[t].hold].next
  BY <1>1 DEF FreeList, OneTaker
<1>7. /\ root \in Nodes /\ rec[root].freed = 0
      /\ freeTids \in Nodes \cup {0} /\ (freeTids # 0 => rec[freeTids].freed = 0)
  BY <1>1, <1>2 DEF TypeOK, Apart, FreeList
<1>8. QED
  BY <1>3, <1>4, <1>5, <1>6, <1>7

\* So a thread mistakes no record for another.
LEMMA StepsById ==
  ASSUME IInv, Reclaimed, Reuse, OneTaker, NEW t \in Threads, Step(t)
  PROVE  StepById(t)
<1>0. Typed
  BY DEF IInv, Typed
<1>1. /\ Holds(t) \/ th[t].pc \in {"pop", "take"} =>
           th[t].hold \in Nodes /\ Mem(th[t].hold) = th[t].hold
      /\ th[t].pc \in {"commit", "committed"} => Mem(th[t].own) = th[t].own
  BY <1>0, InHand, InUse
<1>2. CASE LoadHead(t)
  BY <1>2 DEF LoadHead, LoadHeadById, StepById, AcquireById
<1>3. CASE ReadBelow(t)
  <2>1. Mem(th[t].hold) = th[t].hold
    BY <1>1, <1>3 DEF ReadBelow, At
  <2>2. QED
    BY <1>3, <2>1 DEF ReadBelow, ReadBelowById, StepById, AcquireById
<1>4. CASE PopTid(t)
  <2>1. th[t].hold \in Nodes /\ rec[th[t].hold].freed = 0 /\ th[t].below = rec[th[t].hold].next
    BY <1>4, InHand DEF PopTid, At
  <2>2. freeTids = th[t].hold
    BY <1>0, <1>4, <2>1, InHand, InUse DEF PopTid
  <2>3. QED
    BY <1>4, <2>1, <2>2 DEF PopTid, PopTidById, StepById, AcquireById
<1>5. CASE SeeEpoch(t)
  <2>1. Mem(th[t].hold) = th[t].hold
    BY <1>1, <1>5 DEF SeeEpoch, At, Holds
  <2>2. QED
    BY <1>5, <2>1 DEF SeeEpoch, SeeEpochById, StepById, CommitById
<1>6. CASE StoreEpoch(t)
  <2>1. Mem(Target(t)) = Target(t)
    BY <1>1, <1>6 DEF StoreEpoch, Target, Holds
  <2>2. QED
    BY <1>6, <2>1 DEF StoreEpoch, StoreEpochById, StepById, CommitById
<1>7. CASE Accept(t) \/ Older(t)
  <2>1. Mem(th[t].hold) = th[t].hold
    BY <1>1, <1>7 DEF Accept, Older, At, Holds
  <2>2. QED
    BY <1>7, <2>1 DEF Accept, AcceptById, Older, OlderById, StepById, ReadById
<1>8. CASE SwapRoot(t)
  <2>1. th[t].hold \in Nodes /\ rec[th[t].hold].freed = 0
    BY <1>8, InHand DEF SwapRoot, At, Holds
  <2>2. root = th[t].hold
    BY <1>0, <1>8, <2>1, InHand, InUse DEF SwapRoot
  <2>3. QED
    BY <1>8, <2>2 DEF SwapRoot, SwapRootById, StepById, WriteById
<1>9. CASE LoseRoot(t)
  BY <1>9 DEF LoseRoot, LoseRootById, StepById, WriteById
<1>10. CASE GiveTid(t) \/ RetryGive(t)
  BY <1>10 DEF GiveTid, GiveTidById, RetryGive, RetryGiveById, StepById, ReleaseById
<1>11. QED
  BY <1>2, <1>3, <1>4, <1>5, <1>6, <1>7, <1>8, <1>9, <1>10
     DEF Step, StepById, Acquire, AcquireById, Commit, CommitById, Read, ReadById, Write, WriteById, Release,
         ReleaseById

-----------------------------------------------------------------------------
(* The invariant, and what follows from it.                                *)

Inv == nexttid \in Nat /\ (OneTaker => IInv /\ Reclaimed /\ Reuse)

LEMMA StepInv ==
  ASSUME ~Delayed, Inv, NEW t \in Threads, Step(t) \/ Flush(t)
  PROVE  Inv'
<1>1. nexttid' \in Nat /\ (OneTaker' => OneTaker)
  <2>1. nexttid' = nexttid \/ nexttid' = nexttid + 1
    BY DEF Step, Flush, Acquire, StartOp, EndOp, Commit, LoadRoot, Read, Write, Retire, Empty, Release, NewTid,
       LoadHead, ReadBelow, PopTid, ClearSlot, Begin, Reserve, ReadEpoch, SeeEpoch, NewEpoch, StoreEpoch, Accept,
       Older, EndView, Link, SwapRoot, LoseRoot, BeginScan, ScanSlot, FreeOld, Leave, LeaveScan, NewNode,
       GiveTid, RetryGive
  <2>2. QED
    BY <2>1, Numbers DEF Inv, OneTaker
<1>2. ASSUME OneTaker PROVE IInv' /\ Reclaimed' /\ Reuse'
  <2>1. IInv /\ Reclaimed /\ Reuse
    BY <1>2 DEF Inv
  <2>2. StepById(t) \/ Flush(t)
    BY <1>2, <2>1, StepsById
  <2>3. QED
    BY <2>1, <2>2, StepIInv, StepReclaimed, StepReuse
<1>3. QED
  BY <1>1, <1>2 DEF Inv

\* Everything an operation holds or can come to is out of reach of every scan, under
\* way or to come (mmm_start_basic_op, mmm_start_linearized_op, mmm_retire, mmm_empty),
\* every record and every tid has one owner, and the chain is in the order of its
\* epochs: for any number of threads, however often they scan and although freed memory
\* is given out again, as long as a reservation is visible before the loads that follow
\* it and at most one thread has found the tids used up.
THEOREM ReservationsProtect == ~Delayed => (Spec => []Inv)
<1> SUFFICES ASSUME ~Delayed PROVE Spec => []Inv
  OBVIOUS
<1>1. Init => Inv
  <2> SUFFICES ASSUME Init PROVE nexttid \in Nat /\ Reuse
    BY InitIInv, InitReclaimed DEF Inv
  <2>1. nexttid = 0 /\ Nodes = {1} /\ rec[1].addr = 1
    BY DEF Init, Fresh, Nodes
  <2>2. QED
    BY <2>1 DEF Reuse
<1>2. Inv /\ [Next]_vars => Inv'
  <2> SUFFICES ASSUME Inv, [Next]_vars PROVE Inv'
    OBVIOUS
  <2>1. CASE UNCHANGED vars
    <3>1. UNCHANGED <<nexttid, rec>> /\ (OneTaker' <=> OneTaker)
      BY <2>1 DEF vars, OneTaker
    <3>2. QED
      BY <2>1, <3>1, IdleIInv, StillReclaimed DEF Inv, Reuse, Nodes
  <2>2. CASE \E t \in Threads : Step(t) \/ Flush(t)
    BY <2>2, StepInv
  <2>3. QED
    BY <2>1, <2>2 DEF Next
<1>3. Spec => Init /\ [][Next]_vars
  BY PTL DEF Spec
<1>4. QED
  BY <1>1, <1>2, <1>3, PTL

\* No thread works with a record that has been freed or given out again
\* (mmm_start_basic_op, mmm_start_linearized_op, mmm_retire, mmm_empty), for any number
\* of threads, as long as a reservation is visible before the loads that follow it and
\* at most one thread has found the tids used up.
THEOREM NoDangling == ~Delayed => (Spec => []NoUseAfterFree)
<1>1. Inv => NoUseAfterFree
  <2> SUFFICES ASSUME Inv, OneTaker, NEW t \in Threads, th[t].hold # 0 PROVE rec[th[t].hold].freed = 0
    BY DEF NoUseAfterFree
  <2>1. IInv /\ Reclaimed /\ Shaped(t)
    BY DEF Inv, IInv
  <2>2. Holds(t) \/ th[t].pc \in {"pop", "take"}
    BY <2>1 DEF Shaped
  <2>3. QED
    BY <2>1, <2>2, InHand
<1>2. QED
  BY <1>1, ReservationsProtect, PTL

\* Nothing is freed twice, nor while the bucket or the list of free tids points to it
\* (mmm_empty, mmm_retire_unused), although a freed record's memory may come back as
\* another record or as a node of that list: under the same two conditions.
THEOREM NoDoubleFree == ~Delayed => (Spec => []FreedOnce)
<1>1. Inv => FreedOnce
  <2> SUFFICES ASSUME Inv, OneTaker
               PROVE  /\ \A x \in DOMAIN rec : rec[x].freed <= 1
                      /\ rec[root].freed = 0 /\ (freeTids # 0 => rec[freeTids].freed = 0)
    BY DEF FreedOnce
  <2>1. IInv
    BY DEF Inv
  <2>2. PICK free \in SUBSET Nodes : Apart(free) /\ FreeList(free)
    BY <2>1 DEF IInv, Owned
  <2>3. DOMAIN rec = Nodes
    BY <2>1 DEF IInv, TypeOK, Nodes
  <2>4. QED
    BY <2>2, <2>3 DEF Apart, FreeList
<1>2. QED
  BY <1>1, ReservationsProtect, PTL

\* Two threads that may reserve have slots of their own (mmm_thread_acquire,
\* mmm_tid_giveback), whether their tids are new or were given back, and although a
\* node of the list may be freed and its memory put on the list again while others look
\* at it: under the same two conditions.
THEOREM TidsUnique == ~Delayed => (Spec => []SlotsApart)
<1>1. Inv => SlotsApart
  <2> SUFFICES ASSUME Inv, OneTaker, NEW t \in Threads, NEW u \in Threads, Owns(t), Owns(u), t # u
               PROVE  th[t].tid # th[u].tid
    BY DEF SlotsApart, Owns
  <2>1. QED
    BY DEF Inv, IInv, Owned, FreeList
<1>2. QED
  BY <1>1, ReservationsProtect, PTL

\* A linearized reader finds the record that was the newest in the epoch it read,
\* however late the writers before it commit (mmm_help_commit, lohat_view_mmm): under
\* the same two conditions.
THEOREM LinearizedRead == ~Delayed => (Spec => []ReadsItsEpoch)
<1>1. Inv => ReadsItsEpoch
  <2> SUFFICES ASSUME Inv, OneTaker, NEW t \in Threads, th[t].pc = "found"
               PROVE  /\ rec[th[t].hold].write # 0 /\ rec[th[t].hold].write <= th[t].at
                      /\ \A x \in DOMAIN rec : rec[x].write <= th[t].at => rec[x].write <= rec[th[t].hold].write
    BY DEF ReadsItsEpoch, At
  <2>1. Typed /\ DOMAIN rec = Nodes /\ Informed(t) /\ Linear(t)
    BY DEF Inv, IInv, Typed, TypeOK, Nodes, Ordered
  <2>2. Holds(t) /\ Reads(t)
    BY <2>1 DEF Holds, Reads, Typed, Shaped
  <2>3. th[t].hold \in Nodes /\ rec[th[t].hold].write # 0
    BY <2>1, <2>2 DEF Informed
  <2>4. QED
    BY <2>1, <2>2, <2>3, Writes DEF Linear
<1>2. QED
  BY <1>1, ReservationsProtect, PTL

=============================================================================
