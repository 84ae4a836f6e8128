------------------------------ MODULE MCQueues ------------------------------
(***************************************************************************)
(* The hatrack queues, rings, stacks and the flexible array for TLC.  One  *)
(* run checks them all: which names the container of a behaviour, and its  *)
(* module makes the steps.  Segments, rings and stores are so small that   *)
(* the calls of a workload fill, overrun or migrate them.                  *)
(***************************************************************************)
EXTENDS Fifo

CONSTANT Garbled

VARIABLE which
-----------------------------------------------------------------------------
(* Calls and workloads.                                                    *)

Call(o)     == [op |-> o]
Put(o, i)   == [op |-> o, item |-> i]
At(o, n)    == [op |-> o, at |-> n]
SetAt(n, i) == [op |-> "set", at |-> n, item |-> i]
Run(a, b, c) == [t \in 1..3 |-> CASE t = 1 -> a [] t = 2 -> b [] OTHER -> c]

Enq(i) == Put("enqueue", i)
Deq    == Call("dequeue")

\* The last call of the enqueuer needs a new segment, while dequeuers overtake it;
\* with one step before help is asked for, every slow enqueuer asks.  q64 stores
\* multiples of four.
ThreeEnqueues == {Run(<<Enq(4), Enq(8), Enq(12)>>, <<Deq, Deq>>, <<Deq>>)}
TwoEnqueuers  == {Run(<<Enq(4), Enq(8)>>, <<Enq(12), Deq>>, <<Deq>>)}

StackCalls == {Run(<<Put("push", 4), Call("pop")>>, <<Put("push", 12), Call("pop")>>, <<Call("pop")>>)}

\* Four items are put into a ring of four that holds two; where two enqueuers or
\* two dequeuers overlap in a full ring, younger items may go.
FourRing == <<Put("ring", "a"), Put("ring", "b"), Put("ring", "c"), Put("ring", "d")>>
ThreeLap == <<Put("lap", "a"), Put("lap", "b"), Put("lap", "e")>>
RingCalls ==
  {Run(FourRing, <<Deq, Deq>>, <<>>), Run(FourRing, <<Call("glance")>>, <<>>),
   Run(<<Put("ring", "a")>>, <<Put("ring", "b")>>, <<Deq, Deq>>),
   Run(<<Put("ring", "a"), Deq>>, <<Deq>>, <<Deq>>),
   Run(ThreeLap, <<Put("lap", "c")>>, <<Deq>>), Run(ThreeLap \o <<Deq, Deq>>, <<Put("lap", "c")>>, <<>>)}

\* The log ring has four entries, two of them in use, so the third message is written
\* where the first one of the preload was.
LogRun == <<Put("ring", "a"), Put("ring", "b"), Put("ring", "c")>>
LogCalls ==
  {Run(LogRun, <<Call("glance")>>, <<>>), Run(<<Deq>> \o LogRun, <<Call("glance")>>, <<>>),
   Run(LogRun, <<Call("glean")>>, <<>>), Run(<<Put("ring", "a")>>, <<Call("glance")>>, <<Call("glean")>>),
   Run(<<Put("ring", "a"), Deq, Call("glance"), Put("ring", "b"), Deq, Deq, Put("ring", "c"), Deq>>, <<>>, <<>>),
   Run(<<Put("ring", "a"), Put("ring", "b"), Call("view"), Put("ring", "c"), Call("view"), Deq, Call("view")>>,
       <<>>, <<>>),
   Run(<<Deq>>, <<Call("view")>>, <<>>), Run(<<Deq>>, <<Deq>>, <<>>)}

HQCalls ==
  {Run(<<Enq(4)>>, <<Enq(12)>>, <<Deq>>), Run(<<Enq(4), Deq>>, <<Deq>>, <<>>),
   Run(<<Enq(4), Deq, Call("view"), Deq, Enq(8), Deq, Deq>>, <<>>, <<>>)}
\* The last one goes round the two cells, until a dequeue is suspended often enough.
CapQCalls ==
  {Run(<<Enq("a")>>, <<Enq("b")>>, <<Deq>>), Run(<<Enq("a"), Deq>>, <<Deq>>, <<>>),
   Run(<<Enq("a"), Enq("b"), Enq("c"), Deq, Deq>>, <<Call("top")>>, <<>>),
   Run(<<Deq, Enq("a"), Deq, Enq("b"), Deq>>, <<Call("top")>>, <<>>)}

\* A push grows a stack of four that holds three.
GrowCalls  == {Run(<<Put("push", "a"), Put("push", "c"), Call("pop")>>, <<Call("pop")>>, <<>>),
               Run(<<Put("push", "a"), Put("push", "c")>>, <<Call("view")>>, <<>>)}
ThreeCalls == {Run(<<Put("push", "a"), Call("pop")>>, <<Put("push", "b")>>, <<Call("pop")>>),
               Run(<<Put("push", "a")>>, <<Call("pop")>>, <<Call("top")>>)}
ViewCalls  == {Run(<<Put("push", "a"), Call("pop")>>, <<Call("view")>>, <<>>)}

ArrayCalls ==
  {Run(<<SetAt(1, "a"), At("get", 1)>>, <<SetAt(1, "b")>>, <<At("get", 1)>>),
   Run(<<SetAt(1, "a"), SetAt(2, "c"), At("get", 1)>>, <<At("grow", 4), SetAt(4, "d"), At("get", 4)>>, <<>>),
   Run(<<SetAt(1, "a"), SetAt(2, "c")>>, <<Call("view")>>, <<At("get", 1)>>),
   Run(<<At("grow", 4), SetAt(3, "a"), At("shrink", 4), Call("view"), At("get", 3), SetAt(3, "b"), At("get", 3),
         SetAt(5, "a"), At("get", 5)>>, <<>>, <<>>)}
-----------------------------------------------------------------------------
(* The containers.                                                         *)

Seg   == INSTANCE SegQueue  WITH Preload <- <<16>>, Workloads <- ThreeEnqueues, SegSize <- 2, HelpSteps <- 1
Sixty == INSTANCE SegQueue  WITH Preload <- <<16>>, Workloads <- TwoEnqueuers, SegSize <- 2, HelpSteps <- 3
Links == INSTANCE LLStack   WITH Preload <- <<16>>, Workloads <- StackCalls
Ring  == INSTANCE HatRing   WITH Preload <- <<"p", "q">>, Workloads <- RingCalls, Capacity <- 4, DropHandler <- TRUE
Log   == INSTANCE LogRing   WITH Preload <- <<"p", "q">>, Workloads <- LogCalls, Capacity <- 2, DropHandler <- FALSE,
                                 ViewIds <- {0}, MaxBlocks <- 5
Hq    == INSTANCE HQ        WITH Preload <- <<16>>, Workloads <- HQCalls, Capacity <- 4, Huge <- 999
Cap   == INSTANCE CapQ      WITH Preload <- <<"p", "q">>, Workloads <- CapQCalls, Capacity <- 2, Jump <- 64, Suspend <- 2
Grow  == INSTANCE HatStack  WITH Preload <- <<"p", "q", "r">>, Workloads <- GrowCalls, Capacity <- 4
Three == INSTANCE HatStack  WITH Preload <- <<"p">>, Workloads <- ThreeCalls, Capacity <- 8
View  == INSTANCE HatStack  WITH Preload <- <<"p", "q">>, Workloads <- ViewCalls, Capacity <- 4
Flex  == INSTANCE FlexArray WITH Preload <- <<"p", "q">>, Workloads <- ArrayCalls, Capacity <- 2

MCInit ==
  \/ which = "queue" /\ Seg!QueueInit
  \/ which = "q64" /\ Sixty!Q64Init
  \/ which = "llstack" /\ Links!Init
  \/ which = "hatring" /\ Ring!Init
  \/ which = "logring" /\ Log!LogInit
  \/ which = "hq" /\ Hq!Init
  \/ which = "capq" /\ Cap!Init
  \/ which = "stack" /\ (Grow!Init \/ Three!Init \/ View!Init)
  \/ which = "flexarray" /\ Flex!Init

QueueSteps == which = "queue" /\ Seg!QueueNext /\ UNCHANGED which
Q64Steps   == which = "q64" /\ Sixty!Q64Next /\ UNCHANGED which
LinkSteps  == which = "llstack" /\ Links!Next /\ UNCHANGED which
RingSteps  == which = "hatring" /\ Ring!Next /\ UNCHANGED which
LogSteps   == which = "logring" /\ Log!LogNext /\ UNCHANGED which
HQSteps    == which = "hq" /\ Hq!Next /\ UNCHANGED which
CapSteps   == which = "capq" /\ Cap!Next /\ UNCHANGED which
StackSteps == which = "stack" /\ Grow!Next /\ UNCHANGED which
FlexSteps  == which = "flexarray" /\ Flex!Next /\ UNCHANGED which

\* All calls have answered; only this may stop the threads, and a strict view of the
\* log ring that has left its memory.
Rest ==
  /\ Finished \/ (which = "logring" /\ \E t \in Threads : th[t].pc = "fault")
  /\ UNCHANGED <<which, fifoVars>>

MCNext ==
  \/ QueueSteps \/ Q64Steps \/ LinkSteps \/ RingSteps \/ LogSteps \/ HQSteps \/ CapSteps \/ StackSteps \/ FlexSteps
  \/ Rest

MCSpec == MCInit /\ [][MCNext]_<<which, fifoVars>>
-----------------------------------------------------------------------------
(* Properties.                                                             *)

\* When no call runs, len is the number of items, however the counting of the
\* enqueuers and the dequeuers was interleaved.
LenAtRest ==
  Finished /\ which \in {"queue", "q64", "hq"} => \E c \in lin : top.len = Len(c.obj)

\* No block of memory is retired twice, whoever of several helpers replaced it
\* (stack.c:744, hq.c:728, capq.c), but for a store that a view claims after a
\* migration has retired it, which the view retires again; and no item that a
\* ring gave to the drop handler, which frees it, is the answer of a dequeue, the
\* check of hatring.c:286.
MemorySafe == RetiredOnceButForViews /\ (which = "hatring" => Ring!DroppedIsGone)

\* A view of a log ring shows no entry whose message is of one enqueue and whose
\* length of another.
ViewsWhole == which = "logring" => Log!ViewsWhole
=============================================================================
