--------------------------------- MODULE GIL ---------------------------------
(***************************************************************************)
(* n00b's stop-the-world lock (src/mt/gil.nc) and the launch of threads    *)
(* that may fall into a stop (src/mt/thread.nc, src/mt/thread_tsi.nc).     *)
(*                                                                         *)
(* A stopper takes the one global word n00b_gil, then sets the GIL bit in  *)
(* the self_lock word of every thread in the thread list, slot after slot. *)
(* A thread looks at its own word when it checks in and, if the bit is     *)
(* set, waits until n00b_gil is free.  A thread is the slot it has in the  *)
(* list; a slot is used once.  The stopper reads a slot in one step and    *)
(* uses the thread state that it points to in a later one, when the thread *)
(* may have ended and unmapped it.  Locals are reset once they are dead.   *)
(***************************************************************************)
EXTENDS Integers, FiniteSets

CONSTANTS
    NThreads,    \* how many slots the thread list has
    MaxNesting,  \* bound on the nesting of stop-the-world calls
    MaxStops     \* bound: how many stop-the-world calls are made in all

ASSUME GILAssumption ==
    /\ NThreads \in Nat \ {0}
    /\ MaxNesting \in Nat \ {0}
    /\ MaxStops \in Nat

Threads == 1 .. NThreads
NoOwner == -1

\* N00B_SUSPEND, which nothing but a debug log reads, is left out.
Bits == {"gil", "blocking", "starting"}

VARIABLES
    gil,        \* n00b_gil: the stopper, or NoOwner
    nesting,    \* stw_nesting
    bits,       \* thread -> the bits set in its self_lock
    stwHeap,    \* stw_heap: NULL, mapped pages, or pages that were unmapped
    pc,         \* thread -> where it is in the code below
    back,       \* thread -> where it goes on when the GIL is released
    expected,   \* thread -> n00b_stop_the_world's local of that name
    at,         \* thread -> slots its loop over the list has still to visit
    init,       \* thread -> n00b_thread_launcher's local of that name
    child,      \* thread -> the slot it reserved in n00b_thread_spawn
    depth,      \* thread -> its stop-the-world calls not yet restarted
    stops,      \* how many more stop-the-world calls will be made
    party,      \* history: the others, past their launch, when the GIL was taken
    takenOver,  \* history: whether a stop was ever taken over from its stopper
    relit,      \* history: threads whose own launch gave them the GIL bit back
    fatal       \* how the process died, if it did

vars == <<gil, nesting, bits, stwHeap, pc, back, expected, at, init, child,
          depth, stops, party, takenOver, relit, fatal>>

\* Of a thread that is being launched, before its check-in.
LaunchPCs == {"unborn", "born", "published", "prologue", "store", "launched"}
\* Of the stopper, from the CAS until it lets go of n00b_gil.
StopperPCs == {"mark", "markbit", "stopped", "unmark", "unmarkbit"}

PCs == LaunchPCs \cup StopperPCs \cup
       {"run", "away", "contend", "recheck", "cas", "abandon", "clear",
        "blocked", "await", "exiting", "gone"}

\* n00b_gil names a thread or N00B_NO_OWNER and nothing else, and stw_nesting
\* stays within the nesting of the calls, never below zero.
TypeOK ==
    /\ gil \in Threads \cup {NoOwner}
    /\ nesting \in 0 .. MaxNesting
    /\ bits \in [Threads -> SUBSET Bits]
    /\ stwHeap \in {"null", "mapped", "unmapped"}
    /\ pc \in [Threads -> PCs]
    /\ back \in [Threads -> PCs]
    /\ expected \in [Threads -> Threads \cup {NoOwner}]
    /\ at \in [Threads -> 0 .. NThreads]
    /\ init \in [Threads -> SUBSET Bits]
    /\ child \in [Threads -> Threads \cup {NoOwner}]
    /\ depth \in [Threads -> 0 .. MaxNesting]
    /\ stops \in 0 .. MaxStops
    /\ party \in SUBSET Threads
    /\ takenOver \in BOOLEAN
    /\ relit \in SUBSET Threads
    /\ fatal \in {"no", "abort", "null", "fault"}

\* n00b_threading_setup has given the main thread its slot.
Init ==
    /\ gil = NoOwner
    /\ nesting = 0
    /\ bits = [t \in Threads |-> {}]
    /\ stwHeap = "null"
    /\ pc = [t \in Threads |-> IF t = 1 THEN "run" ELSE "unborn"]
    /\ back = [t \in Threads |-> "run"]
    /\ expected = [t \in Threads |-> NoOwner]
    /\ at = [t \in Threads |-> 0]
    /\ init = [t \in Threads |-> {}]
    /\ child = [t \in Threads |-> NoOwner]
    /\ depth = [t \in Threads |-> 0]
    /\ stops = MaxStops
    /\ party = {}
    /\ takenOver = FALSE
    /\ relit = {}
    /\ fatal = "no"

\* The thread list has an entry for t; the entry's tsi is set and not yet unmapped.
Listed(t) == pc[t] \notin {"unborn", "born", "exiting", "gone"}
HasTsi(t) == pc[t] \notin {"unborn", "born", "published", "gone"}

At(t, label) == pc[t] = label /\ fatal = "no"
Goto(t, label) == pc' = [pc EXCEPT ![t] = label]
SetBits(t, b) == bits' = [bits EXCEPT ![t] = @ \cup b]
ClearBits(t, b) == bits' = [bits EXCEPT ![t] = @ \ b]

histVars == <<party, takenOver, relit>>
stopVars == <<gil, nesting, expected, at, depth, stops, histVars>>
launchVars == <<init, child>>

-----------------------------------------------------------------------------
(* Checking in.                                                            *)

\* Enter wait_for_gil_release, to go on at `label' afterwards.
Block(t, label) ==
    /\ Goto(t, "blocked")
    /\ back' = [back EXCEPT ![t] = label]

\* n00b_thread_checkin, as the last thing before `label'.
CheckinTo(t, label) ==
    \/ "gil" \notin bits[t] /\ Goto(t, label) /\ UNCHANGED <<bits, back>>
    \/ "gil" \in bits[t] /\ SetBits(t, {"blocking"}) /\ Block(t, label)

\* A running thread checks in, from the interpreter's loop or an allocation.
Checkin(t) ==
    /\ At(t, "run")
    /\ CheckinTo(t, "run")
    /\ UNCHANGED <<stopVars, launchVars, stwHeap, fatal>>

\* The loop of wait_for_gil_release reads that n00b_gil is free.
Released(t) ==
    /\ At(t, "blocked") /\ gil = NoOwner
    /\ ClearBits(t, {"blocking"})
    /\ Goto(t, back[t])
    /\ back' = [back EXCEPT ![t] = "run"]
    /\ UNCHANGED <<stopVars, launchVars, stwHeap, fatal>>

\* n00b_thread_suspend, before a call that may block.
Suspend(t) ==
    /\ At(t, "run")
    /\ Goto(t, "away")
    /\ UNCHANGED <<stopVars, launchVars, stwHeap, bits, back, fatal>>

\* n00b_thread_resume
Resume(t) ==
    /\ At(t, "away")
    /\ CheckinTo(t, "run")
    /\ UNCHANGED <<stopVars, launchVars, stwHeap, fatal>>

-----------------------------------------------------------------------------
(* Stopping the world.                                                     *)

\* n00b_stop_the_world, by a thread that is not the stopper.
Stop(t) ==
    /\ At(t, "run") /\ stops > 0
    /\ stops' = stops - 1
    /\ expected' = [expected EXCEPT ![t] = NoOwner]
    /\ Goto(t, "contend")
    /\ UNCHANGED <<gil, nesting, at, depth, histVars, launchVars, stwHeap, bits, back, fatal>>

\* Mutant: a nested stop returns without counting itself.
StopNested_Uncounted(t) ==
    /\ At(t, "stopped") /\ gil = t
    /\ stops > 0 /\ depth[t] < MaxNesting
    /\ stops' = stops - 1
    /\ depth' = [depth EXCEPT ![t] = @ + 1]
    /\ UNCHANGED <<gil, nesting, expected, at, histVars, launchVars, stwHeap, bits, pc, back, fatal>>

\* n00b_stop_the_world, by the stopper.
StopNested(t) ==
    /\ At(t, "stopped") /\ gil = t
    /\ stops > 0 /\ nesting < MaxNesting /\ depth[t] < MaxNesting
    /\ stops' = stops - 1
    /\ nesting' = nesting + 1
    /\ depth' = [depth EXCEPT ![t] = @ + 1]
    /\ UNCHANGED <<gil, expected, at, histVars, launchVars, stwHeap, bits, pc, back, fatal>>

\* The do loop's first read of n00b_gil.
Contend(t) ==
    /\ At(t, "contend")
    /\ Goto(t, IF gil = NoOwner THEN "cas" ELSE "recheck")
    /\ UNCHANGED <<stopVars, launchVars, stwHeap, bits, back, fatal>>

\* The inner loop: a second read, a wait on the word, and a check-in.
Recheck(t) ==
    /\ At(t, "recheck")
    /\ CheckinTo(t, IF gil = NoOwner THEN "cas" ELSE "recheck")
    /\ UNCHANGED <<stopVars, launchVars, stwHeap, fatal>>

\* The threads past their launch that have not ended.
Present == {t \in Threads : pc[t] \notin LaunchPCs /\ Listed(t)}

\* Mutant: the stopper starts one slot late.
CasWins_SkipsLast(t) ==
    /\ gil = expected[t]
    /\ gil' = t
    /\ party' = Present \ {t}
    /\ takenOver' = (takenOver \/ gil # NoOwner)
    /\ at' = [at EXCEPT ![t] = NThreads - 1]
    /\ Goto(t, "mark")
    /\ expected' = [expected EXCEPT ![t] = NoOwner]

\* The CAS takes n00b_gil from the value in `expected'.
CasWins(t) ==
    /\ gil = expected[t]
    /\ gil' = t
    /\ party' = Present \ {t}
    /\ takenOver' = (takenOver \/ gil # NoOwner)
    /\ at' = [at EXCEPT ![t] = NThreads]
    /\ Goto(t, "mark")
    /\ expected' = [expected EXCEPT ![t] = NoOwner]

\* The CAS fails and leaves what it found in `expected'.
CasLoses(t) ==
    /\ gil # expected[t]
    /\ expected' = [expected EXCEPT ![t] = gil]
    /\ Goto(t, "contend")
    /\ UNCHANGED <<gil, party, takenOver, at>>

Cas(t) ==
    /\ At(t, "cas")
    /\ CasWins(t) \/ CasLoses(t)
    /\ UNCHANGED <<nesting, depth, stops, relit, launchVars, stwHeap, bits, back, fatal>>

\* A loop over the list, at label: it reads the next slot, and passes over an
\* empty one.
ReadSlot(t, label, next) ==
    /\ At(t, label) /\ at[t] > 0
    /\ \/ Listed(at[t]) /\ Goto(t, next) /\ UNCHANGED at
       \/ ~Listed(at[t]) /\ at' = [at EXCEPT ![t] = @ - 1] /\ UNCHANGED pc
    /\ UNCHANGED <<gil, nesting, expected, depth, stops, histVars, launchVars, stwHeap,
                   bits, back, fatal>>

\* The thread of that slot has unmapped its state since.
SlotGone(t, label) ==
    /\ At(t, label) /\ pc[at[t]] = "gone"
    /\ fatal' = "fault"
    /\ UNCHANGED <<stopVars, launchVars, stwHeap, bits, pc, back>>

\* The stopper's loop over the list sets the GIL bit of the next thread.
Mark(t) == ReadSlot(t, "mark", "markbit") \/ SlotGone(t, "markbit")

MarkBit(t) ==
    /\ At(t, "markbit") /\ pc[at[t]] # "gone"
    /\ bits' = IF HasTsi(at[t]) /\ at[t] # t
               THEN [bits EXCEPT ![at[t]] = @ \cup {"gil"}] ELSE bits
    /\ at' = [at EXCEPT ![t] = @ - 1]
    /\ Goto(t, "mark")
    /\ UNCHANGED <<gil, nesting, expected, depth, stops, histVars, launchVars, stwHeap,
                   back, fatal>>

\* The world counts as stopped.  The stopper's resume returns at once.
Stopped(t) ==
    /\ At(t, "mark") /\ at[t] = 0
    /\ nesting' = 1
    /\ depth' = [depth EXCEPT ![t] = 1]
    /\ Goto(t, "stopped")
    /\ UNCHANGED <<gil, expected, at, stops, histVars, launchVars, stwHeap, bits, back, fatal>>

\* n00b_restart_the_world aborts if the caller is not the stopper, and
\* asserts that there is a level to give back.
RestartAborts(t) ==
    /\ At(t, "stopped") /\ ~(gil = t /\ nesting > 0)
    /\ fatal' = "abort"
    /\ UNCHANGED <<stopVars, launchVars, stwHeap, bits, pc, back>>

\* --stw_nesting; only the last level restarts the world.
RestartLevel(t) ==
    /\ nesting' = nesting - 1
    /\ \/ nesting > 1 /\ UNCHANGED <<pc, at>>
       \/ nesting = 1 /\ Goto(t, "unmark") /\ at' = [at EXCEPT ![t] = NThreads]

\* n00b_restart_the_world
Restart(t) ==
    /\ At(t, "stopped") /\ gil = t /\ nesting > 0
    /\ depth' = [depth EXCEPT ![t] = @ - 1]
    /\ RestartLevel(t)
    /\ UNCHANGED <<gil, expected, stops, histVars, launchVars, stwHeap, bits, back, fatal>>

\* Mutant: only the BLOCKING bit is cleared.
UnmarkSlot_KeepsGil(t, u) ==
    IF HasTsi(u) /\ u # t
    THEN ClearBits(u, {"blocking"}) /\ relit' = relit \ {u}
    ELSE UNCHANGED <<bits, relit>>

UnmarkSlot(t, u) ==
    IF HasTsi(u) /\ u # t
    THEN ClearBits(u, {"gil", "blocking"}) /\ relit' = relit \ {u}
    ELSE UNCHANGED <<bits, relit>>

\* Its loop clears the bits of the next thread.
Unmark(t) == ReadSlot(t, "unmark", "unmarkbit") \/ SlotGone(t, "unmarkbit")

UnmarkBit(t) ==
    /\ At(t, "unmarkbit") /\ pc[at[t]] # "gone"
    /\ UnmarkSlot(t, at[t])
    /\ at' = [at EXCEPT ![t] = @ - 1]
    /\ Goto(t, "unmark")
    /\ UNCHANGED <<gil, nesting, expected, depth, stops, party, takenOver, launchVars,
                   stwHeap, back, fatal>>

\* Mutant: n00b_gil is left as it is.
LetGo_Forgotten(t) == UNCHANGED gil

\* Mutant: n00b_gil is zeroed, like any other futex.
LetGo_Zeroes(t) == gil' = 0

\* atomic_store(&n00b_gil, N00B_NO_OWNER)
LetGo(t) == gil' = NoOwner

Release(t) ==
    /\ At(t, "unmark") /\ at[t] = 0
    /\ LetGo(t)
    /\ Goto(t, "abandon")
    /\ UNCHANGED <<nesting, expected, at, depth, stops, histVars, launchVars, stwHeap,
                   bits, back, fatal>>

\* mheap_abandon unmaps the pages; pages already unmapped are a fault.
Abandon(t) ==
    /\ At(t, "abandon")
    /\ \/ stwHeap = "null" /\ Goto(t, "run") /\ UNCHANGED <<stwHeap, fatal>>
       \/ stwHeap = "mapped" /\ stwHeap' = "unmapped" /\ Goto(t, "clear") /\ UNCHANGED fatal
       \/ stwHeap = "unmapped" /\ fatal' = "fault" /\ UNCHANGED <<stwHeap, pc>>
    /\ UNCHANGED <<stopVars, launchVars, bits, back>>

\* atomic_store(&stw_heap, NULL), and those who wait on n00b_gil are woken.
AbandonClear(t) ==
    /\ At(t, "clear")
    /\ stwHeap' = "null"
    /\ Goto(t, "run")
    /\ UNCHANGED <<stopVars, launchVars, bits, back, fatal>>

\* n00b_gil_alloc_len while the world is stopped: by the stopper, or by any
\* thread that still runs.
GilAlloc(t) ==
    /\ pc[t] \in {"run", "stopped"} /\ fatal = "no" /\ gil # NoOwner
    /\ \/ stwHeap = "unmapped" /\ fatal' = "fault" /\ UNCHANGED stwHeap
       \/ stwHeap # "unmapped" /\ stwHeap' = "mapped" /\ UNCHANGED fatal
    /\ UNCHANGED <<stopVars, launchVars, bits, pc, back>>

-----------------------------------------------------------------------------
(* Threads come and go.                                                    *)

\* n00b_thread_spawn: the child is created, then n00b_thread_start waits.
Spawn(t, c) ==
    /\ At(t, "run") /\ pc[c] = "unborn"
    /\ child' = [child EXCEPT ![t] = c]
    /\ pc' = [pc EXCEPT ![c] = "born", ![t] = "blocked"]
    /\ back' = [back EXCEPT ![t] = "await"]
    /\ SetBits(t, {"blocking"})
    /\ UNCHANGED <<stopVars, init, stwHeap, fatal>>

\* Its end: the spawner spins until the child is in the list, then tells it
\* to start.  An entry without its tsi is a null pointer.
Await(t) ==
    /\ At(t, "await") /\ Listed(child[t])
    /\ \/ ~HasTsi(child[t]) /\ fatal' = "null" /\ UNCHANGED <<bits, pc>>
       \/ HasTsi(child[t]) /\ SetBits(child[t], {"starting"}) /\ Goto(t, "run") /\ UNCHANGED fatal
    /\ child' = [child EXCEPT ![t] = NoOwner]
    /\ UNCHANGED <<stopVars, init, stwHeap, back>>

\* _n00b_init_self_tsi stores the list entry.
Publish(t) ==
    /\ At(t, "born")
    /\ Goto(t, "published")
    /\ UNCHANGED <<stopVars, launchVars, stwHeap, bits, back, fatal>>

\* n00b_thread_launcher sets the entry's tsi.
InstallTsi(t) ==
    /\ At(t, "published")
    /\ Goto(t, "prologue")
    /\ UNCHANGED <<stopVars, launchVars, stwHeap, bits, back, fatal>>

\* It reads its self_lock until some bit is set in it.
LoadInit(t) ==
    /\ At(t, "prologue") /\ bits[t] # {}
    /\ init' = [init EXCEPT ![t] = bits[t]]
    /\ Goto(t, "store")
    /\ UNCHANGED <<stopVars, child, stwHeap, bits, back, fatal>>

\* Its wait for that checks in.
PrologueCheckin(t) ==
    /\ At(t, "prologue") /\ "gil" \in bits[t]
    /\ CheckinTo(t, "prologue")
    /\ UNCHANGED <<stopVars, launchVars, stwHeap, fatal>>

\* It stores back what it read (N00B_RUNNING is no bit at all): the GIL bit, too,
\* when the stop it was read in is over.
StoreInit(t) ==
    /\ At(t, "store")
    /\ relit' = IF "gil" \in init[t] \ bits[t] THEN relit \cup {t} ELSE relit
    /\ bits' = [bits EXCEPT ![t] = init[t]]
    /\ init' = [init EXCEPT ![t] = {}]
    /\ Goto(t, "launched")
    /\ UNCHANGED <<gil, nesting, expected, at, depth, stops, party, takenOver, child,
                   stwHeap, back, fatal>>

\* The check-in right before the thread's own code runs.
LaunchCheckin(t) ==
    /\ At(t, "launched")
    /\ CheckinTo(t, "run")
    /\ UNCHANGED <<stopVars, launchVars, stwHeap, fatal>>

\* The thread ends: n00b_post_thread_cleanup empties its slot ...
Exit(t) ==
    /\ At(t, "run") /\ t # 1
    /\ Goto(t, "exiting")
    /\ UNCHANGED <<stopVars, launchVars, stwHeap, bits, back, fatal>>

\* ... and unmaps its state.
Unmap(t) ==
    /\ At(t, "exiting")
    /\ Goto(t, "gone")
    /\ bits' = [bits EXCEPT ![t] = {}]
    /\ UNCHANGED <<stopVars, launchVars, stwHeap, back, fatal>>

-----------------------------------------------------------------------------

\* What a thread does of its own accord, and may never do.
Choice(t) ==
    \/ Checkin(t) \/ Suspend(t) \/ Stop(t) \/ StopNested(t) \/ GilAlloc(t) \/ Exit(t)
    \/ \E c \in Threads : Spawn(t, c)

\* What a thread that has begun something goes on to do.
Progress(t) ==
    \/ Released(t) \/ Resume(t)
    \/ Contend(t) \/ Recheck(t) \/ Cas(t) \/ Mark(t) \/ MarkBit(t) \/ Stopped(t)
    \/ RestartAborts(t) \/ Restart(t) \/ Unmark(t) \/ UnmarkBit(t) \/ Release(t)
    \/ Abandon(t) \/ AbandonClear(t) \/ Unmap(t)
    \/ Await(t) \/ Publish(t) \/ InstallTsi(t) \/ LoadInit(t) \/ PrologueCheckin(t)
    \/ StoreInit(t) \/ LaunchCheckin(t)

Next == \E t \in Threads : Choice(t) \/ Progress(t)

Spec == Init /\ [][Next]_vars

\* The OS runs every thread, and who stops the world restarts it.
FairSpec == Spec /\ \A t \in Threads : WF_vars(Progress(t))

-----------------------------------------------------------------------------
(* Properties.  They are about the histories in which no stop was taken    *)
(* over by another thread; StopperOwnsGil is about those.                  *)

\* The liveness properties ask nothing of these.
Derailed == takenOver \/ fatal # "no"

Waiting(t) == pc[t] \in {"blocked", "contend", "recheck", "cas"}

\* While the world is stopped every other thread past its launch when the
\* stop began, and has not ended, has the GIL bit: its next check-in will
\* hold it.  (Each bit is set in a step of its own, beside threads that come
\* up, check in, contend for the GIL themselves and end.)
MarkedWhileStopped ==
    ~takenOver => \A t \in Threads : pc[t] = "stopped" =>
        \A u \in party : Listed(u) => "gil" \in bits[u]

\* When n00b_gil is free no thread in the list has the GIL bit, one that came up
\* during the stop included, but for those that put it back themselves: a thread
\* in its launch stores a self_lock that it read before it was unmarked
\* (thread.nc:128-135).
UnmarkedAfter ==
    ~takenOver /\ gil = NoOwner =>
        \A t \in Threads : Listed(t) /\ "gil" \in bits[t] => t \in relit

\* stw_nesting is the number of stops the stopper has yet to undo, although
\* it is one plain counter for all stoppers.
NestingCounts ==
    ~takenOver => \A t \in Threads : pc[t] = "stopped" => nesting = depth[t] /\ depth[t] > 0

\* A thread that waits, for the GIL to be free again or to be its own, goes
\* on at last: releases are never lost, and stoppers that are held by each
\* other's stops get their turn.
WaitsEnd ==
    \A t \in Threads : Waiting(t) ~> ~Waiting(t) \/ Derailed

\* "There is one 'stop the world' mutex that must be acquired before you can
\* actually begin the process" (gil.nc:11-12), and n00b_stop_the_world
\* asserts that it owns it: nobody else takes it before the stopper lets go.
StopperOwnsGil ==
    \A t \in Threads : pc[t] \in StopperPCs => gil = t

\* "It keeps iterating through all threads, looking to see if they're
\* suspended on their own futex, or otherwise waiting [...] At that point,
\* the GIL thread proceeds" (gil.nc:26-34): when the stop returns, no thread
\* that it found is still at work.
WorldIsStopped ==
    \A t \in Threads : pc[t] = "stopped" => \A u \in party : pc[u] # "run"
=============================================================================
