------------------------------ MODULE GILProofs ------------------------------
(***************************************************************************)
(* Proofs about GIL, for any number of thread slots, of stops and of       *)
(* levels of nesting.                                                      *)
(***************************************************************************)
EXTENDS GIL, TLAPS

\* Where wait_for_gil_release returns to: never into a stop.
Backs == {"run", "recheck", "cas", "prologue", "await"}

\* What holds whether or not a stop was taken over.  A local that is dead is
\* reset, a thread whose state is not there carries no bits, a slot that a
\* stopper has read is one that was filled, and a stopper's levels are not
\* fewer than stw_nesting, which any former stopper may set back to one.
Steady ==
    \A t \in Threads :
        /\ back[t] \in Backs
        /\ pc[t] # "store" => init[t] = {}
        /\ ~HasTsi(t) => bits[t] = {}
        /\ pc[t] \in {"markbit", "unmarkbit"} => at[t] > 0
        /\ pc[t] = "stopped" => depth[t] > 0 /\ (gil = t => nesting <= depth[t])

\* Nobody is inside a stop but the thread that n00b_gil names.
OneStopper == \A t \in Threads : pc[t] \in StopperPCs => gil = t

\* The party is past its launch for as long as the stop lasts (a thread held
\* in its launch may go back into it afterwards).
PartyLaunched ==
    \A u \in party : u # gil /\ (gil # NoOwner => pc[u] \notin LaunchPCs)

\* A stopper has given u its GIL bit.
Lit(u) == Listed(u) /\ "gil" \in bits[u] /\ u \notin relit

\* How far the stopper's loop over the list has come.
LoopAt(t) ==
    /\ pc[t] \in StopperPCs => ~Lit(t)
    /\ pc[t] \in {"mark", "markbit"} =>
          \A u \in party : u > at[t] /\ Listed(u) => "gil" \in bits[u]
    /\ pc[t] = "stopped" => \A u \in party : Listed(u) => "gil" \in bits[u]
    /\ pc[t] \in {"unmark", "unmarkbit"} => \A u \in Threads : u > at[t] => ~Lit(u)

\* What holds for as long as no stop was taken over.
Orderly ==
    /\ OneStopper
    /\ PartyLaunched
    /\ \A t \in Threads : LoopAt(t)
    /\ gil = NoOwner => \A u \in Threads : ~Lit(u)
    /\ \A t \in Threads : pc[t] = "stopped" => nesting = depth[t]

\* The inductive invariant.
IInv == TypeOK /\ Steady /\ (~takenOver => Orderly)

USE GILAssumption DEF Threads, NoOwner

-----------------------------------------------------------------------------
(* Steps of threads that are not inside a stop.                            *)

\* Such a step leaves the stop alone; moves no thread into a stop, out of
\* one, or, while the stop lasts, back into its launch or back from its end;
\* gives no thread the GIL bit but one that puts it back itself; and takes it
\* from no member of the party that stays in the list.
Aside ==
    /\ UNCHANGED <<gil, nesting, at, depth, party, takenOver>>
    /\ \A u \in Threads :
          pc'[u] # pc[u] =>
             /\ pc[u] \notin StopperPCs \cup {"gone"} /\ pc'[u] \notin StopperPCs
             /\ pc[u] = "exiting" => pc'[u] = "gone"
             /\ gil # NoOwner /\ pc'[u] \in LaunchPCs => pc[u] \in LaunchPCs
    /\ \A u \in Threads : Lit(u)' => Lit(u)
    /\ \A u \in party :
          gil # NoOwner /\ pc[u] \notin LaunchPCs /\ Listed(u)' /\ "gil" \in bits[u]
             => "gil" \in bits'[u]

\* It keeps the stop in order.
LEMMA AsideOrderly ==
    ASSUME TypeOK, Orderly, Aside
    PROVE  Orderly'
<1> USE DEF Aside
<1>p. party \subseteq Threads /\ party' = party
  BY DEF TypeOK
<1>1. OneStopper'
  BY DEF Orderly, OneStopper
<1>2. PartyLaunched'
  BY <1>p DEF Orderly, PartyLaunched
<1>3. ASSUME NEW t \in Threads PROVE LoopAt(t)'
  <2>1. CASE pc[t] \notin StopperPCs
    BY <2>1 DEF LoopAt, StopperPCs
  <2>2. CASE pc[t] \in StopperPCs
    <3>1. gil = t /\ pc'[t] = pc[t] /\ at' = at
      BY <2>2 DEF Orderly, OneStopper
    <3>2. \A u \in party : Listed(u)' => Listed(u) /\ pc[u] \notin LaunchPCs
      BY <1>p, <3>1 DEF Orderly, PartyLaunched, Listed, LaunchPCs
    <3>3. \A u \in party : Listed(u)' /\ "gil" \in bits[u] => "gil" \in bits'[u]
      BY <1>p, <3>1, <3>2
    <3>4. LoopAt(t)
      BY DEF Orderly
    <3>5. \A u \in Threads : ~Lit(u) => ~Lit(u)'
      OBVIOUS
    <3> HIDE DEF Aside
    <3> QED BY <1>p, <3>1, <3>2, <3>3, <3>4, <3>5 DEF LoopAt
  <2> QED BY <2>1, <2>2
<1>4. gil' = NoOwner => \A u \in Threads : ~Lit(u)'
  BY DEF Orderly
<1>5. \A t \in Threads : pc'[t] = "stopped" => nesting' = depth'[t]
  BY DEF Orderly, StopperPCs
<1> QED BY <1>1, <1>2, <1>3, <1>4, <1>5 DEF Orderly

\* Checking in keeps the types and sets no GIL bit.
LEMMA CheckinFacts ==
    ASSUME TypeOK, NEW t \in Threads, NEW label \in PCs, CheckinTo(t, label)
    PROVE  /\ bits' \in [Threads -> SUBSET Bits] /\ pc' \in [Threads -> PCs]
           /\ back' \in [Threads -> PCs]
           /\ \A u \in Threads : "gil" \in bits'[u] <=> "gil" \in bits[u]
           /\ \A u \in Threads : u # t => pc'[u] = pc[u] /\ back'[u] = back[u] /\ bits'[u] = bits[u]
           /\ pc'[t] \in {label, "blocked"} /\ back'[t] \in {label, back[t]}
<1> USE DEF TypeOK, CheckinTo, Goto, Block, SetBits, PCs
<1>1. CASE "gil" \notin bits[t] /\ Goto(t, label) /\ UNCHANGED <<bits, back>>
  BY <1>1
<1>2. CASE "gil" \in bits[t] /\ SetBits(t, {"blocking"}) /\ Block(t, label)
  <2>1. bits' \in [Threads -> SUBSET Bits]
    BY <1>2 DEF Bits
  <2> QED BY <1>2, <2>1
<1> QED BY <1>1, <1>2

\* The steps that do nothing but check in.
LEMMA CheckinSteps ==
    ASSUME IInv, NEW t \in Threads,
           Checkin(t) \/ Resume(t) \/ Recheck(t) \/ PrologueCheckin(t) \/ LaunchCheckin(t)
    PROVE  IInv'
<1>1. PICK label \in Backs \cap PCs :
          /\ CheckinTo(t, label)
          /\ pc[t] \in {"run", "away", "recheck", "prologue", "launched"}
          /\ label \in LaunchPCs => pc[t] \in LaunchPCs
          /\ UNCHANGED <<stopVars, launchVars, stwHeap, fatal>>
  BY DEF Checkin, Resume, Recheck, PrologueCheckin, LaunchCheckin, At, Backs, PCs, LaunchPCs
<1>2. /\ bits' \in [Threads -> SUBSET Bits] /\ pc' \in [Threads -> PCs]
      /\ back' \in [Threads -> PCs]
      /\ \A u \in Threads : "gil" \in bits'[u] <=> "gil" \in bits[u]
      /\ \A u \in Threads : u # t => pc'[u] = pc[u] /\ back'[u] = back[u] /\ bits'[u] = bits[u]
      /\ pc'[t] \in {label, "blocked"} /\ back'[t] \in {label, back[t]}
  BY <1>1, CheckinFacts DEF IInv
<1> USE DEF IInv, stopVars, launchVars, histVars
<1>3. TypeOK'
  BY <1>1, <1>2 DEF TypeOK
<1>4. Steady'
  BY <1>1, <1>2 DEF Steady, Backs, HasTsi
<1>5. Aside
  <2>1. label \notin StopperPCs /\ "blocked" \notin StopperPCs \cup LaunchPCs
    BY DEF Backs, StopperPCs, LaunchPCs
  <2>2. \A u \in Threads : Lit(u)' => Lit(u)
    BY <1>1, <1>2 DEF Lit, Listed
  <2> QED BY <1>1, <1>2, <2>1, <2>2 DEF Aside, TypeOK, StopperPCs
<1> QED BY <1>1, <1>3, <1>4, <1>5, AsideOrderly

\* Steps that change no bits: a thread moves from one label outside a stop to
\* another.
LEMMA MoveSteps ==
    ASSUME IInv, NEW t \in Threads, NEW label \in PCs,
           pc[t] \notin StopperPCs \cup {"exiting", "gone", "unborn", "store"},
           label \notin StopperPCs \cup {"gone", "unborn", "born"},
           label = "published" => pc[t] = "born",
           label \in LaunchPCs => pc[t] \in LaunchPCs,
           Goto(t, label),
           UNCHANGED <<gil, nesting, at, depth, histVars, launchVars, bits, back>>,
           stops' \in 0 .. MaxStops, expected' \in [Threads -> Threads \cup {NoOwner}],
           stwHeap' \in {"null", "mapped", "unmapped"},
           fatal' \in {"no", "abort", "null", "fault"}
    PROVE  IInv'
<1> USE DEF IInv, Goto, histVars, launchVars
<1>1. TypeOK'
  BY DEF TypeOK
<1>2. Steady'
  BY DEF Steady, TypeOK, StopperPCs, HasTsi
<1>3. Aside
  <2>1. \A u \in Threads : Lit(u)' => Lit(u)
    BY DEF Lit, Listed, TypeOK, Steady, HasTsi
  <2> QED BY <2>1 DEF Aside, TypeOK, StopperPCs
<1> QED BY <1>1, <1>2, <1>3, AsideOrderly

\* The calls and returns that only move the thread on.
LEMMA OutsideSteps ==
    ASSUME IInv, NEW t \in Threads,
           \/ Suspend(t) \/ Stop(t) \/ Contend(t) \/ Abandon(t) \/ AbandonClear(t)
           \/ Publish(t) \/ InstallTsi(t) \/ Exit(t)
           \/ (At(t, "cas") /\ CasLoses(t) /\
               UNCHANGED <<nesting, depth, stops, relit, launchVars, stwHeap, bits, back, fatal>>)
    PROVE  IInv'
<1> USE DEF stopVars, histVars
<1>t. /\ stops \in 0 .. MaxStops /\ expected \in [Threads -> Threads \cup {NoOwner}]
      /\ stwHeap \in {"null", "mapped", "unmapped"} /\ gil \in Threads \cup {NoOwner}
      /\ fatal \in {"no", "abort", "null", "fault"}
      /\ pc \in [Threads -> PCs]
  BY DEF IInv, TypeOK
<1> USE DEF At, PCs, LaunchPCs, StopperPCs
<1>1. CASE Suspend(t) \/ Contend(t) \/ Publish(t) \/ InstallTsi(t) \/ AbandonClear(t) \/ Exit(t)
  BY <1>1, <1>t, MoveSteps DEF Suspend, Contend, Publish, InstallTsi, AbandonClear, Exit
<1>2. CASE Stop(t)
  <2>1. stops' \in 0 .. MaxStops /\ expected' \in [Threads -> Threads \cup {NoOwner}]
    BY <1>2, <1>t DEF Stop
  <2> QED BY <1>2, <1>t, <2>1, MoveSteps DEF Stop
<1>3. CASE /\ At(t, "cas") /\ CasLoses(t)
           /\ UNCHANGED <<nesting, depth, stops, relit, launchVars, stwHeap, bits, back, fatal>>
  <2>1. expected' \in [Threads -> Threads \cup {NoOwner}]
    BY <1>3, <1>t DEF CasLoses
  <2> QED BY <1>3, <1>t, <2>1, MoveSteps DEF CasLoses
<1>4. CASE Abandon(t)
  <2>1. PICK label \in {"run", "clear", "abandon"} : Goto(t, label)
    BY <1>4, <1>t DEF Abandon, Goto
  <2>2. /\ fatal' \in {"no", "abort", "null", "fault"}
        /\ stwHeap' \in {"null", "mapped", "unmapped"}
    BY <1>4, <1>t DEF Abandon
  <2> QED BY <1>4, <1>t, <2>1, <2>2, MoveSteps DEF Abandon
<1> QED BY <1>1, <1>2, <1>3, <1>4

\* Allocating from the stop's heap, and dying in n00b_restart_the_world or of a
\* slot whose thread has ended.
LEMMA StandingSteps ==
    ASSUME IInv, NEW t \in Threads,
           \/ GilAlloc(t) \/ RestartAborts(t)
           \/ SlotGone(t, "markbit") \/ SlotGone(t, "unmarkbit")
    PROVE  IInv'
<1> USE DEF IInv, GilAlloc, RestartAborts, SlotGone, stopVars, histVars, launchVars
<1>1. TypeOK' /\ Steady'
  BY DEF TypeOK, Steady, HasTsi
<1>2. Aside
  BY DEF Aside, Lit, Listed
<1> QED BY <1>1, <1>2, AsideOrderly

\* A thread that was held goes on.
LEMMA ReleasedStep ==
    ASSUME IInv, NEW t \in Threads, Released(t)
    PROVE  IInv'
<1> USE DEF IInv, Released, At, Goto, ClearBits, stopVars, histVars, launchVars
<1>1. back[t] \in Backs /\ back[t] \in PCs
  BY DEF Steady, TypeOK
<1>2. TypeOK'
  <2>1. bits' \in [Threads -> SUBSET Bits]
    BY DEF TypeOK
  <2>2. pc' \in [Threads -> PCs] /\ back' \in [Threads -> PCs]
    BY <1>1 DEF TypeOK, PCs
  <2> QED BY <2>1, <2>2 DEF TypeOK
<1>3. \A u \in Threads : "gil" \in bits'[u] <=> "gil" \in bits[u]
  BY DEF TypeOK
<1>4. Steady'
  BY <1>1 DEF Steady, TypeOK, Backs, HasTsi
<1>5. Aside
  <2>1. back[t] \notin StopperPCs
    BY <1>1 DEF Backs, StopperPCs
  <2>2. \A u \in Threads : Lit(u)' => Lit(u)
    BY <1>1, <1>3 DEF Lit, Listed, TypeOK
  <2> QED BY <1>1, <1>3, <2>1, <2>2 DEF Aside, TypeOK, StopperPCs
<1> QED BY <1>2, <1>4, <1>5, AsideOrderly

\* Spawning a thread, and waiting for it to be there.
LEMMA SpawnStep ==
    ASSUME IInv, NEW t \in Threads, NEW c \in Threads, Spawn(t, c)
    PROVE  IInv'
<1> USE DEF IInv, Spawn, At, SetBits, stopVars, histVars
<1>0. t # c /\ \A u \in Threads : pc'[u] = IF u = t THEN "blocked" ELSE IF u = c THEN "born" ELSE pc[u]
  BY DEF TypeOK
<1>1. \A u \in Threads : "gil" \in bits'[u] <=> "gil" \in bits[u]
  BY DEF TypeOK
<1>2. TypeOK'
  <2>1. bits' \in [Threads -> SUBSET Bits]
    BY DEF TypeOK, Bits
  <2>2. pc' \in [Threads -> PCs] /\ back' \in [Threads -> PCs]
    BY DEF TypeOK, PCs, LaunchPCs
  <2> QED BY <2>1, <2>2 DEF TypeOK
<1>3. Steady'
  BY <1>0 DEF Steady, TypeOK, Backs, HasTsi
<1>4. Aside
  <2>1. \A u \in Threads : Lit(u)' => Lit(u)
    BY <1>0, <1>1 DEF Lit, Listed
  <2> QED BY <1>0, <1>1, <2>1 DEF Aside, TypeOK, StopperPCs, LaunchPCs
<1> QED BY <1>2, <1>3, <1>4, AsideOrderly

\* The end of n00b_thread_start.
LEMMA AwaitStep ==
    ASSUME IInv, NEW t \in Threads, Await(t)
    PROVE  IInv'
<1> USE DEF IInv, Await, At, Goto, SetBits, stopVars, histVars
<1>0. \A u \in Threads : pc'[u] = pc[u] \/ (u = t /\ pc[u] = "await" /\ pc'[u] = "run")
  BY DEF TypeOK
<1>b. \/ bits' = bits
      \/ /\ HasTsi(child[t])
         /\ bits' = [u \in Threads |-> IF u = child[t] THEN bits[u] \cup {"starting"} ELSE bits[u]]
  <2>1. \/ bits' = bits
        \/ HasTsi(child[t]) /\ bits' = [bits EXCEPT ![child[t]] = @ \cup {"starting"}]
    OBVIOUS
  <2>2. bits \in [Threads -> SUBSET Bits]
    BY DEF TypeOK
  <2> HIDE DEF IInv, Await
  <2> QED BY <2>1, <2>2
<1>1. \A u \in Threads : /\ "gil" \in bits'[u] <=> "gil" \in bits[u]
                         /\ ~HasTsi(u) => bits'[u] = bits[u]
  BY <1>b
<1>2. TypeOK'
  <2>1. bits' \in [Threads -> SUBSET Bits]
    <3>1. bits \in [Threads -> SUBSET Bits] /\ "starting" \in Bits
      BY DEF TypeOK, Bits
    <3> HIDE DEF IInv, Await
    <3> QED BY <1>b, <3>1
  <2>2. pc' \in [Threads -> PCs]
    BY DEF TypeOK, PCs
  <2> QED BY <2>1, <2>2 DEF TypeOK
<1>3. Steady'
  BY <1>0, <1>1 DEF Steady, TypeOK, HasTsi
<1>4. Aside
  <2>1. \A u \in Threads : Lit(u)' => Lit(u)
    BY <1>0, <1>1 DEF Lit, Listed
  <2> QED BY <1>0, <1>1, <2>1 DEF Aside, TypeOK, StopperPCs, LaunchPCs
<1> QED BY <1>2, <1>3, <1>4, AsideOrderly

\* A thread in its launch copies its bits, and stores the copy back: the GIL bit
\* only as one it had, or as one it puts back itself.
LEMMA LaunchSteps ==
    ASSUME IInv, NEW t \in Threads, LoadInit(t) \/ StoreInit(t)
    PROVE  IInv'
<1> USE DEF IInv, LoadInit, StoreInit, At, Goto, stopVars, histVars
<1>0. /\ pc[t] \in {"prologue", "store"}
      /\ pc'[t] = IF pc[t] = "prologue" THEN "store" ELSE "launched"
      /\ \A u \in Threads : u # t => pc'[u] = pc[u]
  BY DEF TypeOK
<1>1. /\ \A u \in Threads : u # t => bits'[u] = bits[u] /\ init'[u] = init[u]
      /\ pc[t] = "prologue" => bits'[t] = bits[t] /\ init'[t] = bits[t]
      /\ pc[t] = "store" => bits'[t] = init[t] /\ init'[t] = {}
  BY DEF TypeOK
<1>r. /\ relit \subseteq relit'
      /\ "gil" \in bits'[t] /\ "gil" \notin bits[t] => t \in relit'
  BY <1>1
<1>2. TypeOK'
  <2>1. bits' \in [Threads -> SUBSET Bits] /\ init' \in [Threads -> SUBSET Bits]
    BY DEF TypeOK
  <2>2. pc' \in [Threads -> PCs]
    BY DEF TypeOK, PCs, LaunchPCs
  <2>3. relit' \in SUBSET Threads
    <3>1. relit' \in {relit, relit \cup {t}} /\ relit \in SUBSET Threads
      BY DEF TypeOK
    <3> HIDE DEF IInv, LoadInit, StoreInit
    <3> QED BY <3>1
  <2> QED BY <2>1, <2>2, <2>3 DEF TypeOK
<1>3. Steady'
  BY <1>0, <1>1 DEF Steady, HasTsi
<1>4. ~takenOver => Aside
  <2> SUFFICES ASSUME ~takenOver PROVE Aside
    OBVIOUS
  <2>1. t \in party => gil = NoOwner
    BY <1>0 DEF Orderly, PartyLaunched, LaunchPCs
  <2>2. party \subseteq Threads
    BY DEF TypeOK
  <2>3. \A u \in Threads : pc'[u] # pc[u] =>
           /\ pc[u] \notin StopperPCs \cup {"gone"} /\ pc'[u] \notin StopperPCs
           /\ pc[u] # "exiting"
           /\ gil # NoOwner /\ pc'[u] \in LaunchPCs => pc[u] \in LaunchPCs
    BY <1>0 DEF StopperPCs, LaunchPCs
  <2>4. \A u \in Threads : Lit(u)' => Lit(u)
    BY <1>0, <1>1, <1>r DEF Lit, Listed
  <2> QED BY <1>0, <1>1, <2>1, <2>2, <2>3, <2>4 DEF Aside
<1> QED BY <1>2, <1>3, <1>4, AsideOrderly

\* A thread that has left the list unmaps its state.
LEMMA UnmapStep ==
    ASSUME IInv, NEW t \in Threads, Unmap(t)
    PROVE  IInv'
<1> USE DEF IInv, Unmap, At, Goto, stopVars, histVars, launchVars
<1>1. TypeOK'
  BY DEF TypeOK, PCs
<1>2. Steady'
  BY DEF Steady, TypeOK, HasTsi
<1>3. Aside
  <2>1. \A u \in Threads : Lit(u)' => Lit(u)
    BY DEF Lit, Listed, TypeOK
  <2> QED BY <2>1 DEF Aside, TypeOK, StopperPCs, LaunchPCs, Listed
<1> QED BY <1>1, <1>2, <1>3, AsideOrderly

-----------------------------------------------------------------------------
(* Steps of the stopper.                                                   *)

\* Nobody else is inside a stop.
LEMMA NobodyElse ==
    ASSUME IInv, ~takenOver, NEW t \in Threads, pc[t] \in StopperPCs
    PROVE  gil = t /\ \A u \in Threads : u # t => pc[u] \notin StopperPCs
  BY DEF IInv, Orderly, OneStopper

\* The CAS takes n00b_gil, from NoOwner or from another stopper.
LEMMA CasWinsStep ==
    ASSUME IInv, NEW t \in Threads, At(t, "cas"), CasWins(t),
           UNCHANGED <<nesting, depth, stops, relit, launchVars, stwHeap, bits, back, fatal>>
    PROVE  IInv'
<1> USE DEF IInv, At, CasWins, Goto, launchVars
<1>1. TypeOK'
  <2>1. party' \in SUBSET Threads
    BY DEF Present
  <2>2. pc' \in [Threads -> PCs] /\ at' \in [Threads -> 0 .. NThreads]
    BY DEF TypeOK, PCs, StopperPCs
  <2>3. takenOver' \in BOOLEAN
    BY Zenon DEF TypeOK
  <2>4. expected' \in [Threads -> Threads \cup {NoOwner}] /\ gil' \in Threads \cup {NoOwner}
    BY DEF TypeOK
  <2> QED BY <2>1, <2>2, <2>3, <2>4 DEF TypeOK
<1>2. Steady'
  BY DEF Steady, TypeOK, HasTsi
<1>3. ASSUME ~takenOver' PROVE Orderly'
  <2>1. ~takenOver /\ gil = NoOwner
    BY <1>3
  <2>2. \A u \in Threads : pc[u] \notin StopperPCs /\ (u # t => pc'[u] = pc[u])
    BY <2>1 DEF Orderly, OneStopper, TypeOK
  <2>3. pc'[t] = "mark" /\ at'[t] = NThreads
    BY DEF TypeOK
  <2>4. \A u \in party' : u \in Threads /\ u # t /\ pc[u] \notin LaunchPCs
    BY DEF Present
  <2>l. \A u \in Threads : ~Lit(u)'
    BY <2>1, <2>2 DEF Orderly, Lit, Listed
  <2>5. OneStopper'
    BY <2>2 DEF OneStopper
  <2>6. PartyLaunched'
    BY <2>2, <2>4 DEF PartyLaunched, LaunchPCs
  <2>7. \A u \in Threads : LoopAt(u)'
    BY <2>2, <2>3, <2>4, <2>l DEF LoopAt, StopperPCs
  <2>8. \A u \in Threads : pc'[u] # "stopped"
    BY <2>2, <2>3 DEF StopperPCs
  <2> QED BY <2>5, <2>6, <2>7, <2>8 DEF Orderly
<1> QED BY <1>1, <1>2, <1>3

\* A slot of the list is read.
LEMMA ReadSlotStep ==
    ASSUME IInv, NEW t \in Threads,
           ReadSlot(t, "mark", "markbit") \/ ReadSlot(t, "unmark", "unmarkbit")
    PROVE  IInv'
<1> USE DEF IInv, At, ReadSlot, Goto, histVars, launchVars
<1>0. /\ at[t] \in Threads
      /\ \A u \in Threads : u # t => at'[u] = at[u] /\ pc'[u] = pc[u]
      /\ \/ pc'[t] = pc[t] /\ at'[t] = at[t] - 1 /\ ~Listed(at[t])
         \/ at'[t] = at[t] /\ (pc[t] = "mark" => pc'[t] = "markbit")
                           /\ (pc[t] = "unmark" => pc'[t] = "unmarkbit")
      /\ pc[t] \in {"mark", "unmark"}
      /\ UNCHANGED <<gil, nesting, bits, depth, init, back, party, relit, takenOver>>
  <2>1. /\ pc \in [Threads -> PCs] /\ at \in [Threads -> 0 .. NThreads]
        /\ pc[t] \in {"mark", "unmark"} /\ at[t] > 0
        /\ UNCHANGED <<gil, nesting, bits, depth, init, back, party, relit, takenOver>>
    BY DEF TypeOK
  <2>2. \/ at' = at /\ pc' = [pc EXCEPT ![t] = IF pc[t] = "mark" THEN "markbit" ELSE "unmarkbit"]
        \/ ~Listed(at[t]) /\ at' = [at EXCEPT ![t] = at[t] - 1] /\ pc' = pc
    OBVIOUS
  <2> HIDE DEF IInv, ReadSlot
  <2> QED BY <2>1, <2>2
<1>1. TypeOK'
  <2>1. pc \in [Threads -> PCs] /\ at \in [Threads -> 0 .. NThreads] /\ at[t] > 0
    BY DEF TypeOK
  <2>2. /\ at' = at \/ at' = [at EXCEPT ![t] = at[t] - 1]
        /\ pc' = pc \/ pc' = [pc EXCEPT ![t] = "markbit"] \/ pc' = [pc EXCEPT ![t] = "unmarkbit"]
    OBVIOUS
  <2>3. pc' \in [Threads -> PCs] /\ at' \in [Threads -> 0 .. NThreads]
    <3> HIDE DEF IInv, ReadSlot
    <3> QED BY <2>1, <2>2 DEF PCs, StopperPCs
  <2> QED BY <2>3 DEF TypeOK
<1>2. Steady'
  BY <1>0 DEF Steady, HasTsi
<1>3. ASSUME ~takenOver PROVE Orderly'
  <2> HIDE DEF ReadSlot
  <2>1. gil = t /\ \A u \in Threads : u # t => pc[u] \notin StopperPCs
    BY <1>0, <1>3, NobodyElse DEF StopperPCs
  <2>2. \A u \in party : u \in Threads /\ u # t /\ pc[u] \notin LaunchPCs
    BY <1>3, <2>1 DEF Orderly, PartyLaunched, TypeOK
  <2>3. \A u \in Threads : (Listed(u)' <=> Listed(u)) /\ (Lit(u)' <=> Lit(u))
    BY <1>0 DEF Lit, Listed
  <2>4. \A u \in Threads : Listed(u) /\ u > at'[t] => u > at[t]
    BY <1>0
  <2>5. LoopAt(t)'
    BY <1>0, <1>3, <2>2, <2>3, <2>4 DEF Orderly, LoopAt, StopperPCs, Lit
  <2>6. \A u \in Threads : LoopAt(u)'
    BY <1>0, <2>1, <2>5 DEF LoopAt, StopperPCs
  <2>7. OneStopper' /\ PartyLaunched'
    BY <1>0, <1>3, <2>1, <2>2 DEF Orderly, OneStopper, PartyLaunched
  <2>8. \A u \in Threads : pc'[u] # "stopped"
    BY <1>0, <2>1 DEF StopperPCs
  <2> QED BY <1>0, <2>1, <2>6, <2>7, <2>8 DEF Orderly
<1> QED BY <1>1, <1>2, <1>3

\* One slot is marked.
LEMMA MarkStep ==
    ASSUME IInv, NEW t \in Threads, MarkBit(t)
    PROVE  IInv'
<1> USE DEF IInv, At, MarkBit, Goto, histVars, launchVars
<1>0. /\ at[t] \in Threads /\ at'[t] = at[t] - 1 /\ pc[t] = "markbit" /\ pc'[t] = "mark"
      /\ \A u \in Threads : u # t => at'[u] = at[u] /\ pc'[u] = pc[u]
  BY DEF TypeOK, Steady
<1>1. \A u \in Threads : bits'[u] = IF u = at[t] /\ HasTsi(u) /\ u # t
                                    THEN bits[u] \cup {"gil"} ELSE bits[u]
  BY <1>0 DEF TypeOK
<1>2. TypeOK'
  <2>1. bits' \in [Threads -> SUBSET Bits]
    BY <1>0 DEF TypeOK, Bits
  <2>2. at' \in [Threads -> 0 .. NThreads] /\ pc' \in [Threads -> PCs]
    BY <1>0 DEF TypeOK, PCs, StopperPCs
  <2> QED BY <2>1, <2>2 DEF TypeOK
<1>3. Steady'
  <2>1. \A u \in Threads : HasTsi(u)' <=> HasTsi(u)
    BY <1>0 DEF HasTsi
  <2> QED BY <1>0, <1>1, <2>1 DEF Steady
<1>4. ASSUME ~takenOver PROVE Orderly'
  <2>1. gil = t /\ \A u \in Threads : u # t => pc[u] \notin StopperPCs
    BY <1>4, NobodyElse DEF StopperPCs
  <2>2. \A u \in party : u \in Threads /\ u # t /\ pc[u] \notin LaunchPCs
    BY <1>4, <2>1 DEF Orderly, PartyLaunched, TypeOK
  <2>3. \A u \in party : Listed(u)' => HasTsi(u) /\ Listed(u)
    BY <1>0, <2>2 DEF Listed, HasTsi, LaunchPCs
  <2>4. LoopAt(t)'
    <3>1. ASSUME NEW u \in party, u > at'[t], Listed(u)' PROVE "gil" \in bits'[u]
      <4>1. CASE u = at[t]
        BY <1>1, <2>2, <2>3, <3>1, <4>1
      <4>2. CASE u # at[t]
        <5>1. u > at[t]
          BY <1>0, <2>2, <3>1, <4>2
        <5> QED BY <1>0, <1>1, <1>4, <2>2, <2>3, <3>1, <5>1 DEF Orderly, LoopAt
      <4> QED BY <4>1, <4>2
    <3>2. ~Lit(t)'
      BY <1>0, <1>1, <1>4 DEF Orderly, LoopAt, Lit, Listed, StopperPCs
    <3> QED BY <1>0, <3>1, <3>2 DEF LoopAt
  <2>5. \A u \in Threads : LoopAt(u)'
    BY <1>0, <2>1, <2>4 DEF LoopAt, StopperPCs
  <2>6. OneStopper' /\ PartyLaunched'
    BY <1>0, <1>4, <2>1, <2>2 DEF Orderly, OneStopper, PartyLaunched
  <2>7. \A u \in Threads : pc'[u] # "stopped"
    BY <1>0, <2>1 DEF StopperPCs
  <2> QED BY <2>1, <2>5, <2>6, <2>7 DEF Orderly
<1> QED BY <1>2, <1>3, <1>4

\* The loop is over: the world counts as stopped.
LEMMA StoppedStep ==
    ASSUME IInv, NEW t \in Threads, Stopped(t)
    PROVE  IInv'
<1> USE DEF IInv, At, Stopped, Goto, histVars, launchVars
<1>0. /\ pc'[t] = "stopped" /\ depth'[t] = 1 /\ nesting' = 1
      /\ \A u \in Threads : u # t => pc'[u] = pc[u] /\ depth'[u] = depth[u]
  BY DEF TypeOK
<1>1. TypeOK'
  BY DEF TypeOK, PCs, StopperPCs
<1>2. Steady'
  <2>1. \A u \in Threads : depth[u] \in Nat
    BY DEF TypeOK
  <2> QED BY <1>0, <2>1 DEF Steady, HasTsi
<1>3. ASSUME ~takenOver PROVE Orderly'
  <2>1. gil = t /\ \A u \in Threads : u # t => pc[u] \notin StopperPCs
    BY <1>3, NobodyElse DEF StopperPCs
  <2>2. \A u \in party : u \in Threads /\ u # t /\ u > 0
    BY <1>3, <2>1 DEF Orderly, PartyLaunched, TypeOK
  <2>3. \A u \in party : Listed(u)' => "gil" \in bits'[u]
    BY <1>0, <1>3, <2>2 DEF Orderly, LoopAt, Listed
  <2>l. ~Lit(t)'
    BY <1>0, <1>3 DEF Orderly, LoopAt, Lit, Listed, StopperPCs
  <2>4. \A u \in Threads : LoopAt(u)'
    BY <1>0, <2>1, <2>3, <2>l DEF LoopAt, StopperPCs
  <2>5. OneStopper' /\ PartyLaunched'
    BY <1>0, <1>3, <2>1, <2>2 DEF Orderly, OneStopper, PartyLaunched
  <2>6. \A u \in Threads : pc'[u] = "stopped" => nesting' = depth'[u]
    BY <1>0, <2>1 DEF StopperPCs
  <2> QED BY <2>1, <2>4, <2>5, <2>6 DEF Orderly
<1> QED BY <1>1, <1>2, <1>3

\* The stopper stops the world again.
LEMMA StopNestedStep ==
    ASSUME IInv, NEW t \in Threads, StopNested(t)
    PROVE  IInv'
<1> USE DEF IInv, At, StopNested, histVars, launchVars
<1>0. /\ depth'[t] = depth[t] + 1 /\ \A u \in Threads : u # t => depth'[u] = depth[u]
      /\ depth[t] \in Nat /\ nesting \in Nat
  BY DEF TypeOK
<1>1. TypeOK'
  BY DEF TypeOK
<1>2. Steady'
  BY <1>0 DEF Steady, HasTsi
<1>3. ASSUME ~takenOver PROVE Orderly'
  <2>1. gil = t /\ \A u \in Threads : u # t => pc[u] \notin StopperPCs
    BY <1>3, NobodyElse DEF StopperPCs
  <2>2. \A u \in Threads : LoopAt(u)'
    BY <1>3 DEF Orderly, LoopAt, Lit, Listed
  <2>3. OneStopper' /\ PartyLaunched'
    BY <1>3 DEF Orderly, OneStopper, PartyLaunched
  <2>4. \A u \in Threads : pc'[u] = "stopped" => nesting' = depth'[u]
    BY <1>0, <1>3, <2>1 DEF StopperPCs, Orderly
  <2> QED BY <2>1, <2>2, <2>3, <2>4 DEF Orderly
<1> QED BY <1>1, <1>2, <1>3

\* It gives back a level, and with the last one begins to unmark.
LEMMA RestartStep ==
    ASSUME IInv, NEW t \in Threads, Restart(t)
    PROVE  IInv'
<1> USE DEF IInv, At, Restart, RestartLevel, Goto, histVars, launchVars
<1>0. /\ depth'[t] = depth[t] - 1 /\ \A u \in Threads : u # t => depth'[u] = depth[u]
      /\ depth[t] \in Nat /\ nesting \in Nat /\ nesting > 0 /\ nesting <= depth[t]
      /\ nesting' = nesting - 1 /\ depth' = [depth EXCEPT ![t] = depth[t] - 1]
  BY DEF TypeOK, Steady
<1>1. \/ /\ nesting > 1 /\ pc' = pc /\ at' = at
      \/ /\ nesting = 1 /\ pc'[t] = "unmark" /\ at'[t] = NThreads
         /\ \A u \in Threads : u # t => pc'[u] = pc[u] /\ at'[u] = at[u]
  BY DEF TypeOK
<1>2. TypeOK'
  <2>1. nesting' \in 0 .. MaxNesting /\ depth' \in [Threads -> 0 .. MaxNesting]
    BY <1>0 DEF TypeOK
  <2>2. pc' \in [Threads -> PCs] /\ at' \in [Threads -> 0 .. NThreads]
    <3>1. /\ pc' = pc \/ pc' = [pc EXCEPT ![t] = "unmark"]
          /\ at' = at \/ at' = [at EXCEPT ![t] = NThreads]
      OBVIOUS
    <3>2. pc \in [Threads -> PCs] /\ at \in [Threads -> 0 .. NThreads] /\ "unmark" \in PCs
      BY DEF TypeOK, PCs, StopperPCs
    <3> HIDE DEF IInv, Restart
    <3> QED BY <3>1, <3>2
  <2> QED BY <2>1, <2>2 DEF TypeOK
<1>3. Steady'
  <2>1. ASSUME NEW u \in Threads, u # t
        PROVE  pc'[u] = pc[u] /\ gil' # u /\ depth'[u] = depth[u] /\ at'[u] = at[u]
    BY <1>0, <1>1, <2>1
  <2>2. pc'[t] = "stopped" => depth'[t] > 0 /\ nesting' <= depth'[t]
    BY <1>0, <1>1
  <2>3. pc'[t] \in {"stopped", "unmark"} /\ init'[t] = init[t] /\ pc[t] = "stopped"
    BY <1>1
  <2> QED BY <2>1, <2>2, <2>3 DEF Steady, HasTsi
<1>4. ASSUME ~takenOver PROVE Orderly'
  <2>1. gil = t /\ \A u \in Threads : u # t => pc[u] \notin StopperPCs
    BY <1>4, NobodyElse DEF StopperPCs
  <2>2. \A u \in party : u \in Threads /\ u # t /\ pc'[u] = pc[u] /\ u <= NThreads
    BY <1>1, <1>4, <2>1 DEF Orderly, PartyLaunched, TypeOK
  <2>l. ~Lit(t)'
    BY <1>1, <1>4 DEF Orderly, LoopAt, Lit, Listed, StopperPCs
  <2>3. LoopAt(t)'
    <3>1. CASE pc' = pc /\ at' = at
      BY <1>4, <3>1 DEF Orderly, LoopAt, Lit, Listed
    <3>2. CASE pc'[t] = "unmark" /\ at'[t] = NThreads
      BY <2>l, <3>2 DEF LoopAt
    <3> QED BY <1>1, <3>1, <3>2
  <2>4. \A u \in Threads : LoopAt(u)'
    BY <1>1, <2>1, <2>3 DEF LoopAt, StopperPCs
  <2>5. OneStopper' /\ PartyLaunched'
    BY <1>1, <1>4, <2>1, <2>2 DEF Orderly, OneStopper, PartyLaunched
  <2>6. \A u \in Threads : pc'[u] = "stopped" => nesting' = depth'[u]
    BY <1>0, <1>1, <1>4, <2>1 DEF StopperPCs, Orderly
  <2> QED BY <2>1, <2>4, <2>5, <2>6 DEF Orderly
<1> QED BY <1>2, <1>3, <1>4

\* One slot is unmarked.
LEMMA UnmarkStep ==
    ASSUME IInv, NEW t \in Threads, UnmarkBit(t)
    PROVE  IInv'
<1> USE DEF IInv, At, UnmarkBit, UnmarkSlot, ClearBits, Goto, launchVars
<1>0. /\ at[t] \in Threads /\ at'[t] = at[t] - 1 /\ pc[t] = "unmarkbit" /\ pc'[t] = "unmark"
      /\ \A u \in Threads : u # t => at'[u] = at[u] /\ pc'[u] = pc[u]
  BY DEF TypeOK, Steady
<1>1. \A u \in Threads : bits'[u] = IF u = at[t] /\ HasTsi(u) /\ u # t
                                    THEN bits[u] \ {"gil", "blocking"} ELSE bits[u]
  <2>1. bits \in [Threads -> SUBSET Bits]
    BY DEF TypeOK
  <2>2. bits' = IF HasTsi(at[t]) /\ at[t] # t
                THEN [bits EXCEPT ![at[t]] = @ \ {"gil", "blocking"}] ELSE bits
    BY <1>0
  <2> HIDE DEF IInv, UnmarkBit
  <2> QED BY <1>0, <2>1, <2>2
<1>r. /\ relit' \subseteq relit
      /\ \A u \in Threads : u # at[t] \/ u = t => (u \in relit' <=> u \in relit)
  BY <1>0
<1>2. TypeOK'
  <2>1. bits' \in [Threads -> SUBSET Bits]
    <3>1. bits \in [Threads -> SUBSET Bits]
      BY DEF TypeOK
    <3>2. bits' = bits \/ bits' = [bits EXCEPT ![at[t]] = @ \ {"gil", "blocking"}]
      BY <1>0
    <3> HIDE DEF IInv, UnmarkBit
    <3> QED BY <1>0, <3>1, <3>2
  <2>2. at' \in [Threads -> 0 .. NThreads] /\ pc' \in [Threads -> PCs]
    BY <1>0 DEF TypeOK, PCs, StopperPCs
  <2>3. relit' \in SUBSET Threads
    BY <1>r DEF TypeOK
  <2> QED BY <2>1, <2>2, <2>3 DEF TypeOK
<1>3. Steady'
  <2>1. \A u \in Threads : HasTsi(u)' <=> HasTsi(u)
    BY <1>0 DEF HasTsi
  <2> QED BY <1>0, <1>1, <2>1 DEF Steady
<1>4. ASSUME ~takenOver PROVE Orderly'
  <2>1. gil = t /\ \A u \in Threads : u # t => pc[u] \notin StopperPCs
    BY <1>4, NobodyElse DEF StopperPCs
  <2>2. \A u \in party : u \in Threads /\ u # t /\ pc[u] \notin LaunchPCs
    BY <1>4, <2>1 DEF Orderly, PartyLaunched, TypeOK
  <2>3. \A u \in Threads : u # at[t] \/ u = t => (Lit(u)' => Lit(u))
    BY <1>0, <1>1, <1>r DEF Lit, Listed
  <2>t. ~Lit(t) /\ \A u \in Threads : u > at[t] => ~Lit(u)
    BY <1>0, <1>4 DEF Orderly, LoopAt, StopperPCs
  <2>4. LoopAt(t)'
    <3>1. ASSUME NEW u \in Threads, u > at'[t] PROVE ~Lit(u)'
      <4>1. CASE u = at[t] /\ u # t
        <5>1. "gil" \notin bits'[u]
          <6>1. ~HasTsi(u) => bits[u] = {}
            BY DEF Steady
          <6> HIDE DEF IInv, UnmarkBit
          <6> QED BY <1>1, <4>1, <6>1
        <5> QED BY <5>1 DEF Lit
      <4>2. CASE u = t
        BY <2>3, <2>t, <4>2
      <4>3. CASE u # at[t]
        <5>1. u > at[t]
          BY <1>0, <3>1, <4>3
        <5> QED BY <2>3, <2>t, <4>3, <5>1
      <4> QED BY <4>1, <4>2, <4>3
    <3>2. ~Lit(t)'
      BY <2>3, <2>t
    <3> QED BY <1>0, <3>1, <3>2 DEF LoopAt
  <2>5. \A u \in Threads : LoopAt(u)'
    BY <1>0, <2>1, <2>4 DEF LoopAt, StopperPCs
  <2>6. OneStopper' /\ PartyLaunched'
    BY <1>0, <1>4, <2>1, <2>2 DEF Orderly, OneStopper, PartyLaunched
  <2>7. \A u \in Threads : pc'[u] # "stopped"
    BY <1>0, <2>1 DEF StopperPCs
  <2> QED BY <2>1, <2>5, <2>6, <2>7 DEF Orderly
<1> QED BY <1>2, <1>3, <1>4

\* Every slot is unmarked: n00b_gil is free again.
LEMMA ReleaseStep ==
    ASSUME IInv, NEW t \in Threads, Release(t)
    PROVE  IInv'
<1> USE DEF IInv, At, Release, LetGo, Goto, histVars, launchVars
<1>0. pc'[t] = "abandon" /\ \A u \in Threads : u # t => pc'[u] = pc[u]
  BY DEF TypeOK
<1>1. TypeOK'
  BY DEF TypeOK, PCs
<1>2. Steady'
  BY <1>0 DEF Steady, HasTsi
<1>3. ASSUME ~takenOver PROVE Orderly'
  <2>1. gil = t /\ \A u \in Threads : u # t => pc[u] \notin StopperPCs
    BY <1>3, NobodyElse DEF StopperPCs
  <2>2. party \subseteq Threads
    BY DEF TypeOK
  <2>3. \A u \in Threads : ~Lit(u)'
    BY <1>0, <1>3 DEF Orderly, LoopAt, Lit, Listed
  <2>4. \A u \in Threads : pc'[u] \notin StopperPCs
    BY <1>0, <2>1 DEF StopperPCs
  <2>5. OneStopper' /\ PartyLaunched'
    BY <1>3, <2>2, <2>4 DEF Orderly, OneStopper, PartyLaunched
  <2> QED BY <2>3, <2>4, <2>5 DEF Orderly, LoopAt, StopperPCs
<1> QED BY <1>1, <1>2, <1>3

-----------------------------------------------------------------------------
\* The invariant holds in every state of every behaviour.
THEOREM Invariance == Spec => []IInv
<1>1. Init => IInv
  <2> SUFFICES ASSUME Init PROVE IInv
    OBVIOUS
  <2>1. TypeOK
    <3>1. takenOver \in BOOLEAN
      BY Zenon DEF Init
    <3> QED BY <3>1 DEF Init, TypeOK, PCs, LaunchPCs
  <2>2. Steady
    BY DEF Init, Steady, Backs
  <2>3. Orderly
    BY DEF Init, Orderly, OneStopper, PartyLaunched, LoopAt, Lit, StopperPCs
  <2> QED BY <2>1, <2>2, <2>3 DEF IInv
<1>2. IInv /\ [Next]_vars => IInv'
  <2> SUFFICES ASSUME IInv, [Next]_vars PROVE IInv'
    OBVIOUS
  <2>1. ASSUME NEW t \in Threads, Choice(t) PROVE IInv'
    BY <2>1, CheckinSteps, OutsideSteps, StandingSteps, StopNestedStep, SpawnStep
       DEF Choice
  <2>2. ASSUME NEW t \in Threads, Progress(t) PROVE IInv'
    BY <2>2, CheckinSteps, OutsideSteps, StandingSteps, ReleasedStep, AwaitStep, LaunchSteps,
       CasWinsStep, ReadSlotStep, MarkStep, StoppedStep, RestartStep, UnmarkStep,
       ReleaseStep, UnmapStep
       DEF Progress, Cas, Mark, Unmark
  <2>3. CASE UNCHANGED vars
    <3> USE <2>3 DEF vars, IInv
    <3>1. TypeOK' /\ Steady'
      BY DEF TypeOK, Steady, HasTsi
    <3>2. Aside
      BY DEF Aside, Lit, Listed
    <3> QED BY <3>1, <3>2, AsideOrderly
  <2> QED BY <2>1, <2>2, <2>3 DEF Next
<1> QED BY <1>1, <1>2, PTL DEF Spec

\* n00b_gil names a thread or nobody, and stw_nesting stays within the levels
\* of the calls, whoever takes over from whom.
THEOREM TypeCorrect == Spec => []TypeOK
<1>1. IInv => TypeOK
  BY DEF IInv
<1> QED BY <1>1, Invariance, PTL

\* While the world is stopped, every thread the stop found is marked.
THEOREM StopMarks == Spec => []MarkedWhileStopped
<1>1. IInv => MarkedWhileStopped
  BY DEF IInv, Orderly, LoopAt, MarkedWhileStopped
<1> QED BY <1>1, Invariance, PTL

\* When n00b_gil is free, no thread in the list is marked, whenever it came up,
\* but for those that stored a stale self_lock back in their own launch.
THEOREM RestartUnmarks == Spec => []UnmarkedAfter
<1>1. IInv => UnmarkedAfter
  BY DEF IInv, Orderly, UnmarkedAfter, Lit
<1> QED BY <1>1, Invariance, PTL

\* One plain counter is enough for the stopper's levels.
THEOREM NestingExact == Spec => []NestingCounts
<1>1. IInv => NestingCounts
  BY DEF IInv, Steady, Orderly, NestingCounts
<1> QED BY <1>1, Invariance, PTL
===============================================================================
