-------------------------- MODULE ContainerProofs --------------------------
(***************************************************************************)
(* Proofs about the hatrack containers, for any number of threads, calls,  *)
(* keys and items.  First llstack is linearizable and retires every node   *)
(* once; then hihat, however its threads insert and migrate, keeps one     *)
(* bucket for a key and retires every store once.                          *)
(*                                                                         *)
(* What is recursive in the models (the layers of the linearizer, the      *)
(* puts before the threads begin) is a recursive function; a fact about    *)
(* all its values is proved from the least number that would refute it.    *)
(***************************************************************************)
EXTENDS LLStack, Integers, FiniteSetTheorems, WellFoundedInduction, TLAPS

-----------------------------------------------------------------------------
(* Least elements, in place of induction.                                  *)

LEMMA LeastNumber ==
  ASSUME NEW S, S \subseteq Nat, S # {}
  PROVE  \E x \in S : \A y \in S : x <= y
<1> DEFINE below == {p \in Nat \X Nat : p[1] < p[2]}
<1>1. PICK x \in S : \A y \in S : ~(<<y, x>> \in below)
  <2>1. IsWellFoundedOn(below, Nat)
    BY NatLessThanWellFounded DEF OpToRel
  <2> HIDE DEF below
  <2> QED BY <2>1, WFMin
<1>2. ASSUME NEW y \in S, ~(x <= y) PROVE FALSE
  <2>1. y \in Nat /\ x \in Nat /\ y < x
    BY <1>2
  <2>2. <<y, x>> \in below
    BY <2>1
  <2>3. QED
    BY <1>1, <2>2
<1>3. QED
  BY <1>2

\* Induction up to n, with the set of the numbers for which the claim holds.
LEMMA UpTo ==
  ASSUME NEW n \in Nat, NEW S, 0 \in S, \A i \in 1..n : i - 1 \in S => i \in S
  PROVE  \A i \in 0..n : i \in S
<1> DEFINE bad == {i \in 0..n : i \notin S}
<1>1. SUFFICES ASSUME bad # {} PROVE FALSE
  OBVIOUS
<1>2. bad \subseteq Nat
  OBVIOUS
<1>3. PICK m \in bad : \A k \in bad : m <= k
  <2> HIDE DEF bad
  <2> QED BY <1>1, <1>2, LeastNumber
<1>4. m \in 1..n /\ m - 1 \in 0..n
  BY <1>3
<1>5. m - 1 \notin bad
  BY <1>3, <1>4
<1>6. QED BY <1>3, <1>4, <1>5
-----------------------------------------------------------------------------
(* The layers of the linearizer.                                           *)

LEMMA SameCardinality == \A S : L!Cardinality(S) = Cardinality(S)
  BY DEF L!Cardinality, Cardinality

\* f is a solution of the recursive definition of the layers.
Layered(C, calls, n, f) == f = [i \in 0..n |-> IF i = 0 THEN C ELSE L!Spread(f[i - 1], calls)]

\* There is one.
LEMMA LayersExist ==
  ASSUME NEW C, NEW calls, NEW n \in Nat
  PROVE  \E f : Layered(C, calls, n, f)
<1> USE DEF Layered
<1> DEFINE Fits(f, m) == f = [i \in 0..m |-> IF i = 0 THEN C ELSE L!Spread(f[i - 1], calls)]
           bad == {m \in Nat : ~\E f : Fits(f, m)}
<1>1. SUFFICES ASSUME bad # {} PROVE FALSE
  OBVIOUS
<1>2. PICK m \in bad : \A k \in bad : m <= k
  <2> HIDE DEF bad
  <2>1. bad \subseteq Nat BY DEF bad
  <2> QED BY <1>1, <2>1, LeastNumber
<1>3. CASE m = 0
  <2>1. Fits([i \in 0..0 |-> C], 0)
    OBVIOUS
  <2> QED BY <1>2, <1>3, <2>1
<1>4. CASE m # 0
  <2>1. m - 1 \in Nat /\ m - 1 \notin bad
    BY <1>2, <1>4
  <2>2. PICK f : Fits(f, m - 1)
    BY <2>1
  <2> DEFINE g == [i \in 0..m |-> IF i = m THEN L!Spread(f[m - 1], calls) ELSE f[i]]
  <2>3. ASSUME NEW i \in 0..m PROVE g[i] = IF i = 0 THEN C ELSE L!Spread(g[i - 1], calls)
    <3>1. CASE i = m
      BY <3>1, <1>4, <2>1
    <3>2. CASE i # m
      <4>1. i \in 0..(m - 1)
        BY <3>2, <2>1
      <4>2. f[i] = IF i = 0 THEN C ELSE L!Spread(f[i - 1], calls)
        BY <2>2, <4>1
      <4>3. i # 0 => i - 1 \in 0..m /\ i - 1 # m
        BY <4>1, <2>1
      <4> QED BY <4>1, <4>2, <4>3, <3>2
    <3> QED BY <3>1, <3>2
  <2>4. Fits(g, m)
    BY <2>3
  <2> QED BY <2>4, <1>2
<1>5. QED BY <1>3, <1>4

LEMMA LayersStep ==
  ASSUME NEW C, NEW calls, IsFiniteSet(DOMAIN calls)
  PROVE  LET n == Cardinality(DOMAIN calls)
             layer == L!Layers(C, calls)
         IN /\ n \in Nat
            /\ layer[0] = C
            /\ \A i \in 1..n : layer[i] = L!Spread(layer[i - 1], calls)
            /\ L!Closure(C, calls) = layer[n]
<1> DEFINE n == Cardinality(DOMAIN calls)
           layer == L!Layers(C, calls)
<1>1. n \in Nat
  BY FS_CardinalityType
<1>2. layer = [i \in 0..n |-> IF i = 0 THEN C ELSE L!Spread(layer[i - 1], calls)]
  <2>1. layer = CHOOSE f : Layered(C, calls, n, f)
    BY SameCardinality DEF L!Layers, Layered
  <2> HIDE DEF n, layer
  <2>2. \E f : Layered(C, calls, n, f)
    BY <1>1, LayersExist
  <2>3. Layered(C, calls, n, layer)
    BY <2>1, <2>2, Zenon
  <2> QED BY <2>3 DEF Layered
<1>3. L!Closure(C, calls) = layer[n]
  BY SameCardinality DEF L!Closure
<1> HIDE DEF n, layer
<1>4. layer[0] = C /\ \A i \in 1..n : layer[i] = L!Spread(layer[i - 1], calls)
  BY <1>1, <1>2
<1>5. QED BY <1>1, <1>3, <1>4 DEF n, layer

\* What Spread adds to C, and that it takes nothing away.
LEMMA SpreadIs ==
  ASSUME NEW C, NEW calls
  PROVE  /\ C \subseteq L!Spread(C, calls)
         /\ \A d \in C : \A t \in DOMAIN calls \ DOMAIN d.done :
              L!Executed(d, calls, t) \subseteq L!Spread(C, calls)
         /\ \A e \in L!Spread(C, calls) : e \notin C =>
              \E d \in C : \E t \in DOMAIN calls \ DOMAIN d.done : e \in L!Executed(d, calls, t)
  BY DEF L!Spread

\* Nothing a call did is undone by a call executed after it.
LEMMA LayersGrow ==
  ASSUME NEW C, NEW calls, IsFiniteSet(DOMAIN calls),
         NEW i \in 0..Cardinality(DOMAIN calls), NEW j \in 0..Cardinality(DOMAIN calls), i <= j
  PROVE  L!Layers(C, calls)[i] \subseteq L!Layers(C, calls)[j]
<1> DEFINE n == Cardinality(DOMAIN calls)
           layer == L!Layers(C, calls)
           S == {m \in 0..(n - i) : layer[i] \subseteq layer[i + m]}
<1>1. n \in Nat /\ \A m \in 1..n : layer[m] = L!Spread(layer[m - 1], calls)
  BY LayersStep
<1> HIDE DEF n, layer
<1>2. i \in 0..n /\ j \in 0..n
  BY DEF n
<1>3. 0 \in S
  BY <1>1, <1>2
<1>4. ASSUME NEW m \in 1..(n - i), m - 1 \in S PROVE m \in S
  <2>1. i + m \in 1..n /\ (i + m) - 1 = i + (m - 1)
    BY <1>1, <1>2
  <2>2. layer[i + m] = L!Spread(layer[i + (m - 1)], calls)
    BY <1>1, <2>1
  <2>3. layer[i + (m - 1)] \subseteq layer[i + m]
    BY <2>2, SpreadIs
  <2> QED BY <1>4, <2>3
<1>5. j - i \in 0..(n - i) /\ n - i \in Nat
  BY <1>1, <1>2
<1>6. j - i \in S
  <2> HIDE DEF S
  <2> QED BY <1>3, <1>4, <1>5, UpTo
<1>7. layer[i] \subseteq layer[i + (j - i)]
  BY <1>6
<1>8. i + (j - i) = j
  BY <1>1, <1>2
<1>9. QED BY <1>7, <1>8 DEF layer

\* A call executed is a call more that is done.
LEMMA ExecutedDone ==
  ASSUME NEW d, NEW calls, NEW t, NEW e \in L!Executed(d, calls, t), "done" \in DOMAIN d
  PROVE  "done" \in DOMAIN e /\ DOMAIN e.done = DOMAIN d.done \cup {t}
  BY DEF L!Executed, L!Put, Nothing

\* The configurations of C have executed only calls of calls.
Within(C, calls) == \A c \in C : "done" \in DOMAIN c /\ DOMAIN c.done \subseteq DOMAIN calls

\* A configuration of any layer is in the layer of the number of its executed calls.
LEMMA LayerByDone ==
  ASSUME NEW C, NEW calls, IsFiniteSet(DOMAIN calls), Within(C, calls),
         NEW i \in 0..Cardinality(DOMAIN calls), NEW d \in L!Layers(C, calls)[i]
  PROVE  /\ "done" \in DOMAIN d /\ DOMAIN d.done \subseteq DOMAIN calls
         /\ Cardinality(DOMAIN d.done) \in 0..Cardinality(DOMAIN calls)
         /\ d \in L!Layers(C, calls)[Cardinality(DOMAIN d.done)]
<1> DEFINE n == Cardinality(DOMAIN calls)
           layer == L!Layers(C, calls)
           Right(c) == /\ "done" \in DOMAIN c /\ DOMAIN c.done \subseteq DOMAIN calls
                       /\ Cardinality(DOMAIN c.done) \in 0..n
                       /\ c \in layer[Cardinality(DOMAIN c.done)]
           S == {m \in 0..n : \A c \in layer[m] : Right(c)}
<1>1. n \in Nat /\ layer[0] = C /\ \A m \in 1..n : layer[m] = L!Spread(layer[m - 1], calls)
  BY LayersStep
<1>2. ASSUME NEW j \in 0..n, NEW k \in 0..n, j <= k PROVE layer[j] \subseteq layer[k]
  BY <1>2, LayersGrow
<1>3. ASSUME NEW T, T \subseteq DOMAIN calls PROVE IsFiniteSet(T) /\ Cardinality(T) \in 0..n
  <2>1. IsFiniteSet(T) /\ Cardinality(T) <= n
    BY <1>3, FS_Subset
  <2>2. Cardinality(T) \in Nat
    BY <2>1, FS_CardinalityType
  <2> QED BY <2>1, <2>2, <1>1
<1> HIDE DEF layer, n
<1>4. 0 \in S
  <2>1. ASSUME NEW c \in layer[0] PROVE Right(c)
    <3>1. "done" \in DOMAIN c /\ DOMAIN c.done \subseteq DOMAIN calls
      BY <1>1, <2>1 DEF Within
    <3>2. Cardinality(DOMAIN c.done) \in 0..n
      BY <3>1, <1>3
    <3>3. layer[0] \subseteq layer[Cardinality(DOMAIN c.done)]
      BY <1>1, <1>2, <3>2
    <3> QED BY <3>1, <3>2, <3>3
  <2> QED BY <1>1, <2>1
<1>5. ASSUME NEW m \in 1..n, m - 1 \in S PROVE m \in S
  <2>1. ASSUME NEW e \in layer[m] PROVE Right(e)
    <3>1. CASE e \in layer[m - 1]
      BY <3>1, <1>5
    <3>2. CASE e \notin layer[m - 1]
      <4>1. PICK c \in layer[m - 1] : \E t \in DOMAIN calls \ DOMAIN c.done : e \in L!Executed(c, calls, t)
        <5>1. e \in L!Spread(layer[m - 1], calls)
          BY <1>1
        <5> QED BY <5>1, <3>2, SpreadIs
      <4>11. PICK t \in DOMAIN calls \ DOMAIN c.done : e \in L!Executed(c, calls, t)
        BY <4>1
      <4>2. Right(c)
        BY <1>5
      <4> DEFINE k == Cardinality(DOMAIN c.done)
      <4>3. "done" \in DOMAIN e /\ DOMAIN e.done = DOMAIN c.done \cup {t}
        BY <4>11, <4>2, ExecutedDone
      <4>4. DOMAIN e.done \subseteq DOMAIN calls
        BY <4>2, <4>3
      <4>5. Cardinality(DOMAIN e.done) = k + 1
        <5>1. IsFiniteSet(DOMAIN c.done) /\ t \notin DOMAIN c.done
          BY <4>2, <1>3
        <5> QED BY <5>1, <4>3, FS_AddElement
      <4>6. Cardinality(DOMAIN e.done) \in 0..n
        BY <4>4, <1>3
      <4>7. k \in 0..n /\ c \in layer[k]
        BY <4>2
      <4> HIDE DEF k
      <4>8. k + 1 \in 1..n /\ (k + 1) - 1 = k
        BY <4>5, <4>6, <4>7, <1>1
      <4>9. layer[k + 1] = L!Spread(layer[k], calls)
        BY <4>8, <1>1
      <4>10. e \in layer[k + 1]
        BY <4>11, <4>7, <4>9, SpreadIs
      <4> QED BY <4>3, <4>4, <4>5, <4>6, <4>10
    <3> QED BY <3>1, <3>2
  <2> QED BY <2>1
<1>6. i \in S
  <2> HIDE DEF S
  <2>1. i \in 0..n
    BY DEF n
  <2> QED BY <2>1, <1>1, <1>4, <1>5, UpTo
<1>7. Right(d)
  BY <1>6 DEF layer
<1>8. QED BY <1>7 DEF layer, n

\* The closure contains what it starts from and is closed: a running call that a
\* configuration has not executed may be executed next.
LEMMA ClosureClosed ==
  ASSUME NEW C, NEW calls, IsFiniteSet(DOMAIN calls), Within(C, calls)
  PROVE  /\ C \subseteq L!Closure(C, calls)
         /\ Within(L!Closure(C, calls), calls)
         /\ \A d \in L!Closure(C, calls) : \A t \in DOMAIN calls \ DOMAIN d.done :
              L!Executed(d, calls, t) \subseteq L!Closure(C, calls)
<1> DEFINE n == Cardinality(DOMAIN calls)
           layer == L!Layers(C, calls)
<1>1. /\ n \in Nat /\ layer[0] = C /\ L!Closure(C, calls) = layer[n]
      /\ \A m \in 1..n : layer[m] = L!Spread(layer[m - 1], calls)
  BY LayersStep
<1>2. ASSUME NEW j \in 0..n, NEW k \in 0..n, j <= k PROVE layer[j] \subseteq layer[k]
  BY <1>2, LayersGrow
<1>3. C \subseteq L!Closure(C, calls)
  <2> HIDE DEF n, layer
  <2> QED BY <1>1, <1>2
<1>4. ASSUME NEW d \in L!Closure(C, calls)
      PROVE  /\ "done" \in DOMAIN d /\ DOMAIN d.done \subseteq DOMAIN calls
             /\ Cardinality(DOMAIN d.done) \in 0..n
             /\ d \in layer[Cardinality(DOMAIN d.done)]
  <2>1. n \in 0..Cardinality(DOMAIN calls) /\ d \in L!Layers(C, calls)[n]
    BY <1>1
  <2> QED BY <2>1, LayerByDone
<1>5. ASSUME NEW d \in L!Closure(C, calls), NEW t \in DOMAIN calls \ DOMAIN d.done
      PROVE  L!Executed(d, calls, t) \subseteq L!Closure(C, calls)
  <2> DEFINE k == Cardinality(DOMAIN d.done)
  <2>1. k # n
    <3>1. DOMAIN d.done # DOMAIN calls
      OBVIOUS
    <3>2. DOMAIN d.done \in SUBSET DOMAIN calls
      BY <1>4
    <3> QED BY <3>1, <3>2, FS_Subset
  <2>2. k \in 0..n /\ d \in layer[k]
    BY <1>4
  <2> HIDE DEF k, n, layer
  <2>3. k + 1 \in 1..n /\ k + 1 \in 0..n /\ n \in 0..n /\ (k + 1) - 1 = k
    BY <2>1, <2>2, <1>1
  <2>4. layer[k + 1] = L!Spread(layer[k], calls)
    BY <2>3, <1>1
  <2>5. L!Executed(d, calls, t) \subseteq layer[k + 1]
    BY <2>2, <2>4, SpreadIs
  <2>6. layer[k + 1] \subseteq layer[n]
    BY <2>3, <1>1, <1>2
  <2> QED BY <2>5, <2>6, <1>1
<1>6. QED BY <1>3, <1>4, <1>5 DEF Within

\* No call of a container of Fifo loses a race, so a call that begins changes nothing
\* of what the others may do.
LEMMA ExecutedSame ==
  ASSUME NEW d, NEW calls, NEW more, NEW t, more[t] = calls[t]
  PROVE  L!Executed(d, calls, t) = L!Executed(d, more, t)
<1>1. \A x, y : Unrelated(x, y) = FALSE
  BY DEF Unrelated
<1>2. {u \in DOMAIN calls \ {t} : Unrelated(calls[t], calls[u])} = {}
  BY <1>1
<1>3. {u \in DOMAIN more \ {t} : Unrelated(more[t], more[u])} = {}
  BY <1>1
<1>4. QED BY <1>2, <1>3 DEF L!Executed

LEMMA ClosureMore ==
  ASSUME NEW C, NEW calls, NEW more, IsFiniteSet(DOMAIN more), Within(C, calls),
         DOMAIN calls \subseteq DOMAIN more, \A t \in DOMAIN calls : more[t] = calls[t]
  PROVE  L!Closure(C, calls) \subseteq L!Closure(C, more)
<1> DEFINE n == Cardinality(DOMAIN calls)
           layer == L!Layers(C, calls)
           all == L!Closure(C, more)
           S == {m \in 0..n : layer[m] \subseteq all}
<1>1. IsFiniteSet(DOMAIN calls)
  BY FS_Subset
<1>2. /\ n \in Nat /\ layer[0] = C /\ L!Closure(C, calls) = layer[n]
      /\ \A m \in 1..n : layer[m] = L!Spread(layer[m - 1], calls)
  BY <1>1, LayersStep
<1>3. Within(C, more)
  BY DEF Within
<1>4. /\ C \subseteq all
      /\ \A d \in all : \A t \in DOMAIN more \ DOMAIN d.done : L!Executed(d, more, t) \subseteq all
  BY <1>3, ClosureClosed
<1> HIDE DEF n, layer, all
<1>5. 0 \in S
  BY <1>2, <1>4
<1>6. ASSUME NEW m \in 1..n, m - 1 \in S PROVE m \in S
  <2>1. ASSUME NEW e \in layer[m], e \notin layer[m - 1] PROVE e \in all
    <3>1. PICK d \in layer[m - 1] : \E t \in DOMAIN calls \ DOMAIN d.done : e \in L!Executed(d, calls, t)
      <4>1. e \in L!Spread(layer[m - 1], calls)
        BY <1>2
      <4> QED BY <4>1, <2>1, SpreadIs
    <3>2. PICK t \in DOMAIN calls \ DOMAIN d.done : e \in L!Executed(d, calls, t)
      BY <3>1
    <3>3. e \in L!Executed(d, more, t)
      BY <3>2, ExecutedSame
    <3>4. d \in all
      BY <1>6
    <3> QED BY <3>3, <3>4, <1>4
  <2> QED BY <2>1, <1>6
<1>7. n \in S
  <2> HIDE DEF S
  <2>1. n \in 0..n
    BY <1>2
  <2> QED BY <2>1, <1>2, <1>5, <1>6, UpTo
<1>8. QED BY <1>7, <1>2 DEF all

\* The configuration of an answer, and that those left have executed running calls only.
LEMMA AnsweredHas ==
  ASSUME NEW C, NEW calls, NEW t, NEW res, NEW c \in L!Closure(C, calls),
         t \in DOMAIN c.done, c.done[t] = res
  PROVE  [obj |-> c.obj, done |-> [u \in DOMAIN c.done \ {t} |-> c.done[u]], lost |-> c.lost \ {t}]
           \in L!Answered(C, calls, t, res)
  BY DEF L!Answered

LEMMA AnsweredWithin ==
  ASSUME NEW C, NEW calls, NEW t, NEW res, NEW rest, IsFiniteSet(DOMAIN calls), Within(C, calls),
         DOMAIN rest = DOMAIN calls \ {t}
  PROVE  Within(L!Answered(C, calls, t, res), rest)
<1>1. Within(L!Closure(C, calls), calls)
  BY ClosureClosed
<1>2. ASSUME NEW a \in L!Answered(C, calls, t, res)
      PROVE  "done" \in DOMAIN a /\ DOMAIN a.done \subseteq DOMAIN rest
  <2>1. PICK c \in L!Closure(C, calls) :
          a = [obj |-> c.obj, done |-> [u \in DOMAIN c.done \ {t} |-> c.done[u]], lost |-> c.lost \ {t}]
    BY DEF L!Answered
  <2> QED BY <2>1, <1>1 DEF Within
<1>3. QED BY <1>2 DEF Within
-----------------------------------------------------------------------------
(* llstack.  The inductive invariant.                                      *)

\* A pop that has swapped the head and has yet to retire its node.
Retiring(t) == th[t].pc = "retire"

\* The local variables of the threads.
ThreadsOK ==
  /\ DOMAIN th = Threads
  /\ \A t \in Threads : th[t].pc # "idle" =>
       /\ DOMAIN th[t] = {"pc", "head", "call"} /\ th[t].pc \in {"swap", "retire"}
       /\ th[t].head \in 0..Len(heap)
       /\ th[t].call.op \in {"push", "pop"}

\* Nodes that are retired, or about to be, have one owner.
NodesOK ==
  /\ heap \in Seq(Range(heap))
  /\ \A b \in 1..Len(heap) : DOMAIN heap[b] = {"item", "next", "retired"} /\ heap[b].retired \in {0, 1}
  /\ \A t \in Threads : Retiring(t) =>
       th[t].call.op = "pop" /\ th[t].head # 0 /\ heap[th[t].head].retired = 0
  /\ \A t, u \in Threads : t # u /\ Retiring(t) /\ Retiring(u) => th[t].head # th[u].head

\* The n nodes p are the list from the head on; nobody is about to retire one.
Chain(n, p) ==
  /\ DOMAIN top = {"head"} /\ top.head = IF n = 0 THEN 0 ELSE p[1]
  /\ \A i \in 1..n : heap[p[i]].next = IF i = n THEN 0 ELSE p[i + 1]
  /\ \A i, j \in 1..n : i # j => p[i] # p[j]
  /\ \A i \in 1..n : heap[p[i]].retired = 0 /\ \A t \in Threads : Retiring(t) => th[t].head # p[i]

\* The pops whose answer is settled: the head they read was empty, or they swapped it.
Decided == {t \in Threads : /\ th[t].pc # "idle" /\ th[t].call.op = "pop"
                            /\ Retiring(t) \/ th[t].head = 0}

\* The sequential execution that takes every call at its swap, or at the read of an
\* empty head.
Taken(n, p) ==
  [obj  |-> [i \in 1..n |-> heap[p[i]].item],
   done |-> [t \in Decided |-> IF th[t].head = 0 THEN None ELSE heap[th[t].head].item],
   lost |-> {}]

\* It is one of those that explain the answers so far.
Explained ==
  \E n \in 0..Len(heap) : \E p \in [1..n -> 1..Len(heap)] :
    Chain(n, p) /\ Taken(n, p) \in L!Closure(lin, Calls)

StackInv == ThreadsOK /\ NodesOK /\ Within(lin, Calls) /\ Explained
-----------------------------------------------------------------------------
(* What the sequential object does.                                        *)

LEMMA LinePush ==
  ASSUME NEW q, NEW c, c.op = "push"
  PROVE  [obj |-> <<c.item>> \o q, res |-> Ok] \in Line(q, c)
  BY DEF Line

LEMMA LinePop ==
  ASSUME NEW q, NEW c, c.op = "pop"
  PROVE  (IF q = <<>> THEN [obj |-> q, res |-> None] ELSE [obj |-> Tail(q), res |-> q[1]]) \in Line(q, c)
  BY DEF Line

LEMMA ExecutedOne ==
  ASSUME NEW d, NEW calls, NEW t, NEW r \in Line(d.obj, calls[t]), d.lost = {}
  PROVE  [obj |-> r.obj, done |-> L!Put(d.done, t, r.res), lost |-> {}] \in L!Executed(d, calls, t)
<1>1. {u \in DOMAIN calls \ {t} : Unrelated(calls[t], calls[u])} = {}
  BY DEF Unrelated
<1>2. QED BY <1>1 DEF L!Executed

LEMMA SequenceFacts ==
  ASSUME NEW s, s \in Seq(Range(s))
  PROVE  /\ Len(s) \in Nat /\ DOMAIN s = 1..Len(s)
         /\ \A x : /\ Append(s, x) \in Seq(Range(Append(s, x)))
                   /\ Len(Append(s, x)) = Len(s) + 1
                   /\ \A i \in 1..Len(s) : Append(s, x)[i] = s[i]
                   /\ Append(s, x)[Len(s) + 1] = x
  BY DEF Range

LEMMA FunctionIsSequence ==
  ASSUME NEW n \in Nat, NEW s, s \in [1..n -> Range(s)]
  PROVE  s \in Seq(Range(s)) /\ Len(s) = n
  OBVIOUS
-----------------------------------------------------------------------------
(* What the steps do to the variables.                                     *)

LEMMA CallsFinite == IsFiniteSet(DOMAIN Calls) /\ DOMAIN Calls = {t \in Threads : th[t].pc # "idle"}
<1>1. DOMAIN Calls = {t \in Threads : th[t].pc # "idle"}
  BY DEF Calls
<1>2. IsFiniteSet(Threads)
  BY FifoAssumption
<1>3. QED BY <1>1, <1>2, FS_Subset

\* A call begins.
LEMMA BeginEffect ==
  ASSUME StackInv, NEW t \in Threads, NEW op \in {"push", "pop"}, BeginOp(t, op)
  PROVE  /\ th[t].pc = "idle" /\ heap' = heap /\ top' = top /\ lin' = lin
         /\ DOMAIN th' = Threads /\ \A u \in Threads : u # t => th'[u] = th[u]
         /\ DOMAIN th'[t] = {"pc", "head", "call"}
         /\ th'[t].pc = "swap" /\ th'[t].head = top.head /\ th'[t].call.op = op
<1>1. th[t].pc = "idle" /\ heap' = heap /\ top' = top /\ lin' = lin
  BY DEF BeginOp, Begin
<1>2. th' = [th EXCEPT ![t] = With([pc |-> "swap", head |-> top.head], [call |-> Head(todo[t])])]
      /\ Head(todo[t]).op = op /\ DOMAIN th = Threads
  BY DEF BeginOp, Begin, StackInv, ThreadsOK
<1>3. QED BY <1>1, <1>2 DEF With

\* A thread goes on with its call: some local variables change.
LEMMA StepEffect ==
  ASSUME StackInv, NEW t \in Threads, th[t].pc # "idle", NEW upd, DOMAIN upd \subseteq {"pc", "head"}, Step(t, upd)
  PROVE  /\ lin' = lin /\ DOMAIN th' = Threads /\ \A u \in Threads : u # t => th'[u] = th[u]
         /\ DOMAIN th'[t] = {"pc", "head", "call"} /\ th'[t].call = th[t].call
         /\ th'[t].pc = IF "pc" \in DOMAIN upd THEN upd.pc ELSE th[t].pc
         /\ th'[t].head = IF "head" \in DOMAIN upd THEN upd.head ELSE th[t].head
<1>1. lin' = lin /\ th' = [th EXCEPT ![t] = With(th[t], upd)]
  BY DEF Step
<1>2. DOMAIN th = Threads /\ DOMAIN th[t] = {"pc", "head", "call"}
  BY DEF StackInv, ThreadsOK
<1>3. QED BY <1>1, <1>2 DEF With

\* A call ends.
LEMMA AnswerEffect ==
  ASSUME StackInv, NEW t \in Threads, th[t].pc # "idle", NEW res, Answer(t, res)
  PROVE  /\ lin' = L!Answered(lin, Calls, t, res)
         /\ DOMAIN th' = Threads /\ \A u \in Threads : u # t => th'[u] = th[u]
         /\ th'[t].pc = "idle"
         /\ Within(lin', Calls')
<1>1. lin' = L!Answered(lin, Calls, t, res) /\ th' = [th EXCEPT ![t] = [pc |-> "idle"]] /\ DOMAIN th = Threads
  BY DEF Answer, StackInv, ThreadsOK, Idle
<1>2. DOMAIN th' = Threads /\ (\A u \in Threads : u # t => th'[u] = th[u]) /\ th'[t].pc = "idle"
  BY <1>1
<1>3. DOMAIN Calls' = DOMAIN Calls \ {t}
  BY <1>2 DEF Calls
<1>4. Within(lin', Calls')
  BY <1>1, <1>3, CallsFinite, AnsweredWithin DEF StackInv
<1>5. QED BY <1>1, <1>2, <1>4
-----------------------------------------------------------------------------
(* The steps preserve the invariant.                                       *)

\* Thread t reads the head, at its call or after a swap that failed.  A pop that
\* finds the list empty is taken here.
LEMMA HeadRead ==
  ASSUME StackInv, NEW t \in Threads, heap' = heap, top' = top, lin' = lin,
         DOMAIN th' = Threads, \A u \in Threads : u # t => th'[u] = th[u],
         DOMAIN th'[t] = {"pc", "head", "call"}, th'[t].pc = "swap", th'[t].head = top.head,
         th'[t].call.op \in {"push", "pop"}, ~Retiring(t), t \notin Decided,
         th[t].pc # "idle" => th'[t].call = th[t].call
  PROVE  StackInv'
<1>14. PICK n \in 0..Len(heap) : \E p \in [1..n -> 1..Len(heap)] :
          Chain(n, p) /\ Taken(n, p) \in L!Closure(lin, Calls)
  BY DEF StackInv, Explained
<1>1. PICK p \in [1..n -> 1..Len(heap)] : Chain(n, p) /\ Taken(n, p) \in L!Closure(lin, Calls)
  BY <1>14
<1>2. ThreadsOK /\ NodesOK /\ Within(lin, Calls)
  BY DEF StackInv
<1>3. top.head \in 0..Len(heap) /\ Len(heap) \in Nat
  <2>1. Len(heap) \in Nat
    BY <1>2, SequenceFacts DEF NodesOK
  <2> QED BY <2>1, <1>1 DEF Chain
<1>4. ThreadsOK'
  BY <1>2, <1>3 DEF ThreadsOK
<1>5. NodesOK'
  <2>1. \A u \in Threads : Retiring(u)' => u # t /\ Retiring(u) /\ th'[u] = th[u]
    BY DEF Retiring
  <2> QED BY <1>2, <2>1 DEF NodesOK
<1>6. /\ DOMAIN Calls \subseteq DOMAIN Calls' /\ t \in DOMAIN Calls' /\ Calls'[t] = th'[t].call
      /\ \A u \in DOMAIN Calls : Calls'[u] = Calls[u]
  BY DEF Calls
<1>7. Within(lin', Calls')
  BY <1>2, <1>6 DEF Within
<1>8. IsFiniteSet(DOMAIN Calls')
  <2>1. IsFiniteSet(Threads) /\ DOMAIN Calls' \subseteq Threads
    BY FifoAssumption DEF Calls
  <2> QED BY <2>1, FS_Subset
<1>9. Taken(n, p) \in L!Closure(lin', Calls')
  BY <1>1, <1>2, <1>6, <1>8, ClosureMore
<1>10. Chain(n, p)'
  <2>1. \A u \in Threads : Retiring(u)' => u # t /\ Retiring(u) /\ th'[u] = th[u]
    BY DEF Retiring
  <2> QED BY <1>1, <2>1 DEF Chain
<1>11. Taken(n, p)' \in L!Closure(lin', Calls')
  <2>1. CASE th'[t].call.op = "pop" /\ top.head = 0
    <3>1. n = 0
      BY <1>1, <1>3, <2>1 DEF Chain
    <3>2. Decided' = Decided \cup {t}
      BY <2>1 DEF Decided, Retiring
    <3>3. Taken(n, p).obj = <<>> /\ Taken(n, p).lost = {} /\ DOMAIN Taken(n, p).done = Decided
      BY <3>1 DEF Taken
    <3>4. Taken(n, p)' = [obj |-> <<>>, done |-> L!Put(Taken(n, p).done, t, None), lost |-> {}]
      <4>1. Taken(n, p)'.done = L!Put(Taken(n, p).done, t, None)
        <5>1. \A u \in Decided' : (IF th'[u].head = 0 THEN None ELSE heap'[th'[u].head].item)
                 = IF u = t THEN None ELSE Taken(n, p).done[u]
          BY <2>1, <3>2 DEF Taken, Decided
        <5> QED BY <5>1, <3>2, <3>3 DEF Taken, L!Put
      <4>2. Taken(n, p)'.obj = <<>>
        BY <3>1 DEF Taken
      <4> QED BY <4>1, <4>2 DEF Taken
    <3>5. [obj |-> <<>>, res |-> None] \in Line(Taken(n, p).obj, Calls'[t])
      BY <3>3, <1>6, <2>1, LinePop
    <3>6. Taken(n, p)' \in L!Executed(Taken(n, p), Calls', t)
      <4> HIDE DEF Taken
      <4>1. [obj |-> [obj |-> <<>>, res |-> None].obj,
             done |-> L!Put(Taken(n, p).done, t, [obj |-> <<>>, res |-> None].res), lost |-> {}]
              \in L!Executed(Taken(n, p), Calls', t)
        BY <3>3, <3>5, ExecutedOne
      <4> QED BY <4>1, <3>4
    <3>7. t \in DOMAIN Calls' \ DOMAIN Taken(n, p).done
      BY <1>6, <3>3
    <3>8. QED BY <3>6, <3>7, <1>7, <1>8, <1>9, ClosureClosed
  <2>2. CASE ~(th'[t].call.op = "pop" /\ top.head = 0)
    <3>1. Decided' = Decided
      BY <2>2 DEF Decided, Retiring
    <3>2. t \notin Decided'
      BY <3>1
    <3>3. Taken(n, p)' = Taken(n, p)
      BY <3>1, <3>2 DEF Taken, Decided
    <3>4. QED BY <3>3, <1>9
  <2>3. QED BY <2>1, <2>2
<1>12. Explained'
  BY <1>10, <1>11 DEF Explained
<1>13. QED BY <1>4, <1>5, <1>7, <1>12 DEF StackInv

\* The list, and its sequential execution.
LEMMA TheChain ==
  ASSUME StackInv
  PROVE  /\ \E n \in Nat : \E p \in [1..n -> 1..Len(heap)] :
              n <= Len(heap) /\ Chain(n, p) /\ Taken(n, p) \in L!Closure(lin, Calls)
         /\ Len(heap) \in Nat /\ DOMAIN heap = 1..Len(heap)
<1>1. Len(heap) \in Nat /\ DOMAIN heap = 1..Len(heap)
  BY SequenceFacts DEF StackInv, NodesOK
<1>2. QED BY <1>1 DEF StackInv, Explained

\* The execution that goes on when a call it has executed answers.
LEMMA AnswerTaken ==
  ASSUME StackInv, NEW t \in Threads, th[t].pc # "idle", NEW res, Answer(t, res),
         NEW c \in L!Closure(lin, Calls), t \in DOMAIN c.done, c.done[t] = res, c.lost = {}
  PROVE  [obj |-> c.obj, done |-> [u \in DOMAIN c.done \ {t} |-> c.done[u]], lost |-> {}]
           \in L!Closure(lin', Calls')
<1>1. lin' = L!Answered(lin, Calls, t, res) /\ Within(lin', Calls')
  BY AnswerEffect
<1>2. c.lost \ {t} = {}
  OBVIOUS
<1>3. [obj |-> c.obj, done |-> [u \in DOMAIN c.done \ {t} |-> c.done[u]], lost |-> {}] \in lin'
  BY <1>1, <1>2, AnsweredHas
<1>4. IsFiniteSet(DOMAIN Calls')
  <2>1. IsFiniteSet(Threads) /\ DOMAIN Calls' \subseteq Threads
    BY FifoAssumption DEF Calls
  <2> QED BY <2>1, FS_Subset
<1>5. lin' \subseteq L!Closure(lin', Calls')
  BY <1>1, <1>4, ClosureClosed
<1>6. QED BY <1>3, <1>5

\* A pop that found nothing answers.
LEMMA PopNothing ==
  ASSUME StackInv, NEW t \in Threads, Calling(t, "pop"), th[t].pc = "swap", th[t].head = 0,
         Answer(t, None), heap' = heap, top' = top
  PROVE  StackInv'
<1>1. PICK n \in Nat : \E p \in [1..n -> 1..Len(heap)] :
        n <= Len(heap) /\ Chain(n, p) /\ Taken(n, p) \in L!Closure(lin, Calls)
  BY TheChain
<1>2. PICK p \in [1..n -> 1..Len(heap)] :
        n <= Len(heap) /\ Chain(n, p) /\ Taken(n, p) \in L!Closure(lin, Calls)
  BY <1>1
<1>3. Len(heap) \in Nat /\ ThreadsOK /\ NodesOK
  BY TheChain DEF StackInv
<1>4. /\ DOMAIN th' = Threads /\ \A u \in Threads : u # t => th'[u] = th[u]
      /\ th'[t].pc = "idle" /\ Within(lin', Calls')
  BY AnswerEffect
<1>5. \A u \in Threads : Retiring(u)' => u # t /\ Retiring(u) /\ th'[u] = th[u]
  BY <1>4 DEF Retiring
<1>6. ThreadsOK' /\ NodesOK'
  BY <1>3, <1>4, <1>5 DEF ThreadsOK, NodesOK
<1>7. Chain(n, p)'
  <2>1. \A i \in 1..n : \A u \in Threads : Retiring(u)' => th'[u].head # p[i]
    <3>1. \A i \in 1..n : \A u \in Threads : Retiring(u) => th[u].head # p[i]
      BY <1>2 DEF Chain
    <3> QED BY <3>1, <1>5
  <2>2. Chain(n, p)
    BY <1>2
  <2> QED BY <2>1, <2>2 DEF Chain
<1>8. t \in Decided /\ Decided' = Decided \ {t}
  BY <1>4 DEF Decided, Retiring, Calling
<1>9. Taken(n, p)' = [obj |-> Taken(n, p).obj,
                      done |-> [u \in Decided \ {t} |-> Taken(n, p).done[u]], lost |-> {}]
  <2>1. \A u \in Decided \ {t} : th'[u] = th[u] /\ u \in Decided
    BY <1>4 DEF Decided
  <2> QED BY <1>8, <2>1 DEF Taken
<1>10. /\ DOMAIN Taken(n, p).done = Decided /\ Taken(n, p).done[t] = None /\ Taken(n, p).lost = {}
  BY <1>8 DEF Taken
<1>11. Taken(n, p)' \in L!Closure(lin', Calls')
  <2> HIDE DEF Taken
  <2>1. [obj |-> Taken(n, p).obj, done |-> [u \in DOMAIN Taken(n, p).done \ {t} |-> Taken(n, p).done[u]],
         lost |-> {}] \in L!Closure(lin', Calls')
    BY <1>2, <1>3, <1>8, <1>10, AnswerTaken DEF Calling
  <2> QED BY <2>1, <1>9, <1>10
<1>12. Explained'
  BY <1>2, <1>3, <1>7, <1>11 DEF Explained
<1>13. QED BY <1>4, <1>6, <1>12 DEF StackInv

\* A pop retires the node it swapped out, and answers with its item.
LEMMA PopRetires ==
  ASSUME StackInv, NEW t \in Threads, Calling(t, "pop"), th[t].pc = "retire",
         heap' = [heap EXCEPT ![th[t].head].retired = @ + 1],
         Answer(t, heap[th[t].head].item), top' = top
  PROVE  StackInv'
<1>1. PICK n \in Nat : \E p \in [1..n -> 1..Len(heap)] :
        n <= Len(heap) /\ Chain(n, p) /\ Taken(n, p) \in L!Closure(lin, Calls)
  BY TheChain
<1>2. PICK p \in [1..n -> 1..Len(heap)] :
        n <= Len(heap) /\ Chain(n, p) /\ Taken(n, p) \in L!Closure(lin, Calls)
  BY <1>1
<1>3. Len(heap) \in Nat /\ DOMAIN heap = 1..Len(heap) /\ ThreadsOK /\ NodesOK
  BY TheChain DEF StackInv
<1>4. /\ DOMAIN th' = Threads /\ \A u \in Threads : u # t => th'[u] = th[u]
      /\ th'[t].pc = "idle" /\ Within(lin', Calls')
  BY AnswerEffect
<1>5. \A u \in Threads : Retiring(u)' => u # t /\ Retiring(u) /\ th'[u] = th[u]
  BY <1>4 DEF Retiring
<1> DEFINE h == th[t].head
<1>6. h \in 1..Len(heap) /\ heap[h].retired = 0 /\ Retiring(t)
  BY <1>3 DEF ThreadsOK, NodesOK, Retiring
<1>7. /\ heap' \in Seq(Range(heap')) /\ Len(heap') = Len(heap)
      /\ \A b \in 1..Len(heap) :
           /\ b # h => heap'[b] = heap[b]
           /\ DOMAIN heap'[b] = {"item", "next", "retired"}
           /\ heap'[b].item = heap[b].item /\ heap'[b].next = heap[b].next
      /\ heap'[h].retired = 1
  <2>1. heap' = [heap EXCEPT ![h] = [heap[h] EXCEPT !.retired = heap[h].retired + 1]]
    BY <1>3, <1>6
  <2>2. heap' \in Seq(Range(heap')) /\ Len(heap') = Len(heap)
    <3>1. heap' \in [1..Len(heap) -> Range(heap')]
      BY <2>1, <1>3 DEF Range
    <3> QED BY <3>1, <1>3, FunctionIsSequence
  <2>3. \A b \in 1..Len(heap) : DOMAIN heap[b] = {"item", "next", "retired"}
    BY <1>3 DEF NodesOK
  <2> QED BY <2>1, <2>2, <2>3, <1>3, <1>6
<1>8. ThreadsOK'
  BY <1>3, <1>4, <1>7 DEF ThreadsOK
<1>9. NodesOK'
  <2>1. \A u \in Threads : Retiring(u)' => th'[u].head \in 1..Len(heap) /\ th'[u].head # h
    BY <1>3, <1>5, <1>6 DEF NodesOK, ThreadsOK, Retiring
  <2>2. \A b \in 1..Len(heap) : heap'[b].retired \in {0, 1}
    BY <1>3, <1>7 DEF NodesOK
  <2> HIDE DEF h
  <2> QED BY <1>3, <1>5, <1>7, <2>1, <2>2 DEF NodesOK
<1>10. Chain(n, p)'
  <2>1. \A i \in 1..n : p[i] \in 1..Len(heap) /\ p[i] # h
    BY <1>2, <1>6 DEF Chain
  <2>2. \A i \in 1..n : \A u \in Threads : Retiring(u)' => th'[u].head # p[i]
    BY <1>2, <1>5 DEF Chain
  <2>3. \A i \in 1..n : heap'[p[i]] = heap[p[i]]
    BY <1>7, <2>1
  <2>4. Chain(n, p)
    BY <1>2
  <2> QED BY <2>2, <2>3, <2>4 DEF Chain
<1>11. t \in Decided /\ Decided' = Decided \ {t}
  BY <1>4 DEF Decided, Retiring, Calling
<1>12. Taken(n, p)' = [obj |-> Taken(n, p).obj,
                      done |-> [u \in Decided \ {t} |-> Taken(n, p).done[u]], lost |-> {}]
  <2>1. \A u \in Decided \ {t} : th'[u] = th[u] /\ u \in Decided /\ th[u].head \in 0..Len(heap)
    BY <1>3, <1>4 DEF Decided, ThreadsOK
  <2>2. \A i \in 1..n : heap'[p[i]].item = heap[p[i]].item
    BY <1>7
  <2>3. \A u \in Decided \ {t} :
          (IF th'[u].head = 0 THEN None ELSE heap'[th'[u].head].item) = Taken(n, p).done[u]
    BY <1>3, <1>7, <2>1 DEF Taken
  <2>4. Taken(n, p)'.done = [u \in Decided \ {t} |-> Taken(n, p).done[u]]
    <3> DEFINE D == Taken(n, p).done
    <3>1. \A u \in Decided \ {t} : (IF th'[u].head = 0 THEN None ELSE heap'[th'[u].head].item) = D[u]
      BY <2>3
    <3>2. Taken(n, p)'.done = [u \in Decided' |-> IF th'[u].head = 0 THEN None ELSE heap'[th'[u].head].item]
      BY DEF Taken
    <3> HIDE DEF D
    <3>3. Taken(n, p)'.done = [u \in Decided \ {t} |-> D[u]]
      BY <3>1, <3>2, <1>11
    <3> QED BY <3>3 DEF D
  <2>5. Taken(n, p)'.obj = Taken(n, p).obj
    BY <2>2 DEF Taken
  <2>6. Taken(n, p)' = [obj |-> Taken(n, p)'.obj, done |-> Taken(n, p)'.done, lost |-> {}]
    BY DEF Taken
  <2> QED BY <2>4, <2>5, <2>6
<1>13. DOMAIN Taken(n, p).done = Decided /\ Taken(n, p).done[t] = heap[h].item /\ Taken(n, p).lost = {}
  BY <1>6, <1>11 DEF Taken
<1>14. Taken(n, p)' \in L!Closure(lin', Calls')
  <2> HIDE DEF Taken
  <2>1. [obj |-> Taken(n, p).obj, done |-> [u \in DOMAIN Taken(n, p).done \ {t} |-> Taken(n, p).done[u]],
         lost |-> {}] \in L!Closure(lin', Calls')
    BY <1>2, <1>3, <1>11, <1>13, AnswerTaken DEF Calling
  <2> QED BY <2>1, <1>12, <1>13
<1>15. Explained'
  BY <1>2, <1>3, <1>7, <1>10, <1>14 DEF Explained
<1>16. QED BY <1>4, <1>8, <1>9, <1>15 DEF StackInv

\* A pop swaps the head: it is taken here, and the node is its own.
LEMMA PopSwaps ==
  ASSUME StackInv, NEW t \in Threads, Calling(t, "pop"), th[t].pc = "swap", th[t].head # 0, top.head = th[t].head,
         top' = [top EXCEPT !.head = heap[th[t].head].next], Step(t, [pc |-> "retire"]), heap' = heap
  PROVE  StackInv'
<1>1. PICK n \in Nat : \E p \in [1..n -> 1..Len(heap)] :
        n <= Len(heap) /\ Chain(n, p) /\ Taken(n, p) \in L!Closure(lin, Calls)
  BY TheChain
<1>2. PICK p \in [1..n -> 1..Len(heap)] :
        n <= Len(heap) /\ Chain(n, p) /\ Taken(n, p) \in L!Closure(lin, Calls)
  BY <1>1
<1>3. Len(heap) \in Nat /\ DOMAIN heap = 1..Len(heap) /\ ThreadsOK /\ NodesOK /\ Within(lin, Calls)
  BY TheChain DEF StackInv
<1>4. /\ lin' = lin /\ DOMAIN th' = Threads /\ \A u \in Threads : u # t => th'[u] = th[u]
      /\ DOMAIN th'[t] = {"pc", "head", "call"} /\ th'[t].call = th[t].call
      /\ th'[t].pc = "retire" /\ th'[t].head = th[t].head
  BY StepEffect DEF Calling
<1>5. Calls' = Calls
  <2>1. {u \in Threads : th'[u].pc # "idle"} = {u \in Threads : th[u].pc # "idle"}
    BY <1>4
  <2>2. \A u \in Threads : th'[u].call = th[u].call
    BY <1>4
  <2> QED BY <2>1, <2>2 DEF Calls
<1> DEFINE m == n - 1
           q == [i \in 1..m |-> p[i + 1]]
<1>6. n # 0 /\ p[1] = th[t].head /\ m \in Nat /\ q \in [1..m -> 1..Len(heap)] /\ p[1] \in 1..Len(heap)
  <2>1. top.head = IF n = 0 THEN 0 ELSE p[1]
    BY <1>2 DEF Chain
  <2>2. n # 0 /\ p[1] = th[t].head
    BY <2>1
  <2>3. m \in Nat /\ 1 \in 1..n /\ \A i \in 1..m : i + 1 \in 1..n
    BY <2>2
  <2> QED BY <2>2, <2>3
<1>7. \A i \in 1..n : heap[p[i]].retired = 0 /\ \A u \in Threads : Retiring(u) => th[u].head # p[i]
  BY <1>2 DEF Chain
<1>8. \A u \in Threads : Retiring(u)' <=> (u = t \/ Retiring(u))
  BY <1>4 DEF Retiring
<1>9. ~Retiring(t)
  BY DEF Retiring
<1>10. ThreadsOK'
  BY <1>3, <1>4 DEF ThreadsOK
<1>11. NodesOK'
  <2>1. \A u \in Threads : Retiring(u)' =>
          th'[u].call.op = "pop" /\ th'[u].head # 0 /\ heap'[th'[u].head].retired = 0
    <3>1. th'[t].call.op = "pop" /\ th'[t].head # 0 /\ heap'[th'[t].head].retired = 0
      BY <1>4, <1>6, <1>7 DEF Calling
    <3>2. ASSUME NEW u \in Threads, u # t, Retiring(u)
          PROVE  th[u].call.op = "pop" /\ th[u].head # 0 /\ heap[th[u].head].retired = 0
      BY <3>2, <1>3 DEF NodesOK
    <3> QED BY <3>1, <3>2, <1>4, <1>8
  <2>2. \A u \in Threads : u # t /\ Retiring(u) => th[u].head # th[t].head
    BY <1>6, <1>7
  <2>3. ASSUME NEW u \in Threads, NEW v \in Threads, u # v, Retiring(u)', Retiring(v)'
        PROVE  th'[u].head # th'[v].head
    <3>1. CASE u = t
      BY <3>1, <2>2, <2>3, <1>4, <1>8
    <3>2. CASE v = t
      BY <3>2, <2>2, <2>3, <1>4, <1>8
    <3>3. CASE u # t /\ v # t
      <4>1. Retiring(u) /\ Retiring(v)
        BY <3>3, <2>3, <1>8
      <4> QED BY <4>1, <3>3, <2>3, <1>3, <1>4 DEF NodesOK
    <3> QED BY <3>1, <3>2, <3>3
  <2> QED BY <2>1, <2>3, <1>3 DEF NodesOK
<1>12. Chain(m, q)'
  <2>1. /\ DOMAIN top = {"head"}
        /\ \A i \in 1..n : heap[p[i]].next = IF i = n THEN 0 ELSE p[i + 1]
        /\ \A i, j \in 1..n : i # j => p[i] # p[j]
    BY <1>2 DEF Chain
  <2>2. DOMAIN top' = {"head"} /\ top'.head = IF m = 0 THEN 0 ELSE q[1]
    <3>1. top'.head = heap[p[1]].next /\ DOMAIN top' = {"head"}
      BY <1>6, <2>1
    <3>2. heap[p[1]].next = IF n = 1 THEN 0 ELSE p[2]
      <4>1. 1 \in 1..n
        BY <1>6
      <4>2. heap[p[1]].next = IF 1 = n THEN 0 ELSE p[1 + 1]
        BY <2>1, <4>1
      <4> QED BY <4>2
    <3>3. m # 0 => q[1] = p[2]
      BY <1>6
    <3> QED BY <3>1, <3>2, <3>3, <1>6
  <2>3. ASSUME NEW i \in 1..m
        PROVE  /\ i + 1 \in 1..n /\ q[i] = p[i + 1] /\ q[i] # p[1]
               /\ heap[q[i]].next = IF i = m THEN 0 ELSE q[i + 1]
    <3>1. i + 1 \in 1..n /\ q[i] = p[i + 1] /\ 1 \in 1..n /\ i + 1 # 1
      BY <1>6
    <3>2. q[i] # p[1]
      BY <3>1, <2>1
    <3>3. i # m => i + 1 \in 1..m /\ q[i + 1] = p[(i + 1) + 1]
      BY <1>6
    <3>4. heap[p[i + 1]].next = IF i + 1 = n THEN 0 ELSE p[(i + 1) + 1]
      BY <3>1, <2>1
    <3> HIDE DEF q
    <3> QED BY <3>1, <3>2, <3>3, <3>4, <1>6
  <2>4. \A i, j \in 1..m : i # j => q[i] # q[j]
    <3> HIDE DEF q, m
    <3> QED BY <2>1, <2>3, <1>6
  <2>5. ASSUME NEW i \in 1..m
        PROVE  heap[q[i]].retired = 0 /\ \A u \in Threads : Retiring(u)' => th'[u].head # q[i]
    <3>1. heap[q[i]].retired = 0 /\ \A u \in Threads : Retiring(u) => th[u].head # q[i]
      <4> HIDE DEF q, m
      <4> QED BY <2>3, <1>7
    <3>2. th'[t].head # q[i]
      BY <2>3, <1>4, <1>6
    <3> HIDE DEF q, m
    <3> QED BY <3>1, <3>2, <1>4, <1>8
  <2> HIDE DEF q, m
  <2> QED BY <2>2, <2>3, <2>4, <2>5 DEF Chain
<1>13. Decided' = Decided \cup {t} /\ t \notin Decided
  BY <1>4 DEF Decided, Retiring, Calling
<1> DEFINE c == Taken(n, p)
           x == heap[p[1]].item
<1>14. c.lost = {} /\ DOMAIN c.done = Decided /\ c.obj # <<>> /\ c.obj[1] = x
       /\ Tail(c.obj) = [i \in 1..m |-> heap[q[i]].item]
  <2> DEFINE items == [i \in 1..n |-> heap[p[i]].item]
  <2>1. c.lost = {} /\ DOMAIN c.done = Decided /\ c.obj = items
    BY DEF Taken
  <2>2. items # <<>> /\ items[1] = x
    BY <1>6
  <2>3. Tail(items) = [i \in 1..(n - 1) |-> items[i + 1]]
    BY <1>6
  <2>4. ASSUME NEW i \in 1..m PROVE items[i + 1] = heap[q[i]].item
    BY <1>6
  <2> QED BY <2>1, <2>2, <2>3, <2>4
<1>15. Taken(m, q)' = [obj |-> Tail(c.obj), done |-> L!Put(c.done, t, x), lost |-> {}]
  <2>1. \A u \in Decided \cup {t} :
          (IF th'[u].head = 0 THEN None ELSE heap'[th'[u].head].item) = IF u = t THEN x ELSE c.done[u]
    <3>1. (IF th'[t].head = 0 THEN None ELSE heap'[th'[t].head].item) = x
      BY <1>4, <1>6
    <3>2. \A u \in Decided : u # t /\ th'[u] = th[u]
      BY <1>4, <1>13 DEF Decided
    <3>3. \A u \in Decided : c.done[u] = IF th[u].head = 0 THEN None ELSE heap[th[u].head].item
      BY DEF Taken
    <3> HIDE DEF c, x
    <3> QED BY <3>1, <3>2, <3>3
  <2>2. Taken(m, q)' = [obj |-> [i \in 1..m |-> heap'[q[i]].item],
                        done |-> [u \in Decided' |-> IF th'[u].head = 0 THEN None ELSE heap'[th'[u].head].item],
                        lost |-> {}]
    BY DEF Taken
  <2> HIDE DEF c, x, q, m
  <2>3. L!Put(c.done, t, x) = [u \in Decided \cup {t} |-> IF u = t THEN x ELSE c.done[u]]
    BY <1>14 DEF L!Put
  <2>4. [u \in Decided' |-> IF th'[u].head = 0 THEN None ELSE heap'[th'[u].head].item] = L!Put(c.done, t, x)
    BY <1>13, <2>1, <2>3
  <2>5. [i \in 1..m |-> heap'[q[i]].item] = Tail(c.obj)
    BY <1>14
  <2> QED BY <2>2, <2>4, <2>5
<1>16. Taken(m, q)' \in L!Closure(lin', Calls')
  <2>1. t \in DOMAIN Calls /\ Calls[t].op = "pop"
    BY DEF Calls, Calling
  <2> DEFINE r == [obj |-> Tail(c.obj), res |-> x]
  <2> HIDE DEF c, x
  <2>2. r \in Line(c.obj, Calls[t])
    BY <1>14, <2>1, LinePop
  <2>3. r.obj = Tail(c.obj) /\ r.res = x
    OBVIOUS
  <2> HIDE DEF r
  <2>4. [obj |-> r.obj, done |-> L!Put(c.done, t, r.res), lost |-> {}] \in L!Executed(c, Calls, t)
    BY <1>14, <2>2, ExecutedOne
  <2>5. Taken(m, q)' \in L!Executed(c, Calls, t)
    BY <2>3, <2>4, <1>15
  <2>6. c \in L!Closure(lin, Calls)
    BY <1>2 DEF c
  <2>7. t \in DOMAIN Calls \ DOMAIN c.done
    BY <1>13, <1>14, <2>1
  <2>8. Taken(m, q)' \in L!Closure(lin, Calls)
    BY <2>5, <2>6, <2>7, <1>3, CallsFinite, ClosureClosed
  <2> QED BY <2>8, <1>4, <1>5
<1>17. Explained'
  <2>1. m \in 0..Len(heap') /\ q \in [1..m -> 1..Len(heap')]
    BY <1>2, <1>3, <1>6
  <2> HIDE DEF q, m
  <2> QED BY <2>1, <1>12, <1>16 DEF Explained
<1>18. Within(lin', Calls')
  BY <1>3, <1>4, <1>5
<1>19. QED BY <1>10, <1>11, <1>17, <1>18 DEF StackInv

\* A push swaps the head, and answers: it is taken here.
LEMMA PushSwaps ==
  ASSUME StackInv, NEW t \in Threads, Calling(t, "push"), th[t].pc = "swap", top.head = th[t].head,
         heap' = Append(heap, Node(th[t].call.item, th[t].head)),
         top' = [top EXCEPT !.head = Len(heap')], Answer(t, Ok)
  PROVE  StackInv'
<1>1. PICK n \in Nat : \E p \in [1..n -> 1..Len(heap)] :
        n <= Len(heap) /\ Chain(n, p) /\ Taken(n, p) \in L!Closure(lin, Calls)
  BY TheChain
<1>2. PICK p \in [1..n -> 1..Len(heap)] :
        n <= Len(heap) /\ Chain(n, p) /\ Taken(n, p) \in L!Closure(lin, Calls)
  BY <1>1
<1>3. Len(heap) \in Nat /\ DOMAIN heap = 1..Len(heap) /\ ThreadsOK /\ NodesOK /\ Within(lin, Calls)
  BY TheChain DEF StackInv
<1>4. /\ DOMAIN th' = Threads /\ \A u \in Threads : u # t => th'[u] = th[u]
      /\ th'[t].pc = "idle" /\ Within(lin', Calls')
  BY AnswerEffect DEF Calling
<1>5. \A u \in Threads : Retiring(u)' => u # t /\ Retiring(u) /\ th'[u] = th[u]
  BY <1>4 DEF Retiring
<1>17. PICK e : e = Len(heap) + 1
  OBVIOUS
<1> DEFINE x == th[t].call.item
           m == n + 1
           q == [i \in 1..m |-> IF i = 1 THEN e ELSE p[i - 1]]
<1>6. /\ heap' \in Seq(Range(heap')) /\ Len(heap') = e /\ \A b \in 1..Len(heap) : heap'[b] = heap[b]
      /\ DOMAIN heap'[e] = {"item", "next", "retired"}
      /\ heap'[e].item = x /\ heap'[e].next = top.head /\ heap'[e].retired = 0
  <2> DEFINE node == Node(x, th[t].head)
  <2>1. DOMAIN node = {"item", "next", "retired"} /\ node.item = x /\ node.next = top.head /\ node.retired = 0
    BY DEF Node
  <2> HIDE DEF node, x
  <2>2. heap' = Append(heap, node) /\ heap \in Seq(Range(heap))
    BY <1>3 DEF node, x, NodesOK
  <2>3. heap' \in Seq(Range(heap')) /\ Len(heap') = e /\ (\A b \in 1..Len(heap) : heap'[b] = heap[b]) /\ heap'[e] = node
    BY <2>2, <1>17, SequenceFacts
  <2> QED BY <2>1, <2>3
<1>7. ThreadsOK'
  <2>1. \A u \in Threads : th'[u].pc # "idle" => u # t /\ th'[u] = th[u]
    BY <1>4
  <2> QED BY <1>3, <1>4, <1>6, <1>17, <2>1 DEF ThreadsOK
<1>8. NodesOK'
  <2>1. \A u \in Threads : Retiring(u)' => th[u].head \in 1..Len(heap)
    BY <1>3, <1>5 DEF NodesOK, ThreadsOK, Retiring
  <2>2. \A b \in 1..e : b \in 1..Len(heap) \/ b = e
    BY <1>3, <1>17
  <2>3. \A b \in 1..Len(heap') : DOMAIN heap'[b] = {"item", "next", "retired"} /\ heap'[b].retired \in {0, 1}
    BY <1>3, <1>6, <2>2 DEF NodesOK
  <2>4. \A u \in Threads : Retiring(u)' =>
          th'[u].call.op = "pop" /\ th'[u].head # 0 /\ heap'[th'[u].head].retired = 0
    BY <1>3, <1>5, <1>6, <2>1 DEF NodesOK
  <2>5. \A u, v \in Threads : u # v /\ Retiring(u)' /\ Retiring(v)' => th'[u].head # th'[v].head
    BY <1>3, <1>5 DEF NodesOK
  <2> QED BY <1>6, <2>3, <2>4, <2>5 DEF NodesOK
<1>9. m \in Nat /\ q \in [1..m -> 1..Len(heap')] /\ q[1] = e
      /\ \A i \in 1..m : i # 1 => i - 1 \in 1..n /\ q[i] = p[i - 1] /\ q[i] \in 1..Len(heap) /\ q[i] # e
  <2>1. \A i \in 1..m : i # 1 => i - 1 \in 1..n
    OBVIOUS
  <2>2. \A i \in 1..m : i # 1 => q[i] = p[i - 1] /\ q[i] \in 1..Len(heap) /\ q[i] # e
    BY <1>3, <1>17, <2>1
  <2>3. q[1] = e /\ 1 \in 1..m
    OBVIOUS
  <2> QED BY <2>1, <2>2, <2>3, <1>3, <1>6, <1>17
<1> HIDE DEF q
<1>10. Chain(m, q)'
  <2>1. /\ DOMAIN top = {"head"} /\ top.head = IF n = 0 THEN 0 ELSE p[1]
        /\ \A i \in 1..n : heap[p[i]].next = IF i = n THEN 0 ELSE p[i + 1]
        /\ \A i, j \in 1..n : i # j => p[i] # p[j]
        /\ \A i \in 1..n : heap[p[i]].retired = 0 /\ \A u \in Threads : Retiring(u) => th[u].head # p[i]
    BY <1>2 DEF Chain
  <2>2. DOMAIN top' = {"head"} /\ top'.head = IF m = 0 THEN 0 ELSE q[1]
    BY <2>1, <1>6, <1>9
  <2>3. ASSUME NEW i \in 1..m PROVE heap'[q[i]].next = IF i = m THEN 0 ELSE q[i + 1]
    <3>1. CASE i = 1
      <4>1. heap'[q[i]].next = IF n = 0 THEN 0 ELSE p[1]
        BY <3>1, <2>1, <1>6, <1>9
      <4>2. n # 0 => 2 \in 1..m /\ 2 # 1
        OBVIOUS
      <4>3. n # 0 => q[2] = p[2 - 1]
        BY <4>2, <1>9
      <4> QED BY <3>1, <4>1, <4>3
    <3>2. CASE i # 1
      <4>1. i - 1 \in 1..n /\ heap'[q[i]] = heap[p[i - 1]]
        BY <3>2, <1>6, <1>9
      <4>2. heap[p[i - 1]].next = IF i - 1 = n THEN 0 ELSE p[(i - 1) + 1]
        BY <4>1, <2>1
      <4>3. i # m => i + 1 \in 1..m /\ i + 1 # 1
        OBVIOUS
      <4>4. i # m => q[i + 1] = p[(i + 1) - 1]
        BY <4>3, <1>9
      <4>5. (i - 1) + 1 = i /\ (i + 1) - 1 = i /\ (i - 1 = n <=> i = m)
        OBVIOUS
      <4> QED BY <4>1, <4>2, <4>4, <4>5
    <3> QED BY <3>1, <3>2
  <2>4. ASSUME NEW i \in 1..m, NEW j \in 1..m, i # j PROVE q[i] # q[j]
    <3>1. CASE i = 1
      BY <3>1, <2>4, <1>9
    <3>2. CASE j = 1
      BY <3>2, <2>4, <1>9
    <3>3. CASE i # 1 /\ j # 1
      <4>1. i - 1 \in 1..n /\ j - 1 \in 1..n /\ i - 1 # j - 1
        BY <3>3, <2>4
      <4> QED BY <4>1, <3>3, <2>1, <1>9
    <3> QED BY <3>1, <3>2, <3>3
  <2>5. ASSUME NEW i \in 1..m
        PROVE  heap'[q[i]].retired = 0 /\ \A u \in Threads : Retiring(u)' => th'[u].head # q[i]
    <3>1. CASE i = 1
      <4>1. \A u \in Threads : Retiring(u)' => th'[u].head \in 0..Len(heap)
        BY <1>3, <1>5 DEF ThreadsOK, Retiring
      <4> QED BY <3>1, <4>1, <1>3, <1>6, <1>9, <1>17
    <3>2. CASE i # 1
      <4>1. i - 1 \in 1..n /\ q[i] = p[i - 1] /\ heap'[q[i]] = heap[p[i - 1]]
        BY <3>2, <1>6, <1>9
      <4>2. heap[p[i - 1]].retired = 0 /\ \A u \in Threads : Retiring(u) => th[u].head # p[i - 1]
        BY <4>1, <2>1
      <4> QED BY <4>1, <4>2, <1>5
    <3> QED BY <3>1, <3>2
  <2> HIDE DEF m
  <2> QED BY <2>2, <2>3, <2>4, <2>5 DEF Chain
<1>11. Decided' = Decided /\ t \notin Decided
  BY <1>4 DEF Decided, Retiring, Calling
<1> DEFINE c == Taken(n, p)
<1>12. c.lost = {} /\ DOMAIN c.done = Decided /\ <<x>> \o c.obj = [i \in 1..m |-> heap'[q[i]].item]
  <2> DEFINE items == [i \in 1..n |-> heap[p[i]].item]
  <2>1. c.lost = {} /\ DOMAIN c.done = Decided /\ c.obj = items
    BY DEF Taken
  <2>2. <<x>> \o items = [i \in 1..m |-> IF i = 1 THEN x ELSE items[i - 1]]
    OBVIOUS
  <2>3. ASSUME NEW i \in 1..m PROVE (IF i = 1 THEN x ELSE items[i - 1]) = heap'[q[i]].item
    <3>1. CASE i = 1
      BY <3>1, <1>6, <1>9
    <3>2. CASE i # 1
      <4>1. i - 1 \in 1..n /\ q[i] = p[i - 1] /\ heap'[q[i]] = heap[p[i - 1]]
        BY <3>2, <1>6, <1>9
      <4> QED BY <4>1, <3>2
    <3> QED BY <3>1, <3>2
  <2> HIDE DEF items, x
  <2> QED BY <2>1, <2>2, <2>3
<1>13. Taken(m, q)' = [obj |-> <<x>> \o c.obj, done |-> c.done, lost |-> {}]
  <2>1. Taken(m, q)' = [obj |-> [i \in 1..m |-> heap'[q[i]].item],
                        done |-> [u \in Decided' |-> IF th'[u].head = 0 THEN None ELSE heap'[th'[u].head].item],
                        lost |-> {}]
    BY DEF Taken
  <2>2. c.done = [u \in Decided |-> IF th[u].head = 0 THEN None ELSE heap[th[u].head].item]
    BY DEF Taken
  <2>3. \A u \in Decided : th'[u] = th[u] /\ th[u].head \in 0..Len(heap)
    BY <1>3, <1>4, <1>11 DEF Decided, ThreadsOK
  <2>4. \A u \in Decided : (IF th'[u].head = 0 THEN None ELSE heap'[th'[u].head].item)
                              = IF th[u].head = 0 THEN None ELSE heap[th[u].head].item
    BY <1>3, <1>6, <2>3
  <2> HIDE DEF c, x, m
  <2>5. [u \in Decided' |-> IF th'[u].head = 0 THEN None ELSE heap'[th'[u].head].item] = c.done
    BY <1>11, <2>2, <2>4
  <2> QED BY <2>1, <2>5, <1>12
<1>14. Taken(m, q)' \in L!Closure(lin', Calls')
  <2>1. t \in DOMAIN Calls /\ Calls[t].op = "push" /\ Calls[t].item = x
    BY DEF Calls, Calling
  <2> DEFINE r == [obj |-> <<x>> \o c.obj, res |-> Ok]
             a == [obj |-> r.obj, done |-> L!Put(c.done, t, r.res), lost |-> {}]
  <2> HIDE DEF c, x
  <2>2. r \in Line(c.obj, Calls[t])
    BY <2>1, LinePush
  <2>3. r.obj = <<x>> \o c.obj /\ r.res = Ok
    OBVIOUS
  <2> HIDE DEF r
  <2>4. a \in L!Executed(c, Calls, t)
    BY <1>12, <2>2, ExecutedOne
  <2>5. c \in L!Closure(lin, Calls)
    BY <1>2 DEF c
  <2>6. t \in DOMAIN Calls \ DOMAIN c.done
    BY <1>11, <1>12, <2>1
  <2>7. a \in L!Closure(lin, Calls)
    BY <2>4, <2>5, <2>6, <1>3, CallsFinite, ClosureClosed
  <2>8. a.lost = {} /\ a.obj = <<x>> \o c.obj /\ DOMAIN a.done = Decided \cup {t} /\ a.done[t] = Ok
        /\ \A u \in Decided : a.done[u] = c.done[u]
    BY <1>11, <1>12, <2>3 DEF L!Put
  <2>9. [u \in DOMAIN a.done \ {t} |-> a.done[u]] = c.done
    <3>1. c.done = [u \in Decided |-> c.done[u]]
      BY DEF c, Taken
    <3>2. DOMAIN a.done \ {t} = Decided
      BY <2>8, <1>11
    <3> HIDE DEF a
    <3> QED BY <2>8, <3>1, <3>2
  <2> HIDE DEF a
  <2>10. [obj |-> a.obj, done |-> [u \in DOMAIN a.done \ {t} |-> a.done[u]], lost |-> {}] \in L!Closure(lin', Calls')
    BY <2>7, <2>8, AnswerTaken DEF Calling
  <2> QED BY <2>8, <2>9, <2>10, <1>13
<1>15. Explained'
  <2>1. m \in 0..Len(heap')
    BY <1>2, <1>3, <1>6, <1>17
  <2> HIDE DEF m
  <2> QED BY <2>1, <1>9, <1>10, <1>14 DEF Explained
<1>16. QED BY <1>4, <1>7, <1>8, <1>15 DEF StackInv

\* The list begins as Preload.
LEMMA StackInit == Init => StackInv
<1> SUFFICES ASSUME Init PROVE StackInv
  OBVIOUS
<1>1. PICK n : n = Len(Preload)
  OBVIOUS
<1>2. n \in Nat /\ DOMAIN Preload = 1..n /\ Preload = [i \in 1..n |-> Preload[i]]
  BY <1>1, FifoAssumption DEF Init
<1>3. /\ heap = [i \in 1..n |-> Node(Preload[i], IF i = n THEN 0 ELSE i + 1)]
      /\ top = [head |-> IF n = 0 THEN 0 ELSE 1] /\ th = [t \in Threads |-> [pc |-> "idle"]]
      /\ lin = {[obj |-> Preload, done |-> <<>>, lost |-> {}]}
  BY <1>1 DEF Init, Idle, L!Fresh
<1>4. heap \in Seq(Range(heap)) /\ Len(heap) = n
  <2>1. heap \in [1..n -> Range(heap)]
    BY <1>3 DEF Range
  <2> QED BY <2>1, <1>2, FunctionIsSequence
<1>5. ASSUME NEW i \in 1..n
      PROVE  /\ DOMAIN heap[i] = {"item", "next", "retired"}
             /\ heap[i].item = Preload[i] /\ heap[i].retired = 0
             /\ heap[i].next = IF i = n THEN 0 ELSE i + 1
  BY <1>3 DEF Node
<1>6. \A t \in Threads : th[t].pc = "idle" /\ ~Retiring(t)
  BY <1>3 DEF Retiring
<1>7. ThreadsOK
  BY <1>3, <1>6 DEF ThreadsOK
<1>8. NodesOK
  BY <1>4, <1>5, <1>6 DEF NodesOK
<1>9. Within(lin, Calls)
  <2>1. DOMAIN <<>> = {}
    OBVIOUS
  <2> QED BY <1>3, <2>1 DEF Within
<1> DEFINE p == [i \in 1..n |-> i]
<1>10. p \in [1..n -> 1..Len(heap)] /\ n \in 0..Len(heap)
  BY <1>2, <1>4
<1>11. Chain(n, p)
  <2>1. DOMAIN top = {"head"} /\ top.head = IF n = 0 THEN 0 ELSE p[1]
    BY <1>2, <1>3
  <2>2. ASSUME NEW i \in 1..n PROVE heap[p[i]].next = IF i = n THEN 0 ELSE p[i + 1]
    BY <1>2, <1>5
  <2>3. \A i \in 1..n : heap[p[i]].retired = 0 /\ \A t \in Threads : Retiring(t) => th[t].head # p[i]
    BY <1>5, <1>6
  <2> QED BY <2>1, <2>2, <2>3, <1>2 DEF Chain
<1>12. Taken(n, p) = [obj |-> Preload, done |-> <<>>, lost |-> {}]
  <2>1. Decided = {}
    BY <1>6 DEF Decided
  <2>2. [t \in Decided |-> IF th[t].head = 0 THEN None ELSE heap[th[t].head].item] = <<>>
    BY <2>1
  <2>3. [i \in 1..n |-> heap[p[i]].item] = Preload
    BY <1>2, <1>5
  <2> QED BY <2>2, <2>3 DEF Taken
<1>13. Taken(n, p) \in L!Closure(lin, Calls)
  <2>1. lin \subseteq L!Closure(lin, Calls)
    BY <1>9, CallsFinite, ClosureClosed
  <2> QED BY <2>1, <1>3, <1>12
<1>14. Explained
  <2> HIDE DEF p
  <2> QED BY <1>10, <1>11, <1>13 DEF Explained
<1>15. QED BY <1>7, <1>8, <1>9, <1>14 DEF StackInv

LEMMA StackStep ==
  ASSUME StackInv, Next
  PROVE  StackInv'
<1>1. PICK t \in Threads : Push(t) \/ Pop(t)
  BY DEF Next
<1>2. ASSUME NEW op \in {"push", "pop"}, BeginOp(t, op) PROVE StackInv'
  <2>1. /\ th[t].pc = "idle" /\ heap' = heap /\ top' = top /\ lin' = lin
        /\ DOMAIN th' = Threads /\ \A u \in Threads : u # t => th'[u] = th[u]
        /\ DOMAIN th'[t] = {"pc", "head", "call"}
        /\ th'[t].pc = "swap" /\ th'[t].head = top.head /\ th'[t].call.op = op
    BY <1>2, BeginEffect
  <2>2. ~Retiring(t) /\ t \notin Decided
    BY <2>1 DEF Retiring, Decided
  <2> QED BY <2>1, <2>2, HeadRead
<1>3. ASSUME th[t].pc = "swap", SwapFails(t), th[t].call.op = "push" \/ th[t].head # 0 PROVE StackInv'
  <2>1. heap' = heap /\ top' = top /\ Step(t, [head |-> top.head]) /\ th[t].pc # "idle"
    BY <1>3 DEF SwapFails
  <2>2. /\ lin' = lin /\ DOMAIN th' = Threads /\ \A u \in Threads : u # t => th'[u] = th[u]
        /\ DOMAIN th'[t] = {"pc", "head", "call"} /\ th'[t].call = th[t].call
        /\ th'[t].pc = "swap" /\ th'[t].head = top.head
    BY <1>3, <2>1, StepEffect
  <2>3. ~Retiring(t) /\ t \notin Decided /\ th'[t].call.op \in {"push", "pop"}
    BY <1>3, <2>2 DEF Retiring, Decided, StackInv, ThreadsOK
  <2> QED BY <2>1, <2>2, <2>3, HeadRead
<1>4. CASE Push(t)
  <2>1. \/ BeginOp(t, "push")
        \/ Calling(t, "push") /\ th[t].pc = "swap" /\ SwapFails(t)
        \/ /\ Calling(t, "push") /\ th[t].pc = "swap" /\ top.head = th[t].head
           /\ heap' = Append(heap, Node(th[t].call.item, th[t].head))
           /\ top' = [top EXCEPT !.head = Len(heap')] /\ Answer(t, Ok)
    BY <1>4 DEF Push
  <2> QED BY <2>1, <1>2, <1>3, PushSwaps DEF Calling
<1>5. CASE Pop(t)
  <2>1. \/ BeginOp(t, "pop")
        \/ /\ Calling(t, "pop") /\ th[t].pc = "swap" /\ th[t].head = 0
           /\ Answer(t, None) /\ heap' = heap /\ top' = top
        \/ Calling(t, "pop") /\ th[t].pc = "swap" /\ th[t].head # 0 /\ SwapFails(t)
        \/ /\ Calling(t, "pop") /\ th[t].pc = "swap" /\ th[t].head # 0 /\ top.head = th[t].head
           /\ top' = [top EXCEPT !.head = heap[th[t].head].next]
           /\ Step(t, [pc |-> "retire"]) /\ heap' = heap
        \/ /\ Calling(t, "pop") /\ th[t].pc = "retire"
           /\ heap' = [heap EXCEPT ![th[t].head].retired = @ + 1]
           /\ Answer(t, heap[th[t].head].item) /\ top' = top
    BY <1>5 DEF Pop
  <2> QED BY <2>1, <1>2, <1>3, PopNothing, PopSwaps, PopRetires
<1>6. QED BY <1>1, <1>4, <1>5

LEMMA StackStutter ==
  ASSUME StackInv, UNCHANGED fifoVars
  PROVE  StackInv'
<1>1. top' = top /\ heap' = heap /\ th' = th /\ lin' = lin
  BY DEF fifoVars
<1>2. ThreadsOK' /\ NodesOK'
  BY <1>1 DEF StackInv, ThreadsOK, NodesOK, Retiring
<1>3. Calls' = Calls /\ Within(lin', Calls')
  BY <1>1 DEF StackInv, Calls
<1>4. Explained'
  <2>1. PICK n \in 0..Len(heap) : \E p \in [1..n -> 1..Len(heap)] :
          Chain(n, p) /\ Taken(n, p) \in L!Closure(lin, Calls)
    BY DEF StackInv, Explained
  <2>2. PICK p \in [1..n -> 1..Len(heap)] : Chain(n, p) /\ Taken(n, p) \in L!Closure(lin, Calls)
    BY <2>1
  <2>3. Chain(n, p)'
    BY <1>1, <2>2 DEF Chain, Retiring
  <2>4. Taken(n, p)' = Taken(n, p)
    BY <1>1 DEF Taken, Decided, Retiring
  <2>5. L!Closure(lin', Calls') = L!Closure(lin, Calls)
    BY <1>1, <1>3
  <2> QED BY <1>1, <2>2, <2>3, <2>4, <2>5 DEF Explained
<1>5. QED BY <1>2, <1>3, <1>4 DEF StackInv

\* llstack.c: at every step of every push and pop, the nodes from the head on are a
\* list without repetition, no thread is about to retire one of them, and one of the
\* executions that explain the answers takes each call at its compare-and-swap of the
\* head, or at the read that found the stack empty.
THEOREM StackInvariance == Spec => []StackInv
<1>1. Init => StackInv
  BY StackInit
<1>2. StackInv /\ [Next]_fifoVars => StackInv'
  BY StackStep, StackStutter
<1>3. QED BY <1>1, <1>2, PTL DEF Spec

\* Nothing explains what no execution explains.
LEMMA ClosureEmpty ==
  ASSUME NEW calls, IsFiniteSet(DOMAIN calls)
  PROVE  L!Closure({}, calls) = {}
<1> DEFINE n == Cardinality(DOMAIN calls)
           layer == L!Layers({}, calls)
           S == {m \in 0..n : layer[m] = {}}
<1>1. /\ n \in Nat /\ layer[0] = {} /\ L!Closure({}, calls) = layer[n]
      /\ \A m \in 1..n : layer[m] = L!Spread(layer[m - 1], calls)
  BY LayersStep
<1> HIDE DEF n, layer
<1>2. 0 \in S
  BY <1>1
<1>3. ASSUME NEW m \in 1..n, m - 1 \in S PROVE m \in S
  <2>1. layer[m] = L!Spread({}, calls)
    BY <1>1, <1>3
  <2> QED BY <2>1 DEF L!Spread
<1>4. n \in S
  <2> HIDE DEF S
  <2>1. n \in 0..n
    BY <1>1
  <2> QED BY <2>1, <1>1, <1>2, <1>3, UpTo
<1>5. QED BY <1>4, <1>1

\* llstack.c: whatever swaps of the head fail and are tried again, the answers of all
\* pushes and pops are those of a sequential stack that takes each call between its
\* beginning and its end.
THEOREM StackLinearizable == Spec => []Linearizable
<1>1. StackInv => Linearizable
  <2> SUFFICES ASSUME StackInv, lin = {} PROVE FALSE
    BY DEF Linearizable
  <2>1. L!Closure(lin, Calls) = {}
    BY CallsFinite, ClosureEmpty
  <2> QED BY <2>1 DEF StackInv, Explained
<1>2. QED BY <1>1, StackInvariance, PTL

\* llstack.c: of the threads that race to pop a node only the one whose swap succeeds
\* hands it to mmm_retire, once.
THEOREM StackRetiresOnce == Spec => []BlocksRetiredOnce
<1>1. StackInv => BlocksRetiredOnce
  <2> SUFFICES ASSUME StackInv PROVE BlocksRetiredOnce
    OBVIOUS
  <2>1. DOMAIN heap = 1..Len(heap) /\ NodesOK
    BY TheChain DEF StackInv
  <2> QED BY <2>1 DEF NodesOK, BlocksRetiredOnce
<1>2. QED BY <1>1, StackInvariance, PTL
-----------------------------------------------------------------------------
(* hihat.  The round of a probe visits every bucket once.                  *)

CONSTANTS Keys, MinSize, MaxStores
Hi == INSTANCE HiHat

LEMMA DivMod ==
  ASSUME NEW a \in Nat, NEW n \in Nat \ {0}
  PROVE  a % n \in 0..(n - 1) /\ \E q \in Nat : a = n * q + (a % n)
<1>1. a % n \in 0..(n - 1)
  OBVIOUS
<1>2. a = n * (a \div n) + (a % n) /\ a \div n \in Nat
  OBVIOUS
<1> QED BY <1>1, <1>2

\* No other multiple of n is as close to 0.
LEMMA Multiple ==
  ASSUME NEW n \in Nat \ {0}, NEW p \in Int, NEW d \in Int, d = n * p, -n < d, d < n
  PROVE  d = 0
<1>1. CASE p >= 1
  <2>1. n * p >= n
    BY <1>1
  <2> QED BY <2>1
<1>2. CASE p <= -1
  <2>1. n * p <= -n
    BY <1>2
  <2> QED BY <2>1
<1>3. CASE p = 0
  BY <1>3
<1> QED BY <1>1, <1>2, <1>3

LEMMA RoundInjective ==
  ASSUME NEW n \in Nat \ {0}, NEW k \in Nat, NEW i \in 0..(n - 1), NEW j \in 0..(n - 1), (k + i) % n = (k + j) % n
  PROVE  i = j
<1>0. k + i \in Nat /\ k + j \in Nat
  OBVIOUS
<1>1. PICK p \in Nat : k + i = n * p + ((k + i) % n)
  BY <1>0, DivMod
<1>2. PICK q \in Nat : k + j = n * q + ((k + j) % n)
  BY <1>0, DivMod
<1>3. (k + i) % n \in Int
  BY <1>0, DivMod
<1>4. i - j = n * p - n * q
  BY <1>1, <1>2, <1>3
<1>5. n * p - n * q = n * (p - q)
  OBVIOUS
<1>6. i - j = n * (p - q) /\ i - j \in Int /\ p - q \in Int /\ -n < i - j /\ i - j < n
  BY <1>4, <1>5
<1> QED BY <1>6, Multiple

LEMMA RoundComplete ==
  ASSUME NEW n \in Nat \ {0}, NEW k \in Nat, NEW b \in 0..(n - 1)
  PROVE  \E i \in 0..(n - 1) : (k + i) % n = b
<1> DEFINE r == k % n
<1>1. PICK q \in Nat : k = n * q + r
  BY DivMod
<1>2. r \in 0..(n - 1)
  BY DivMod
<1> HIDE DEF r
<1>3. \A c \in Nat : (n * c + b) % n = b
  <2> SUFFICES ASSUME NEW c \in Nat PROVE (n * c + b) % n = b
    OBVIOUS
  <2>1. n * c \in Nat /\ n * c + b \in Nat
    OBVIOUS
  <2> DEFINE a == n * c + b
             m == a % n
  <2>2. PICK d \in Nat : a = n * d + m
    BY <2>1, DivMod
  <2>3. m \in 0..(n - 1)
    BY <2>1, DivMod
  <2> HIDE DEF m
  <2>4. n * d - n * c = n * (d - c) /\ d - c \in Int
    OBVIOUS
  <2>5. n * d \in Int /\ n * c \in Int
    OBVIOUS
  <2>6. b - m = n * (d - c) /\ b - m \in Int /\ -n < b - m /\ b - m < n
    BY <2>2, <2>3, <2>4, <2>5
  <2>7. b - m = 0
    BY <2>4, <2>6, Multiple
  <2>8. m = b
    BY <2>3, <2>7
  <2> QED BY <2>8 DEF m
<1>4. CASE b >= r
  <2>1. b - r \in 0..(n - 1) /\ k + (b - r) = n * q + b
    BY <1>1, <1>2, <1>4
  <2> QED BY <2>1, <1>3
<1>5. CASE b < r
  <2>1. (b + n) - r \in 0..(n - 1)
    BY <1>2, <1>5
  <2>2. n * (q + 1) = n * q + n /\ q + 1 \in Nat /\ n * q \in Nat
    OBVIOUS
  <2>3. k + ((b + n) - r) = n * (q + 1) + b
    BY <2>2, <1>1, <1>2
  <2> QED BY <2>1, <2>2, <2>3, <1>3
<1> QED BY <1>4, <1>5, <1>2

-----------------------------------------------------------------------------
\* Along the way to the bucket of a key every bucket belongs to another one.
Probed(hv, n) ==
  \A k \in Nat \ {0} : \A i, j \in 0..(n - 1) :
    i < j /\ hv[(k + j) % n] = k => hv[(k + i) % n] \notin {0, k}

HashesOK(hv, n) == n \in Nat \ {0} /\ hv \in [0..(n - 1) -> Nat] /\ Probed(hv, n)

LEMMA EmptyProbed ==
  ASSUME NEW n \in Nat \ {0}
  PROVE  HashesOK([b \in 0..(n - 1) |-> 0], n)
<1>1. \A k \in Nat, i \in 0..(n - 1) : k + i \in Nat
  OBVIOUS
<1>2. \A k \in Nat, i \in 0..(n - 1) : (k + i) % n \in 0..(n - 1)
  BY <1>1, DivMod
<1> QED BY <1>2 DEF HashesOK, Probed

LEMMA ProbedUnique ==
  ASSUME NEW hv, NEW n, HashesOK(hv, n), NEW b \in 0..(n - 1), NEW c \in 0..(n - 1), b # c, hv[b] # 0
  PROVE  hv[b] # hv[c]
<1> SUFFICES ASSUME hv[b] = hv[c] PROVE FALSE
  OBVIOUS
<1>1. n \in Nat \ {0} /\ hv[b] \in Nat \ {0} /\ Probed(hv, n)
  BY DEF HashesOK
<1>2. PICK k \in Nat \ {0} : k = hv[b]
  BY <1>1
<1>3. PICK i \in 0..(n - 1) : (k + i) % n = b
  BY <1>1, RoundComplete
<1>4. PICK j \in 0..(n - 1) : (k + j) % n = c
  BY <1>1, RoundComplete
<1>5. i # j
  BY <1>3, <1>4
<1>6. CASE i < j
  BY <1>1, <1>2, <1>3, <1>4, <1>6 DEF Probed
<1>7. CASE j < i
  BY <1>1, <1>2, <1>3, <1>4, <1>7 DEF Probed
<1> QED BY <1>1, <1>5, <1>6, <1>7

\* A key may take the first bucket of its round that is free or its own.
LEMMA ProbedWrite ==
  ASSUME NEW hv, NEW n, HashesOK(hv, n), NEW k \in Nat, NEW m \in 0..(n - 1), hv[(k + m) % n] \in {0, k},
         \A i \in 0..(n - 1) : i < m => hv[(k + i) % n] \notin {0, k}
  PROVE  (k + m) % n \in 0..(n - 1) /\ HashesOK([hv EXCEPT ![(k + m) % n] = k], n)
<1>1. n \in Nat \ {0} /\ hv \in [0..(n - 1) -> Nat] /\ Probed(hv, n)
  BY DEF HashesOK
<1>2. \A x \in Nat, i \in 0..(n - 1) : (x + i) % n \in 0..(n - 1)
  <2>1. \A x \in Nat, i \in 0..(n - 1) : x + i \in Nat
    BY <1>1
  <2> QED BY <1>1, <2>1, DivMod
<1> DEFINE w == (k + m) % n
           new == [hv EXCEPT ![w] = k]
<1>3. w \in 0..(n - 1)
  BY <1>2
<1>4. new \in [0..(n - 1) -> Nat] /\ new[w] = k /\ \A b \in 0..(n - 1) : b # w => new[b] = hv[b]
  <2> HIDE DEF w
  <2> QED BY <1>1, <1>3
<1>5. ASSUME NEW x \in Nat \ {0}, NEW i \in 0..(n - 1), NEW j \in 0..(n - 1), i < j, new[(x + j) % n] = x
      PROVE  new[(x + i) % n] \notin {0, x}
  <2>1. (x + i) % n \in 0..(n - 1) /\ (x + j) % n \in 0..(n - 1)
    BY <1>2
  <2>2. (x + i) % n # (x + j) % n
    <3>1. i # j
      BY <1>1, <1>5
    <3> QED BY <1>1, <3>1, RoundInjective
  <2> HIDE DEF new
  <2>3. CASE (x + j) % n = w
    <3>1. x = k
      BY <1>4, <1>5, <2>3
    <3>2. j = m
      BY <3>1, <2>3, <1>1, RoundInjective
    <3>3. hv[(x + i) % n] \notin {0, x}
      BY <1>5, <3>1, <3>2
    <3> HIDE DEF w
    <3> QED BY <3>3, <2>1, <2>2, <2>3, <1>4
  <2>4. CASE (x + j) % n # w
    <3>1. hv[(x + j) % n] = x
      <4> HIDE DEF w
      <4> QED BY <1>4, <1>5, <2>1, <2>4
    <3>2. hv[(x + i) % n] \notin {0, x}
      BY <3>1, <1>1, <1>5 DEF Probed
    <3>3. CASE (x + i) % n = w
      <4>1. hv[w] \in {0, k} /\ hv[w] \notin {0, x}
        BY <3>2, <3>3
      <4> HIDE DEF w
      <4> QED BY <4>1, <3>3, <1>4
    <3>4. CASE (x + i) % n # w
      <4> HIDE DEF w
      <4> QED BY <3>2, <3>4, <2>1, <1>4
    <3> QED BY <3>3, <3>4
  <2> QED BY <2>3, <2>4
<1>6. Probed(new, n)
  <2> HIDE DEF new
  <2> QED BY <1>5 DEF Probed
<1> HIDE DEF new, w
<1>7. HashesOK(new, n) /\ w \in 0..(n - 1)
  BY <1>1, <1>3, <1>4, <1>6 DEF HashesOK
<1> QED BY <1>7 DEF new, w
-----------------------------------------------------------------------------
LEMMA MinIs ==
  ASSUME NEW S, S \subseteq Nat, S # {}
  PROVE  Hi!Min(S) \in S /\ Hi!Min(S) \in Nat /\ \A y \in S : Hi!Min(S) <= y
<1>1. \E x \in S : \A y \in S : x <= y
  BY LeastNumber
<1> QED BY <1>1 DEF Hi!Min

LEMMA SlotsCount ==
  ASSUME NEW n \in Nat
  PROVE  IsFiniteSet(0..(n - 1)) /\ Cardinality(0..(n - 1)) = n
<1>1. 0 \in Int /\ n - 1 \in Int
  OBVIOUS
<1>2. IsFiniteSet(0..(n - 1)) /\ Cardinality(0..(n - 1)) = IF 0 > n - 1 THEN 0 ELSE (n - 1) - 0 + 1
  BY <1>1, FS_Interval
<1> QED BY <1>2

LEMMA HatCardinality == \A S : Hi!Cardinality(S) = Cardinality(S)
<1> TAKE S
<1> QED BY DEF Hi!Cardinality, Cardinality, Hi!IsFiniteSet, IsFiniteSet

LEMMA HatConstantsAre ==
  ASSUME Hi!HatConstants
  PROVE  /\ MinSize \in Nat \ {0} /\ Keys \subseteq Nat \ {0}
         /\ Preload \in Seq(Range(Preload)) /\ Hi!KeysOf(Preload) \subseteq Keys
         /\ Cardinality(Hi!KeysOf(Preload)) <= MinSize
         /\ \A w \in Workloads :
              /\ DOMAIN w = Threads
              /\ \A t \in Threads :
                   /\ w[t] \in Seq(Range(w[t]))
                   /\ \A n \in 1..Len(w[t]) : w[t][n].op \notin {"scan", "view"} => w[t][n].key \in Keys
<1>1. \A s : Hi!Range(s) = Range(s)
  BY DEF Hi!Range, Range
<1>2. Hi!Cardinality(Hi!KeysOf(Preload)) = Cardinality(Hi!KeysOf(Preload))
  BY HatCardinality
<1> QED BY <1>1, <1>2, Zenon DEF Hi!HatConstants

LEMMA PreloadKeysFinite ==
  ASSUME Hi!HatConstants
  PROVE  IsFiniteSet(Hi!KeysOf(Preload))
<1> DEFINE f == [j \in 1..Len(Preload) |-> Preload[j][1]]
<1>1. Len(Preload) \in Nat
  BY HatConstantsAre
<1>2. f \in [1..Len(Preload) -> Hi!KeysOf(Preload)] /\ \A k \in Hi!KeysOf(Preload) : \E j \in 1..Len(Preload) : f[j] = k
  BY DEF Hi!KeysOf
<1>3. f \in Surjection(1..Len(Preload), Hi!KeysOf(Preload))
  <2> HIDE DEF f
  <2> QED BY <1>2 DEF Surjection
<1>4. IsFiniteSet(1..Len(Preload))
  BY <1>1, FS_Interval
<1> HIDE DEF f
<1> QED BY <1>3, <1>4, FS_Surjection

\* A put into the hash values.
LEMMA PlaceIs ==
  ASSUME NEW hv, NEW n, NEW k
  PROVE  Hi!Place(hv, n, k) =
           [hv EXCEPT ![(k + Hi!Min({j \in 0..(n - 1) : hv[(k + j) % n] \in {0, k}})) % n] = k]
<1> DEFINE e == [hv EXCEPT ![(k + Hi!Min({j \in 0..(n - 1) : hv[(k + j) % n] \in {0, k}})) % n] = k]
<1>1. Hi!Place(hv, n, k) = CHOOSE new \in {e} : TRUE
  <2>1. {[h EXCEPT ![(k + Hi!Min({j \in 0..(n - 1) : h[(k + j) % n] \in {0, k}})) % n] = k] : h \in {hv}} = {e}
    BY Zenon
  <2> QED BY <2>1, Zenon DEF Hi!Place
<1> HIDE DEF e
<1>2. Hi!Place(hv, n, k) = e
  BY <1>1
<1> QED BY <1>2 DEF e

\* It keeps the way to every key, if there is room.
LEMMA PlaceProbed ==
  ASSUME NEW hv, NEW n, HashesOK(hv, n), NEW k \in Nat,
         {j \in 0..(n - 1) : hv[(k + j) % n] \in {0, k}} # {}
  PROVE  /\ HashesOK(Hi!Place(hv, n, k), n)
         /\ \A b \in 0..(n - 1) : Hi!Place(hv, n, k)[b] \in {hv[b], k}
<1> DEFINE stops == {j \in 0..(n - 1) : hv[(k + j) % n] \in {0, k}}
           m == Hi!Min(stops)
<1>1. n \in Nat \ {0} /\ hv \in [0..(n - 1) -> Nat]
  BY DEF HashesOK
<1>2. stops \subseteq Nat /\ stops # {}
  BY <1>1
<1>3. m \in stops /\ \A y \in stops : m <= y
  <2> HIDE DEF stops
  <2> QED BY <1>2, MinIs
<1>4. Hi!Place(hv, n, k) = [hv EXCEPT ![(k + m) % n] = k]
  BY PlaceIs
<1> HIDE DEF m
<1>5. m \in 0..(n - 1) /\ hv[(k + m) % n] \in {0, k}
      /\ \A i \in 0..(n - 1) : i < m => hv[(k + i) % n] \notin {0, k}
  <2>1. \A i \in 0..(n - 1) : i \in stops <=> hv[(k + i) % n] \in {0, k}
    OBVIOUS
  <2>2. stops \subseteq 0..(n - 1)
    OBVIOUS
  <2>3. \A i \in 0..(n - 1) : i < m => i \notin stops
    <3> HIDE DEF stops
    <3> QED BY <1>1, <1>3, <2>2
  <2> HIDE DEF stops
  <2> QED BY <1>3, <2>1, <2>2, <2>3
<1>6. (k + m) % n \in 0..(n - 1) /\ HashesOK([hv EXCEPT ![(k + m) % n] = k], n)
  BY <1>5, ProbedWrite
<1> QED BY <1>1, <1>4, <1>6

\* f is a solution of the recursive definition of Placed.
Filling(f, n) ==
  f = [i \in 0..n |-> IF i = 0 THEN [b \in 0..(MinSize - 1) |-> 0] ELSE Hi!Place(f[i - 1], MinSize, Preload[i][1])]

LEMMA FillingExists ==
  ASSUME NEW n \in Nat
  PROVE  \E f : Filling(f, n)
<1> DEFINE none == [b \in 0..(MinSize - 1) |-> 0]
           Fits(f, m) == f = [i \in 0..m |-> IF i = 0 THEN none ELSE Hi!Place(f[i - 1], MinSize, Preload[i][1])]
           bad == {m \in Nat : ~\E f : Fits(f, m)}
<1> HIDE DEF none
<1>1. SUFFICES ASSUME bad # {} PROVE FALSE
  BY DEF Filling, none
<1>2. PICK m \in bad : \A k \in bad : m <= k
  <2> HIDE DEF bad
  <2>1. bad \subseteq Nat BY DEF bad
  <2> QED BY <1>1, <2>1, LeastNumber
<1>3. CASE m = 0
  <2>1. Fits([i \in 0..0 |-> none], 0)
    OBVIOUS
  <2> QED BY <1>2, <1>3, <2>1
<1>4. CASE m # 0
  <2>1. m - 1 \in Nat /\ m - 1 \notin bad
    BY <1>2, <1>4
  <2>2. PICK f : Fits(f, m - 1)
    BY <2>1
  <2> DEFINE g == [i \in 0..m |-> IF i = m THEN Hi!Place(f[m - 1], MinSize, Preload[m][1]) ELSE f[i]]
  <2>3. ASSUME NEW i \in 0..m PROVE g[i] = IF i = 0 THEN none ELSE Hi!Place(g[i - 1], MinSize, Preload[i][1])
    <3>1. CASE i = m
      BY <3>1, <1>4, <2>1
    <3>2. CASE i # m
      <4>1. i \in 0..(m - 1)
        BY <3>2, <2>1
      <4>2. f[i] = IF i = 0 THEN none ELSE Hi!Place(f[i - 1], MinSize, Preload[i][1])
        BY <2>2, <4>1
      <4>3. i # 0 => i - 1 \in 0..m /\ i - 1 # m
        BY <4>1, <2>1
      <4> QED BY <4>1, <4>2, <4>3, <3>2
    <3> QED BY <3>1, <3>2
  <2>4. Fits(g, m)
    BY <2>3
  <2> QED BY <2>4, <1>2
<1>5. QED BY <1>3, <1>4

\* The first store, after the puts of Preload.
LEMMA PlacedProbed ==
  ASSUME Hi!HatConstants
  PROVE  HashesOK(Hi!Placed(MinSize, Preload), MinSize)
<1>1. Len(Preload) \in Nat /\ MinSize \in Nat \ {0} /\ Keys \subseteq Nat \ {0}
  BY HatConstantsAre
<1> DEFINE n == MinSize
           z == Len(Preload)
<1>2. PICK f : Filling(f, z) /\ Hi!Placed(n, Preload) = f[z]
  <2> DEFINE g == CHOOSE h : Filling(h, z)
  <2>1. Hi!Placed(n, Preload) = g[z]
    BY DEF Hi!Placed, Filling
  <2>2. \E h : Filling(h, z)
    BY <1>1, FillingExists
  <2>3. Filling(g, z)
    BY <2>2, Zenon
  <2> QED BY <2>1, <2>3
<1> HIDE DEF n, z
<1>3. f[0] = [b \in 0..(n - 1) |-> 0] /\ \A i \in 1..z : f[i] = Hi!Place(f[i - 1], n, Preload[i][1])
  <2> DEFINE none == [b \in 0..(n - 1) |-> 0]
  <2>1. f = [i \in 0..z |-> IF i = 0 THEN none ELSE Hi!Place(f[i - 1], n, Preload[i][1])]
    BY <1>2 DEF Filling, n
  <2>2. z \in Nat
    BY <1>1 DEF z
  <2> HIDE DEF none
  <2>3. f[0] = none /\ \A i \in 1..z : f[i] = Hi!Place(f[i - 1], n, Preload[i][1])
    <3>1. \A i \in 0..z : f[i] = IF i = 0 THEN none ELSE Hi!Place(f[i - 1], n, Preload[i][1])
      <4> DEFINE E(i) == IF i = 0 THEN none ELSE Hi!Place(f[i - 1], n, Preload[i][1])
      <4>1. f = [i \in 0..z |-> E(i)]
        BY <2>1
      <4> HIDE DEF E
      <4>2. \A i \in 0..z : f[i] = E(i)
        BY <4>1
      <4> QED BY <4>2 DEF E
    <3>2. 0 \in 0..z /\ \A i \in 1..z : i \in 0..z /\ i # 0
      BY <2>2
    <3> QED BY <3>1, <3>2
  <2> QED BY <2>3 DEF none
<1> DEFINE S == {i \in 0..z : HashesOK(f[i], n) /\ \A b \in 0..(n - 1) : f[i][b] = 0 \/ f[i][b] \in Hi!KeysOf(Preload)}
<1>4. 0 \in S
  BY <1>1, <1>3, EmptyProbed DEF n, z
<1>5. ASSUME NEW i \in 1..z, i - 1 \in S PROVE i \in S
  <2> DEFINE hv == f[i - 1]
             k == Preload[i][1]
             stops == {j \in 0..(n - 1) : hv[(k + j) % n] \in {0, k}}
  <2>1. HashesOK(hv, n) /\ \A b \in 0..(n - 1) : hv[b] = 0 \/ hv[b] \in Hi!KeysOf(Preload)
    BY <1>5
  <2>2. k \in Hi!KeysOf(Preload) /\ k \in Nat /\ k # 0
    <3>1. k \in Hi!KeysOf(Preload)
      BY DEF Hi!KeysOf, z
    <3> QED BY <3>1, <1>1, HatConstantsAre
  <2> HIDE DEF hv, k
  <2>3. stops # {}
    <3> SUFFICES ASSUME stops = {} PROVE FALSE
      OBVIOUS
    <3>1. \A b \in 0..(n - 1) : hv[b] \notin {0, k}
      <4> SUFFICES ASSUME NEW b \in 0..(n - 1) PROVE hv[b] \notin {0, k}
        OBVIOUS
      <4>1. PICK j \in 0..(n - 1) : (k + j) % n = b
        BY <1>1, <2>2, RoundComplete DEF n
      <4> QED BY <4>1
    <3> DEFINE T == Hi!KeysOf(Preload) \ {k}
    <3>2. hv \in [0..(n - 1) -> T]
      BY <3>1, <2>1 DEF HashesOK
    <3>3. /\ IsFiniteSet(T) /\ Cardinality(T) = Cardinality(Hi!KeysOf(Preload)) - 1
          /\ Cardinality(Hi!KeysOf(Preload)) \in Nat
      BY <2>2, PreloadKeysFinite, FS_RemoveElement, FS_CardinalityType
    <3>4. IsFiniteSet(0..(n - 1)) /\ Cardinality(0..(n - 1)) = n
      BY <1>1, SlotsCount DEF n
    <3>5. Cardinality(T) < Cardinality(0..(n - 1))
      BY <1>1, <3>3, <3>4, HatConstantsAre DEF n
    <3> HIDE DEF T
    <3>6. \E x, y \in 0..(n - 1) : x # y /\ hv[x] = hv[y]
      <4> DEFINE I == 0..(n - 1)
      <4>1. IsFiniteSet(I) /\ IsFiniteSet(T) /\ Cardinality(T) < Cardinality(I) /\ hv \in [I -> T]
        BY <3>2, <3>3, <3>4, <3>5
      <4> HIDE DEF I
      <4>2. \E x, y \in I : x # y /\ hv[x] = hv[y]
        BY <4>1, FS_PigeonHole
      <4> QED BY <4>2 DEF I
    <3> QED BY <3>1, <3>6, <2>1, ProbedUnique
  <2>4. HashesOK(Hi!Place(hv, n, k), n) /\ \A b \in 0..(n - 1) : Hi!Place(hv, n, k)[b] \in {hv[b], k}
    BY <2>1, <2>2, <2>3, PlaceProbed
  <2>5. f[i] = Hi!Place(hv, n, k)
    BY <1>3 DEF hv, k
  <2> QED BY <2>1, <2>2, <2>4, <2>5
<1>6. z \in S
  <2> HIDE DEF S
  <2>1. z \in Nat /\ z \in 0..z
    BY <1>1 DEF z
  <2> QED BY <2>1, <1>4, <1>5, UpTo
<1> QED BY <1>2, <1>6 DEF n
-----------------------------------------------------------------------------
\* A thread that moves buckets into the next store, or is about to install it.
Moving == {"move", "move record", "moved", "install"}

\* A thread works on the current store or on one before it, and moves to the one after that.
HatThread(t) ==
  /\ {"pc", "call", "st", "ns", "i", "then"} \subseteq DOMAIN th[t]
  /\ th[t].then = "probe" /\ th[t].i \in Nat
  /\ th[t].st \in 1..top.current
  /\ th[t].call.op \notin {"scan", "view"} => th[t].call.key \in Nat
  /\ th[t].pc \in Moving => th[t].ns = th[t].st + 1 /\ th[t].ns <= Len(heap)

HatThreads ==
  /\ DOMAIN th = Threads
  /\ \A t \in Threads : th[t].pc # "idle" => HatThread(t)

HatTodo ==
  /\ DOMAIN todo = Threads
  /\ \A t \in Threads :
       /\ todo[t] \in Seq(Range(todo[t]))
       /\ \A n \in 1..Len(todo[t]) : todo[t][n].op \notin {"scan", "view"} => todo[t][n].key \in Nat

StoreOK(st) ==
  /\ DOMAIN st = {"hv", "rec", "used", "next", "retired"}
  /\ \E n \in Nat \ {0} : HashesOK(st.hv, n)

\* The stores are a chain; those before the current one are retired, and there is at most
\* one after it.
HatStores ==
  /\ "current" \in DOMAIN top /\ heap \in Seq(Range(heap))
  /\ top.current \in 1..Len(heap) /\ Len(heap) <= top.current + 1
  /\ \A s \in 1..Len(heap) :
       /\ StoreOK(heap[s])
       /\ heap[s].next = IF s = Len(heap) THEN 0 ELSE s + 1
       /\ heap[s].retired = IF s < top.current THEN 1 ELSE 0

HatInv == HatStores /\ HatThreads /\ HatTodo
-----------------------------------------------------------------------------
(* Steps of one thread, and what they leave alone.                         *)

\* Only thread t changes, and it is well.
Goes(t) ==
  /\ DOMAIN th' = Threads /\ \A u \in Threads : u # t => th'[u] = th[u]
  /\ th'[t].pc # "idle" => HatThread(t)'

\* The stores and what is current only grow.
Grows == top'.current \in Nat /\ top'.current >= top.current /\ Len(heap') \in Nat /\ Len(heap') >= Len(heap)

SameStores ==
  /\ heap' \in Seq(Range(heap')) /\ Len(heap') = Len(heap)
  /\ \A s \in 1..Len(heap) : /\ DOMAIN heap'[s] = DOMAIN heap[s] /\ heap'[s].hv = heap[s].hv
                             /\ heap'[s].next = heap[s].next /\ heap'[s].retired = heap[s].retired

\* What is written once stays: the key of a reserved bucket, the link to the next store;
\* and no older store becomes current again.
WrittenOnce ==
  /\ top'.current >= top.current
  /\ \A s \in 1..Len(heap) :
       /\ s \in 1..Len(heap')
       /\ heap[s].next # 0 => heap'[s].next = heap[s].next
       /\ \A b \in DOMAIN heap[s].hv : heap[s].hv[b] # 0 => heap'[s].hv[b] = heap[s].hv[b]

LEMMA HeapIs ==
  ASSUME HatInv
  PROVE  /\ Len(heap) \in Nat /\ DOMAIN heap = 1..Len(heap) /\ top.current \in 1..Len(heap)
         /\ \A t \in Threads : th[t].pc # "idle" => th[t].st \in 1..Len(heap)
<1>1. Len(heap) \in Nat /\ DOMAIN heap = 1..Len(heap) /\ top.current \in 1..Len(heap)
  BY SequenceFacts DEF HatInv, HatStores
<1> QED BY <1>1 DEF HatInv, HatThreads, HatThread

LEMMA ThreadsGo ==
  ASSUME HatInv, NEW t \in Threads, Goes(t), Grows
  PROVE  HatThreads'
<1>1. ASSUME NEW u \in Threads, u # t, th'[u].pc # "idle" PROVE HatThread(u)'
  <2>1. th'[u] = th[u] /\ HatThread(u)
    BY <1>1 DEF Goes, HatInv, HatThreads
  <2>2. top.current \in Nat /\ Len(heap) \in Nat
    BY HeapIs
  <2> QED BY <2>1, <2>2 DEF HatThread, Grows
<1> QED BY <1>1 DEF Goes, HatThreads

\* A call ends.
LEMMA EndGoes ==
  ASSUME HatInv, NEW t \in Threads, th' = [th EXCEPT ![t] = Hi!Idle]
  PROVE  Goes(t)
  BY DEF Goes, HatInv, HatThreads, Hi!Idle

\* A call goes on.
LEMMA StepGoes ==
  ASSUME HatInv, NEW t \in Threads, th[t].pc # "idle", Grows, NEW upd, Hi!Go(t, upd),
         DOMAIN upd \cap {"call", "then", "st", "ns"} = {},
         "i" \in DOMAIN upd => upd.i \in Nat,
         th[t].pc \notin Moving /\ "pc" \in DOMAIN upd => upd.pc \notin Moving
  PROVE  Goes(t)
<1>1. th' = [th EXCEPT ![t] = Hi!With(th[t], upd)] /\ DOMAIN th = Threads /\ HatThread(t)
  BY DEF Hi!Go, HatInv, HatThreads
<1>2. DOMAIN th' = Threads /\ (\A u \in Threads : u # t => th'[u] = th[u]) /\ th'[t] = Hi!With(th[t], upd)
  BY <1>1
<1>3. {"pc", "call", "st", "ns", "i", "then"} \subseteq DOMAIN th[t]
  BY <1>1 DEF HatThread
<1>4. /\ DOMAIN th'[t] = DOMAIN upd \cup DOMAIN th[t]
      /\ \A f \in DOMAIN upd \cup DOMAIN th[t] : th'[t][f] = IF f \in DOMAIN upd THEN upd[f] ELSE th[t][f]
  BY <1>2 DEF Hi!With
<1>5. th'[t].call = th[t].call /\ th'[t].then = th[t].then /\ th'[t].st = th[t].st /\ th'[t].ns = th[t].ns
  BY <1>3, <1>4
<1>6. th'[t].i \in Nat /\ (th'[t].pc \in Moving => th[t].pc \in Moving)
  BY <1>1, <1>3, <1>4 DEF HatThread
<1>7. top.current \in Nat /\ Len(heap) \in Nat
  BY HeapIs
<1>8. HatThread(t)'
  BY <1>1, <1>3, <1>4, <1>5, <1>6, <1>7 DEF HatThread, Grows
<1> QED BY <1>2, <1>8 DEF Goes

\* No key, no link and no retirement changes.
LEMMA QuietStep ==
  ASSUME HatInv, NEW t \in Threads, Goes(t), SameStores, todo' = todo,
         "current" \in DOMAIN top', top'.current = top.current
  PROVE  HatInv' /\ WrittenOnce
<1>1. HatStores'
  <2>1. \A s \in 1..Len(heap) : StoreOK(heap'[s])
    BY DEF HatInv, HatStores, SameStores, StoreOK
  <2>2. ASSUME NEW s \in 1..Len(heap')
        PROVE  /\ heap'[s].next = IF s = Len(heap') THEN 0 ELSE s + 1
               /\ heap'[s].retired = IF s < top'.current THEN 1 ELSE 0
    <3>1. Len(heap') = Len(heap) /\ heap'[s].next = heap[s].next /\ heap'[s].retired = heap[s].retired
      BY DEF SameStores
    <3>2. heap[s].next = (IF s = Len(heap) THEN 0 ELSE s + 1) /\ heap[s].retired = IF s < top.current THEN 1 ELSE 0
      BY <3>1 DEF HatInv, HatStores
    <3> QED BY <3>1, <3>2
  <2>3. heap' \in Seq(Range(heap')) /\ top'.current \in 1..Len(heap') /\ Len(heap') <= top'.current + 1
    BY DEF HatInv, HatStores, SameStores
  <2>4. \A s \in 1..Len(heap') : StoreOK(heap'[s])
    BY <2>1 DEF SameStores
  <2> QED BY <2>2, <2>3, <2>4 DEF HatStores
<1>2. Grows
  BY HeapIs DEF Grows, SameStores
<1>3. HatThreads'
  BY <1>2, ThreadsGo
<1>4. HatTodo'
  BY DEF HatInv, HatTodo
<1>5. WrittenOnce
  BY <1>2 DEF WrittenOnce, SameStores, Grows
<1> QED BY <1>1, <1>3, <1>4, <1>5 DEF HatInv

LEMMA SameGrows ==
  ASSUME HatInv, SameStores, top'.current = top.current
  PROVE  Grows
  BY HeapIs DEF Grows, SameStores

LEMMA NothingChanges ==
  ASSUME HatInv, heap' = heap, top' = top
  PROVE  SameStores /\ Grows /\ "current" \in DOMAIN top' /\ top'.current = top.current
<1>1. SameStores /\ "current" \in DOMAIN top'
  BY DEF SameStores, HatInv, HatStores
<1> QED BY <1>1, SameGrows

\* A record changes.
LEMMA RecordChanges ==
  ASSUME HatInv, NEW s \in 1..Len(heap), NEW new, heap' = [heap EXCEPT ![s].rec = new]
  PROVE  SameStores
<1>1. Len(heap) \in Nat /\ DOMAIN heap = 1..Len(heap) /\ heap \in Seq(Range(heap))
  BY HeapIs DEF HatInv, HatStores
<1>2. heap' \in [1..Len(heap) -> Range(heap')]
  BY <1>1 DEF Range
<1>3. heap' \in Seq(Range(heap')) /\ Len(heap') = Len(heap)
  BY <1>1, <1>2, FunctionIsSequence
<1>4. DOMAIN heap[s] = {"hv", "rec", "used", "next", "retired"}
  BY DEF HatInv, HatStores, StoreOK
<1>5. \A x \in 1..Len(heap) : heap'[x] = IF x = s THEN [heap[s] EXCEPT !.rec = new] ELSE heap[x]
  BY <1>1
<1> QED BY <1>3, <1>4, <1>5 DEF SameStores

LEMMA UsedChanges ==
  ASSUME HatInv, NEW s \in 1..Len(heap), NEW new, heap' = [heap EXCEPT ![s].used = new]
  PROVE  SameStores
<1>1. Len(heap) \in Nat /\ DOMAIN heap = 1..Len(heap) /\ heap \in Seq(Range(heap))
  BY HeapIs DEF HatInv, HatStores
<1>2. heap' \in [1..Len(heap) -> Range(heap')]
  BY <1>1 DEF Range
<1>3. heap' \in Seq(Range(heap')) /\ Len(heap') = Len(heap)
  BY <1>1, <1>2, FunctionIsSequence
<1>4. DOMAIN heap[s] = {"hv", "rec", "used", "next", "retired"}
  BY DEF HatInv, HatStores, StoreOK
<1>5. \A x \in 1..Len(heap) : heap'[x] = IF x = s THEN [heap[s] EXCEPT !.used = new] ELSE heap[x]
  BY <1>1
<1> QED BY <1>3, <1>4, <1>5 DEF SameStores
-----------------------------------------------------------------------------
(* Keys written into a store.                                              *)

LEMMA SizeIs ==
  ASSUME HatInv, NEW s \in 1..Len(heap)
  PROVE  HashesOK(heap[s].hv, Hi!Size(s)) /\ Hi!Size(s) \in Nat \ {0} /\ DOMAIN heap[s].hv = 0..(Hi!Size(s) - 1)
<1>1. PICK n \in Nat \ {0} : HashesOK(heap[s].hv, n)
  BY DEF HatInv, HatStores, StoreOK
<1>2. DOMAIN heap[s].hv = 0..(n - 1)
  BY <1>1 DEF HashesOK
<1>3. Hi!Size(s) = n
  <2>1. n \in Nat
    BY <1>1
  <2>2. Hi!Cardinality(0..(n - 1)) = Cardinality(0..(n - 1))
    BY HatCardinality
  <2> QED BY <1>2, <2>1, <2>2, SlotsCount DEF Hi!Size
<1> QED BY <1>1, <1>2, <1>3

\* Where a probe for k stops, k may be written.
LEMMA StopProbed ==
  ASSUME HatInv, NEW s \in 1..Len(heap), NEW k \in Nat, Hi!Stops(s, k) # {}
  PROVE  /\ HashesOK([heap[s].hv EXCEPT ![Hi!Stop(s, k)] = k], Hi!Size(s))
         /\ heap[s].hv[Hi!Stop(s, k)] \in {0, k}
<1> DEFINE n == Hi!Size(s)
           hv == heap[s].hv
           stops == Hi!Stops(s, k)
           m == Hi!Min(stops)
<1>1. HashesOK(hv, n) /\ n \in Nat \ {0}
  BY SizeIs
<1>2. stops = {i \in 0..(n - 1) : hv[(k + i) % n] \in {0, k}}
  BY DEF Hi!Stops, Hi!Slots, Hi!Bucket
<1>3. Hi!Stop(s, k) = (k + m) % n
  BY DEF Hi!Stop, Hi!Bucket
<1>4. PICK x : x = m
  OBVIOUS
<1> HIDE DEF n, hv, stops, m
<1>5. stops \subseteq Nat /\ stops # {}
  BY <1>1, <1>2 DEF stops
<1>6. x \in stops /\ \A y \in stops : x <= y
  BY <1>4, <1>5, MinIs DEF m
<1>7. x \in 0..(n - 1) /\ hv[(k + x) % n] \in {0, k}
      /\ \A i \in 0..(n - 1) : i < x => hv[(k + i) % n] \notin {0, k}
  <2>1. \A i \in 0..(n - 1) : i \in stops <=> hv[(k + i) % n] \in {0, k}
    BY <1>2
  <2>2. stops \subseteq 0..(n - 1)
    BY <1>2
  <2>3. \A i \in 0..(n - 1) : i < x => i \notin stops
    BY <1>1, <1>6, <2>2
  <2> QED BY <1>6, <2>1, <2>2, <2>3
<1>8. HashesOK([hv EXCEPT ![(k + x) % n] = k], n)
  BY <1>1, <1>7, ProbedWrite
<1> QED BY <1>3, <1>4, <1>7, <1>8 DEF n, hv

LEMMA HvChanges ==
  ASSUME HatInv, NEW s \in 1..Len(heap), NEW new, NEW n, HashesOK(new, n), heap' = [heap EXCEPT ![s].hv = new],
         \A b \in DOMAIN heap[s].hv : heap[s].hv[b] # 0 => new[b] = heap[s].hv[b],
         NEW t \in Threads, Grows => Goes(t), todo' = todo, top' = top
  PROVE  HatInv' /\ WrittenOnce
<1>1. Len(heap) \in Nat /\ DOMAIN heap = 1..Len(heap) /\ heap \in Seq(Range(heap)) /\ top.current \in 1..Len(heap)
  BY HeapIs DEF HatInv, HatStores
<1>2. heap' \in [1..Len(heap) -> Range(heap')]
  BY <1>1 DEF Range
<1>3. heap' \in Seq(Range(heap')) /\ Len(heap') = Len(heap)
  BY <1>1, <1>2, FunctionIsSequence
<1>4. DOMAIN heap[s] = {"hv", "rec", "used", "next", "retired"}
  BY DEF HatInv, HatStores, StoreOK
<1>5. \A x \in 1..Len(heap) : heap'[x] = IF x = s THEN [heap[s] EXCEPT !.hv = new] ELSE heap[x]
  BY <1>1
<1>6. ASSUME NEW x \in 1..Len(heap')
      PROVE  StoreOK(heap'[x]) /\ heap'[x].next = heap[x].next /\ heap'[x].retired = heap[x].retired
  <2>1. CASE x = s
    <3>1. heap'[x] = [heap[s] EXCEPT !.hv = new] /\ n \in Nat \ {0}
      BY <1>3, <1>5, <2>1 DEF HashesOK
    <3>2. DOMAIN heap'[x] = {"hv", "rec", "used", "next", "retired"} /\ heap'[x].hv = new
      BY <3>1, <1>4
    <3> QED BY <3>1, <3>2, <2>1, <1>4 DEF StoreOK
  <2>2. CASE x # s
    BY <1>3, <1>5, <2>2 DEF HatInv, HatStores
  <2> QED BY <2>1, <2>2
<1>7. \A x \in 1..Len(heap') : /\ StoreOK(heap'[x])
                               /\ heap'[x].next = IF x = Len(heap') THEN 0 ELSE x + 1
                               /\ heap'[x].retired = IF x < top'.current THEN 1 ELSE 0
  <2> SUFFICES ASSUME NEW x \in 1..Len(heap')
               PROVE  /\ StoreOK(heap'[x])
                      /\ heap'[x].next = IF x = Len(heap') THEN 0 ELSE x + 1
                      /\ heap'[x].retired = IF x < top'.current THEN 1 ELSE 0
    OBVIOUS
  <2>1. heap[x].next = (IF x = Len(heap) THEN 0 ELSE x + 1) /\ heap[x].retired = IF x < top.current THEN 1 ELSE 0
    BY <1>3 DEF HatInv, HatStores
  <2> QED BY <2>1, <1>3, <1>6
<1>8. HatStores'
  <2>1. "current" \in DOMAIN top' /\ top'.current \in 1..Len(heap') /\ Len(heap') <= top'.current + 1
    BY <1>1, <1>3 DEF HatInv, HatStores
  <2> QED BY <2>1, <1>3, <1>7 DEF HatStores
<1>9. Grows
  BY <1>1, <1>3 DEF Grows
<1>10. HatThreads'
  BY <1>9, ThreadsGo
<1>11. HatTodo'
  BY DEF HatInv, HatTodo
<1>12. \A x \in 1..Len(heap) : \A b \in DOMAIN heap[x].hv : heap[x].hv[b] # 0 => heap'[x].hv[b] = heap[x].hv[b]
  <2> SUFFICES ASSUME NEW x \in 1..Len(heap), NEW b \in DOMAIN heap[x].hv, heap[x].hv[b] # 0
               PROVE  heap'[x].hv[b] = heap[x].hv[b]
    OBVIOUS
  <2>1. CASE x = s
    BY <1>4, <1>5, <2>1
  <2>2. CASE x # s
    BY <1>5, <2>2
  <2> QED BY <2>1, <2>2
<1>13. WrittenOnce
  BY <1>3, <1>6, <1>9, <1>12 DEF WrittenOnce, Grows
<1> QED BY <1>8, <1>10, <1>11, <1>13 DEF HatInv
-----------------------------------------------------------------------------
(* The steps outside of a migration.                                       *)

\* The call of thread t ends, or goes on and enters no loop over buckets to move.
Onward(t) ==
  \/ th' = [th EXCEPT ![t] = Hi!Idle]
  \/ \E upd : /\ Hi!Go(t, upd) /\ DOMAIN upd \cap {"call", "then", "st", "ns"} = {}
              /\ "i" \in DOMAIN upd => upd.i \in Nat
              /\ "pc" \in DOMAIN upd => upd.pc \notin Moving \/ th[t].pc \in Moving

LEMMA OnwardGoes ==
  ASSUME HatInv, NEW t \in Threads, th[t].pc # "idle", Grows, Onward(t)
  PROVE  Goes(t)
<1>1. CASE th' = [th EXCEPT ![t] = Hi!Idle]
  BY <1>1, EndGoes
<1>2. CASE \E upd : /\ Hi!Go(t, upd) /\ DOMAIN upd \cap {"call", "then", "st", "ns"} = {}
                    /\ "i" \in DOMAIN upd => upd.i \in Nat
                    /\ "pc" \in DOMAIN upd => upd.pc \notin Moving \/ th[t].pc \in Moving
  <2>1. PICK upd : /\ Hi!Go(t, upd) /\ DOMAIN upd \cap {"call", "then", "st", "ns"} = {}
                   /\ "i" \in DOMAIN upd => upd.i \in Nat
                   /\ "pc" \in DOMAIN upd => upd.pc \notin Moving \/ th[t].pc \in Moving
    BY <1>2, Zenon
  <2> QED BY <2>1, StepGoes
<1> QED BY <1>1, <1>2 DEF Onward

LEMMA QuietOnward ==
  ASSUME HatInv, NEW t \in Threads, th[t].pc # "idle", SameStores, "current" \in DOMAIN top',
         top'.current = top.current, todo' = todo, Onward(t)
  PROVE  HatInv' /\ WrittenOnce
<1>1. Grows
  BY SameGrows
<1>2. Goes(t)
  BY <1>1, OnwardGoes
<1> QED BY <1>2, QuietStep

LEMMA ReadStep ==
  ASSUME HatInv, NEW t \in Threads, th[t].pc # "idle", heap' = heap, top' = top, todo' = todo, Onward(t)
  PROVE  HatInv' /\ WrittenOnce
  BY NothingChanges, QuietOnward

LEMMA WriteStep ==
  ASSUME HatInv, NEW t \in Threads, th[t].pc # "idle", NEW s \in 1..Len(heap), NEW b, NEW new,
         heap' = [heap EXCEPT ![s].rec[b] = new], top' = top, todo' = todo, Onward(t)
  PROVE  HatInv' /\ WrittenOnce
<1>1. heap' = [heap EXCEPT ![s].rec = [heap[s].rec EXCEPT ![b] = new]]
  BY Zenon
<1>2. SameStores
  BY <1>1, RecordChanges
<1>3. "current" \in DOMAIN top'
  BY DEF HatInv, HatStores
<1> QED BY <1>2, <1>3, QuietOnward

LEMMA CountStep ==
  ASSUME HatInv, NEW t \in Threads, th[t].pc # "idle", NEW n, top' = [top EXCEPT !.count = n],
         heap' = heap, todo' = todo, Onward(t)
  PROVE  HatInv' /\ WrittenOnce
<1>1. SameStores
  BY DEF SameStores, HatInv, HatStores
<1>2. "current" \in DOMAIN top' /\ top'.current = top.current
  BY DEF HatInv, HatStores
<1> QED BY <1>1, <1>2, QuietOnward

LEMMA OnwardAnswer ==
  ASSUME NEW t \in Threads, NEW res, Hi!Answer(t, res)
  PROVE  Onward(t)
  BY DEF Hi!Answer, Onward

LEMMA OnwardStep ==
  ASSUME NEW t \in Threads
  PROVE  /\ \A p : Hi!Step(t, [pc |-> p]) /\ (p \notin Moving \/ th[t].pc \in Moving) => Onward(t)
         /\ \A p, x : Hi!Step(t, [pc |-> p, b |-> x]) /\ p \notin Moving => Onward(t)
         /\ \A x : Hi!Step(t, [rec |-> x]) => Onward(t)
         /\ \A x \in Nat : Hi!Step(t, [i |-> x]) => Onward(t)
<1>1. ASSUME NEW p, Hi!Step(t, [pc |-> p]), p \notin Moving \/ th[t].pc \in Moving PROVE Onward(t)
  <2> DEFINE u == [pc |-> p]
  <2>1. Hi!Go(t, u)
    BY <1>1 DEF Hi!Step
  <2>2. DOMAIN u = {"pc"} /\ u.pc = p
    OBVIOUS
  <2> HIDE DEF u
  <2> QED BY <1>1, <2>1, <2>2 DEF Onward
<1>2. ASSUME NEW p, NEW x, Hi!Step(t, [pc |-> p, b |-> x]), p \notin Moving PROVE Onward(t)
  <2> DEFINE u == [pc |-> p, b |-> x]
  <2>1. Hi!Go(t, u)
    BY <1>2 DEF Hi!Step
  <2>2. DOMAIN u = {"pc", "b"} /\ u.pc = p
    OBVIOUS
  <2> HIDE DEF u
  <2> QED BY <1>2, <2>1, <2>2 DEF Onward
<1>4. ASSUME NEW x, Hi!Step(t, [rec |-> x]) PROVE Onward(t)
  <2> DEFINE u == [rec |-> x]
  <2>1. Hi!Go(t, u)
    BY <1>4 DEF Hi!Step
  <2>2. DOMAIN u = {"rec"}
    OBVIOUS
  <2> HIDE DEF u
  <2> QED BY <2>1, <2>2 DEF Onward
<1>5. ASSUME NEW x \in Nat, Hi!Step(t, [i |-> x]) PROVE Onward(t)
  <2> DEFINE u == [i |-> x]
  <2>1. Hi!Go(t, u)
    BY <1>5 DEF Hi!Step
  <2>2. DOMAIN u = {"i"} /\ u.i \in Nat
    OBVIOUS
  <2> HIDE DEF u
  <2> QED BY <2>1, <2>2 DEF Onward
<1> QED BY <1>1, <1>2, <1>4, <1>5

LEMMA OnwardAt ==
  ASSUME NEW t \in Threads, NEW p, NEW x \in Nat, Hi!Step(t, [pc |-> p, i |-> x]),
         p \notin Moving \/ th[t].pc \in Moving
  PROVE  Onward(t)
<1> DEFINE u == [pc |-> p, i |-> x]
<1>1. Hi!Go(t, u)
  BY DEF Hi!Step
<1>2. DOMAIN u = {"pc", "i"} /\ u.pc = p /\ u.i \in Nat
  OBVIOUS
<1> HIDE DEF u
<1> QED BY <1>1, <1>2 DEF Onward

\* Thread t is inside a call, on a store of the chain.
LEMMA Inside ==
  ASSUME HatInv, NEW t \in Threads, th[t].pc # "idle"
  PROVE  /\ th[t].st \in 1..Len(heap) /\ th[t].st \in 1..top.current /\ th[t].then = "probe" /\ th[t].i \in Nat
         /\ th[t].call.op \notin {"scan", "view"} => th[t].call.key \in Nat
         /\ th[t].pc \in Moving => th[t].ns = th[t].st + 1 /\ th[t].ns \in 1..Len(heap)
<1>1. HatThread(t) /\ Len(heap) \in Nat
  BY HeapIs DEF HatInv, HatThreads
<1>2. th[t].st \in 1..Len(heap)
  BY HeapIs
<1> QED BY <1>1, <1>2 DEF HatThread

LEMMA ReserveStep ==
  ASSUME HatInv, NEW t \in Threads, th[t].call.op \notin {"scan", "view"}, Hi!Reserve(t)
  PROVE  HatInv' /\ WrittenOnce
<1> DEFINE s == th[t].st
           k == th[t].call.key
<1>1. th[t].pc = "probe" /\ todo' = todo /\ top' = top
  BY DEF Hi!Reserve
<1>2. th[t].pc # "idle"
  BY <1>1
<1>3. s \in 1..Len(heap) /\ k \in Nat
  BY <1>2, Inside
<1>4. CASE heap' = heap
  <2>1. Hi!Step(t, [pc |-> "record", b |-> Hi!Stop(s, k)]) \/ Hi!Step(t, [pc |-> "retry"])
        \/ Hi!Step(t, [pc |-> "used", b |-> Hi!Stop(s, k)])
    BY DEF Hi!Reserve
  <2>2. Onward(t)
    BY <2>1, OnwardStep DEF Moving
  <2> QED BY <2>2, <1>1, <1>2, <1>4, ReadStep
<1>5. CASE Hi!Free(s, k) /\ heap' = [heap EXCEPT ![s].hv[Hi!Stop(s, k)] = k]
           /\ Hi!Step(t, [pc |-> "used", b |-> Hi!Stop(s, k)])
  <2>1. Hi!Stops(s, k) # {}
    BY <1>5 DEF Hi!Free
  <2>2. HashesOK([heap[s].hv EXCEPT ![Hi!Stop(s, k)] = k], Hi!Size(s)) /\ heap[s].hv[Hi!Stop(s, k)] \in {0, k}
    BY <2>1, <1>3, StopProbed
  <2>6. \A b \in DOMAIN heap[s].hv : heap[s].hv[b] # 0 => [heap[s].hv EXCEPT ![Hi!Stop(s, k)] = k][b] = heap[s].hv[b]
    BY <2>2
  <2>3. heap' = [heap EXCEPT ![s].hv = [heap[s].hv EXCEPT ![Hi!Stop(s, k)] = k]]
    BY <1>5, Zenon
  <2>4. Onward(t)
    BY <1>5, OnwardStep DEF Moving
  <2>5. Grows => Goes(t)
    BY <2>4, <1>2, OnwardGoes
  <2> QED BY <2>2, <2>3, <2>5, <2>6, <1>1, <1>3, HvChanges
<1> QED BY <1>4, <1>5 DEF Hi!Reserve

LEMMA CountBucketStep ==
  ASSUME HatInv, NEW t \in Threads, Hi!CountBucket(t)
  PROVE  HatInv' /\ WrittenOnce
<1> DEFINE s == th[t].st
<1>1. th[t].pc = "used" /\ todo' = todo /\ top' = top
  BY DEF Hi!CountBucket
<1>2. th[t].pc # "idle"
  BY <1>1
<1>3. s \in 1..Len(heap)
  BY <1>2, Inside
<1>4. heap' = [heap EXCEPT ![s].used = heap[s].used + 1]
  BY DEF Hi!CountBucket
<1>5. SameStores
  BY <1>3, <1>4, UsedChanges
<1>6. Onward(t)
  <2>1. PICK p : p \in {"retry", "record"} /\ Hi!Step(t, [pc |-> p])
    BY DEF Hi!CountBucket
  <2> QED BY <2>1, OnwardStep DEF Moving
<1>7. "current" \in DOMAIN top'
  BY <1>1 DEF HatInv, HatStores
<1> QED BY <1>1, <1>2, <1>5, <1>6, <1>7, QuietOnward

LEMMA StoreGetStep ==
  ASSUME HatInv, NEW t \in Threads, Hi!StoreGet(t)
  PROVE  HatInv' /\ WrittenOnce
<1>1. th[t].pc # "idle" /\ heap' = heap /\ top' = top /\ todo' = todo
  BY DEF Hi!StoreGet, Hi!Calling, Hi!Lookup, Hi!GetRecord
<1>2. \/ \E b : Hi!Step(t, [pc |-> "record", b |-> b])
      \/ \E r : Hi!Answer(t, r)
  BY DEF Hi!StoreGet, Hi!Lookup, Hi!GetRecord
<1>3. Onward(t)
  BY <1>2, OnwardStep, OnwardAnswer DEF Moving
<1> QED BY <1>1, <1>3, ReadStep

LEMMA OnwardRead ==
  ASSUME NEW t \in Threads,
         \/ Hi!Step(t, [pc |-> "retry"]) \/ Hi!Step(t, [pc |-> "swap", rec |-> Hi!Rec(t)])
         \/ Hi!Answer(t, Hi!None)
  PROVE  Onward(t)
<1>1. CASE Hi!Step(t, [pc |-> "retry"])
  BY <1>1, OnwardStep DEF Moving
<1>2. CASE Hi!Step(t, [pc |-> "swap", rec |-> Hi!Rec(t)])
  <2> DEFINE u == [pc |-> "swap", rec |-> Hi!Rec(t)]
  <2>1. Hi!Go(t, u)
    BY <1>2 DEF Hi!Step
  <2>2. DOMAIN u = {"pc", "rec"} /\ u.pc = "swap"
    OBVIOUS
  <2> HIDE DEF u
  <2> QED BY <2>1, <2>2 DEF Onward, Moving
<1>3. CASE Hi!Answer(t, Hi!None)
  BY <1>3, OnwardAnswer
<1> QED BY <1>1, <1>2, <1>3

\* The record steps of the operations that write: each ends the call, goes on to another
\* step outside of the migration, or changes one record.
Records(t) ==
  /\ todo' = todo /\ Onward(t)
  /\ \/ heap' = heap /\ top' = top
     \/ top' = top /\ \E new : heap' = [heap EXCEPT ![th[t].st].rec[th[t].b] = new]
     \/ heap' = heap /\ \E n : top' = [top EXCEPT !.count = n]

LEMMA RecordsStep ==
  ASSUME HatInv, NEW t \in Threads, th[t].pc # "idle", Records(t)
  PROVE  HatInv' /\ WrittenOnce
<1>1. todo' = todo /\ Onward(t) /\ th[t].st \in 1..Len(heap)
  BY Inside DEF Records
<1>2. CASE heap' = heap /\ top' = top
  BY <1>1, <1>2, ReadStep
<1>3. CASE top' = top /\ \E new : heap' = [heap EXCEPT ![th[t].st].rec[th[t].b] = new]
  <2>1. PICK new : heap' = [heap EXCEPT ![th[t].st].rec[th[t].b] = new]
    BY <1>3, Zenon
  <2> QED BY <2>1, <1>1, <1>3, WriteStep
<1>4. CASE heap' = heap /\ \E n : top' = [top EXCEPT !.count = n]
  <2>1. PICK n : top' = [top EXCEPT !.count = n]
    BY <1>4, Zenon
  <2> QED BY <2>1, <1>1, <1>4, CountStep
<1> QED BY <1>2, <1>3, <1>4 DEF Records

LEMMA StorePutStep ==
  ASSUME HatInv, NEW t \in Threads, Hi!StorePut(t)
  PROVE  HatInv' /\ WrittenOnce
<1> DEFINE c == th[t].call
           r == th[t].rec
<1>1. th[t].pc # "idle" /\ th[t].call.op \notin {"scan", "view"}
  BY DEF Hi!StorePut, Hi!Calling
<1>2. CASE Hi!Reserve(t)
  BY <1>1, <1>2, ReserveStep
<1>3. CASE Hi!CountBucket(t)
  BY <1>3, CountBucketStep
<1>4. CASE Hi!ReadRecord(t, TRUE, FALSE)
  <2>1. Onward(t)
    BY <1>4, OnwardRead DEF Hi!ReadRecord
  <2> QED BY <1>1, <1>4, <2>1, RecordsStep DEF Hi!ReadRecord, Records
<1>5. CASE Hi!SwapRecord(t, Hi!Candidate(c.item, r),
                         IF r.live THEN Hi!Answer(t, r.item) ELSE Hi!Step(t, [pc |-> "count"]))
  <2>1. Onward(t)
    BY <1>5, OnwardStep, OnwardAnswer DEF Hi!SwapRecord, Moving
  <2> QED BY <1>1, <1>5, <2>1, RecordsStep DEF Hi!SwapRecord, Records
<1>6. CASE Hi!LoseSwap(t, Hi!Answer(t, c.item))
  <2>1. Onward(t)
    BY <1>6, OnwardStep, OnwardAnswer DEF Hi!LoseSwap, Moving
  <2> QED BY <1>1, <1>6, <2>1, RecordsStep DEF Hi!LoseSwap, Records
<1>7. CASE Hi!CountItem(t, top.count + 1, Hi!Answer(t, Hi!None))
  <2>1. Onward(t)
    BY <1>7, OnwardAnswer DEF Hi!CountItem
  <2> QED BY <1>1, <1>7, <2>1, RecordsStep DEF Hi!CountItem, Records
<1> QED BY <1>2, <1>3, <1>4, <1>5, <1>6, <1>7 DEF Hi!StorePut

LEMMA StoreReplaceStep ==
  ASSUME HatInv, NEW t \in Threads, Hi!StoreReplace(t)
  PROVE  HatInv' /\ WrittenOnce
<1> DEFINE c == th[t].call
           r == th[t].rec
<1>1. th[t].pc # "idle"
  BY DEF Hi!StoreReplace, Hi!Calling
<1>2. CASE Hi!Lookup(t, Hi!Answer(t, Hi!None))
  <2>1. Onward(t)
    BY <1>2, OnwardStep, OnwardAnswer DEF Hi!Lookup, Moving
  <2> QED BY <1>1, <1>2, <2>1, RecordsStep DEF Hi!Lookup, Records
<1>3. CASE Hi!ReadRecord(t, Hi!Rec(t).live, Hi!Answer(t, Hi!None))
  <2>1. Onward(t)
    BY <1>3, OnwardRead DEF Hi!ReadRecord
  <2> QED BY <1>1, <1>3, <2>1, RecordsStep DEF Hi!ReadRecord, Records
<1>4. CASE Hi!SwapRecord(t, Hi!Candidate(c.item, r), Hi!Answer(t, r.item))
  <2>1. Onward(t)
    BY <1>4, OnwardAnswer DEF Hi!SwapRecord
  <2> QED BY <1>1, <1>4, <2>1, RecordsStep DEF Hi!SwapRecord, Records
<1>5. CASE Hi!LoseSwap(t, IF Hi!Rec(t).live THEN Hi!Step(t, [rec |-> Hi!Rec(t)]) ELSE Hi!Answer(t, Hi!None))
  <2>1. Onward(t)
    BY <1>5, OnwardStep, OnwardAnswer DEF Hi!LoseSwap, Moving
  <2> QED BY <1>1, <1>5, <2>1, RecordsStep DEF Hi!LoseSwap, Records
<1> QED BY <1>2, <1>3, <1>4, <1>5 DEF Hi!StoreReplace

LEMMA StoreAddStep ==
  ASSUME HatInv, NEW t \in Threads, Hi!StoreAdd(t)
  PROVE  HatInv' /\ WrittenOnce
<1> DEFINE c == th[t].call
<1>1. th[t].pc # "idle" /\ th[t].call.op \notin {"scan", "view"}
  BY DEF Hi!StoreAdd, Hi!Calling
<1>2. CASE Hi!Reserve(t)
  BY <1>1, <1>2, ReserveStep
<1>3. CASE Hi!CountBucket(t)
  BY <1>3, CountBucketStep
<1>4. CASE Hi!ReadRecord(t, ~Hi!Rec(t).live, Hi!Answer(t, Hi!None))
  <2>1. Onward(t)
    BY <1>4, OnwardRead DEF Hi!ReadRecord
  <2> QED BY <1>1, <1>4, <2>1, RecordsStep DEF Hi!ReadRecord, Records
<1>5. CASE Hi!SwapRecord(t, Hi!LiveRec(c.item), Hi!Step(t, [pc |-> "count"]))
  <2>1. Onward(t)
    BY <1>5, OnwardStep DEF Hi!SwapRecord, Moving
  <2> QED BY <1>1, <1>5, <2>1, RecordsStep DEF Hi!SwapRecord, Records
<1>6. CASE Hi!LoseSwap(t, Hi!Answer(t, Hi!None))
  <2>1. Onward(t)
    BY <1>6, OnwardStep, OnwardAnswer DEF Hi!LoseSwap, Moving
  <2> QED BY <1>1, <1>6, <2>1, RecordsStep DEF Hi!LoseSwap, Records
<1>7. CASE Hi!CountItem(t, top.count + 1, Hi!Answer(t, c.item))
  <2>1. Onward(t)
    BY <1>7, OnwardAnswer DEF Hi!CountItem
  <2> QED BY <1>1, <1>7, <2>1, RecordsStep DEF Hi!CountItem, Records
<1> QED BY <1>2, <1>3, <1>4, <1>5, <1>6, <1>7 DEF Hi!StoreAdd

LEMMA StoreRemoveStep ==
  ASSUME HatInv, NEW t \in Threads, Hi!StoreRemove(t)
  PROVE  HatInv' /\ WrittenOnce
<1>1. th[t].pc # "idle"
  BY DEF Hi!StoreRemove, Hi!Calling
<1>2. CASE Hi!Lookup(t, Hi!Answer(t, Hi!None))
  <2>1. Onward(t)
    BY <1>2, OnwardStep, OnwardAnswer DEF Hi!Lookup, Moving
  <2> QED BY <1>1, <1>2, <2>1, RecordsStep DEF Hi!Lookup, Records
<1>3. CASE Hi!ReadRecord(t, Hi!Rec(t).live, Hi!Answer(t, Hi!None))
  <2>1. Onward(t)
    BY <1>3, OnwardRead DEF Hi!ReadRecord
  <2> QED BY <1>1, <1>3, <2>1, RecordsStep DEF Hi!ReadRecord, Records
<1>4. CASE Hi!SwapRecord(t, Hi!Removed, Hi!Step(t, [pc |-> "count"]))
  <2>1. Onward(t)
    BY <1>4, OnwardStep DEF Hi!SwapRecord, Moving
  <2> QED BY <1>1, <1>4, <2>1, RecordsStep DEF Hi!SwapRecord, Records
<1>5. CASE Hi!LoseSwap(t, Hi!Answer(t, Hi!None))
  <2>1. Onward(t)
    BY <1>5, OnwardStep, OnwardAnswer DEF Hi!LoseSwap, Moving
  <2> QED BY <1>1, <1>5, <2>1, RecordsStep DEF Hi!LoseSwap, Records
<1>6. CASE Hi!CountItem(t, top.count - 1, Hi!Answer(t, th[t].rec.item))
  <2>1. Onward(t)
    BY <1>6, OnwardAnswer DEF Hi!CountItem
  <2> QED BY <1>1, <1>6, <2>1, RecordsStep DEF Hi!CountItem, Records
<1> QED BY <1>2, <1>3, <1>4, <1>5, <1>6 DEF Hi!StoreRemove

LEMMA TailIs ==
  ASSUME NEW s, s \in Seq(Range(s)), s # <<>>
  PROVE  /\ Tail(s) \in Seq(Range(Tail(s))) /\ Len(Tail(s)) = Len(s) - 1 /\ Len(s) \in Nat
         /\ \A n \in 1..Len(Tail(s)) : Tail(s)[n] = s[n + 1]
<1>1. PICK S : s \in Seq(S)
  OBVIOUS
<1>2. /\ Tail(s) \in Seq(S) /\ Len(Tail(s)) = Len(s) - 1 /\ Len(s) \in Nat
      /\ \A n \in 1..Len(Tail(s)) : Tail(s)[n] = s[n + 1]
  BY <1>1
<1>3. PICK z : z = Tail(s)
  OBVIOUS
<1>4. z \in [1..Len(z) -> Range(z)] /\ Len(z) \in Nat
  <2>1. z \in Seq(S)
    BY <1>2, <1>3
  <2>2. z \in [1..Len(z) -> S] /\ Len(z) \in Nat
    BY <2>1
  <2>3. \A n \in 1..Len(z) : z[n] \in Range(z)
    BY <2>2 DEF Range
  <2> QED BY <2>2, <2>3
<1>5. z \in Seq(Range(z))
  BY <1>4, FunctionIsSequence
<1> QED BY <1>2, <1>3, <1>5

\* A call begins in the current store.
LEMMA OperationStep ==
  ASSUME HatInv, NEW t \in Threads, Hi!Operation(t)
  PROVE  HatInv' /\ WrittenOnce
<1> DEFINE p == IF Head(todo[t]).op = "scan" THEN "scan" ELSE "probe"
           first == Hi!Locals(p)
           upd == [call |-> Head(todo[t])]
<1>1. /\ th[t].pc = "idle" /\ todo[t] # <<>> /\ heap' = heap /\ top' = top
      /\ th' = [th EXCEPT ![t] = Hi!With(first, upd)]
      /\ todo' = [todo EXCEPT ![t] = Tail(todo[t])]
  BY DEF Hi!Operation, Hi!Begin
<1>2. DOMAIN th = Threads /\ DOMAIN todo = Threads /\ todo[t] \in Seq(Range(todo[t]))
      /\ \A n \in 1..Len(todo[t]) : todo[t][n].op \notin {"scan", "view"} => todo[t][n].key \in Nat
  BY DEF HatInv, HatThreads, HatTodo
<1>3. Head(todo[t]) = todo[t][1] /\ 1 \in 1..Len(todo[t])
  BY <1>1, <1>2
<1>4. /\ DOMAIN th' = Threads /\ \A u \in Threads : u # t => th'[u] = th[u]
      /\ th'[t] = Hi!With(first, upd)
  BY <1>1, <1>2
<1>5. /\ {"pc", "st", "ns", "i", "then"} \subseteq DOMAIN first /\ first.pc \notin Moving /\ first.st = top.current
      /\ first.then = "probe" /\ first.i = 0
  BY DEF Hi!Locals, Moving
<1>6. DOMAIN upd = {"call"} /\ upd.call = Head(todo[t])
  OBVIOUS
<1> HIDE DEF first, upd
<1>7. /\ {"pc", "call", "st", "ns", "i", "then"} \subseteq DOMAIN th'[t]
      /\ th'[t].call = Head(todo[t]) /\ th'[t].st = top.current /\ th'[t].then = "probe" /\ th'[t].i = 0
      /\ th'[t].pc \notin Moving
  BY <1>4, <1>5, <1>6 DEF Hi!With
<1>8. HatThread(t)'
  BY <1>1, <1>2, <1>3, <1>7, HeapIs DEF HatThread
<1>9. Goes(t)
  BY <1>4, <1>8 DEF Goes
<1>10. Grows /\ HatThreads'
  BY <1>1, <1>9, NothingChanges, ThreadsGo
<1>11. HatTodo'
  <2>1. Tail(todo[t]) \in Seq(Range(Tail(todo[t]))) /\ Len(Tail(todo[t])) = Len(todo[t]) - 1
        /\ \A n \in 1..Len(Tail(todo[t])) : Tail(todo[t])[n] = todo[t][n + 1]
    BY <1>1, <1>2, TailIs
  <2>2. \A u \in Threads : todo'[u] = IF u = t THEN Tail(todo[t]) ELSE todo[u]
    BY <1>1, <1>2
  <2>3. \A n \in 1..Len(Tail(todo[t])) : Tail(todo[t])[n].op \notin {"scan", "view"} => Tail(todo[t])[n].key \in Nat
    <3>1. \A n \in 1..Len(Tail(todo[t])) : n + 1 \in 1..Len(todo[t])
      BY <1>2, <2>1
    <3> QED BY <1>2, <2>1, <3>1
  <2>4. DOMAIN todo' = Threads
    BY <1>1, <1>2
  <2>5. ASSUME NEW u \in Threads
        PROVE  /\ todo'[u] \in Seq(Range(todo'[u]))
               /\ \A n \in 1..Len(todo'[u]) : todo'[u][n].op \notin {"scan", "view"} => todo'[u][n].key \in Nat
    <3>1. CASE u = t
      BY <2>1, <2>2, <2>3, <3>1
    <3>2. CASE u # t
      BY <2>2, <3>2 DEF HatInv, HatTodo
    <3> QED BY <3>1, <3>2
  <2> QED BY <2>4, <2>5 DEF HatTodo
<1>12. HatStores'
  BY <1>1 DEF HatInv, HatStores
<1>13. WrittenOnce
  BY <1>1, <1>10 DEF WrittenOnce, Grows
<1> QED BY <1>10, <1>11, <1>12, <1>13 DEF HatInv

LEMMA ViewStep ==
  ASSUME HatInv, NEW t \in Threads, Hi!View(t)
  PROVE  HatInv' /\ WrittenOnce
<1> DEFINE b == th[t].i
<1>1. th[t].pc = "scan" /\ heap' = heap /\ top' = top /\ todo' = todo
  BY DEF Hi!View, Hi!Scan
<1>2. th[t].pc # "idle" /\ b \in Nat /\ HatThread(t) /\ DOMAIN th = Threads
  BY <1>1, Inside DEF HatInv, HatThreads
<1>3. \/ Hi!EndScan(t) \/ Hi!Step(t, [i |-> b + 1])
      \/ \E k, r : Hi!Report(t, k, r, [i |-> b + 1])
  BY DEF Hi!View, Hi!Scan
<1>4. CASE Hi!EndScan(t) \/ Hi!Step(t, [i |-> b + 1])
  <2>1. Onward(t)
    <3>1. CASE Hi!EndScan(t)
      BY <3>1 DEF Hi!EndScan, Onward
    <3>2. CASE Hi!Step(t, [i |-> b + 1])
      BY <3>2, <1>2, OnwardStep
    <3> QED BY <1>4, <3>1, <3>2
  <2> QED BY <1>1, <1>2, <2>1, ReadStep
<1>5. CASE \E k, r : Hi!Report(t, k, r, [i |-> b + 1])
  <2> DEFINE upd == [i |-> b + 1]
  <2>1. PICK k : th' = [th EXCEPT ![t] = Hi!With([th[t] EXCEPT !.want = @ \ {k}], upd)]
    BY <1>5 DEF Hi!Report
  <2> DEFINE old == [th[t] EXCEPT !.want = @ \ {k}]
  <2>2. DOMAIN old = DOMAIN th[t] /\ \A f \in DOMAIN th[t] : f # "want" => old[f] = th[t][f]
    OBVIOUS
  <2>3. DOMAIN upd = {"i"} /\ upd.i = b + 1
    OBVIOUS
  <2>4. th'[t] = Hi!With(old, upd) /\ DOMAIN th' = Threads /\ \A u \in Threads : u # t => th'[u] = th[u]
    BY <1>2, <2>1
  <2> HIDE DEF old, upd
  <2>5. /\ DOMAIN th'[t] = DOMAIN th[t] \cup {"i"} /\ th'[t].i = b + 1
        /\ \A f \in DOMAIN th[t] : f # "want" /\ f # "i" => th'[t][f] = th[t][f]
    BY <2>2, <2>3, <2>4 DEF Hi!With
  <2>6. /\ {"pc", "call", "st", "ns", "i", "then"} \subseteq DOMAIN th[t]
        /\ th[t].then = "probe" /\ th[t].st \in 1..top.current
        /\ (th[t].call.op \notin {"scan", "view"} => th[t].call.key \in Nat)
    BY <1>2 DEF HatThread
  <2>7. /\ th'[t].pc = "scan" /\ th'[t].call = th[t].call /\ th'[t].st = th[t].st /\ th'[t].then = "probe"
        /\ th'[t].i \in Nat /\ {"pc", "call", "st", "ns", "i", "then"} \subseteq DOMAIN th'[t]
    BY <1>1, <1>2, <2>5, <2>6
  <2>8. HatThread(t)'
    BY <1>1, <2>6, <2>7 DEF HatThread, Moving
  <2>9. Goes(t)
    BY <2>4, <2>8 DEF Goes
  <2> QED BY <1>1, <2>9, NothingChanges, QuietStep
<1> QED BY <1>3, <1>4, <1>5
-----------------------------------------------------------------------------
(* The steps of a migration.                                               *)

LEMMA MigratedGoes ==
  ASSUME HatInv, NEW t \in Threads, th[t].pc # "idle", NEW s, s = top'.current, Grows, Hi!Migrated(t, s)
  PROVE  Goes(t)
<1> DEFINE local == [pc |-> th[t].then, i |-> 0, ns |-> 0, used |-> 0, map |-> {}]
           upd == Hi!With(local, [st |-> s])
<1>1. HatThread(t) /\ DOMAIN th = Threads /\ th[t].then = "probe"
  BY Inside DEF HatInv, HatThreads
<1>2. th' = [th EXCEPT ![t] = Hi!With(th[t], upd)]
  BY <1>1 DEF Hi!Migrated, Hi!Step, Hi!Go
<1>3. /\ DOMAIN upd = {"pc", "i", "ns", "used", "map", "st"} /\ upd.pc = "probe" /\ upd.i = 0 /\ upd.st = s
  <2>1. DOMAIN local = {"pc", "i", "ns", "used", "map"} /\ local.pc = "probe" /\ local.i = 0
    BY <1>1
  <2>2. DOMAIN [st |-> s] = {"st"} /\ [st |-> s].st = s
    OBVIOUS
  <2> HIDE DEF local
  <2> QED BY <2>1, <2>2 DEF Hi!With
<1> HIDE DEF upd
<1>4. DOMAIN th' = Threads /\ (\A u \in Threads : u # t => th'[u] = th[u]) /\ th'[t] = Hi!With(th[t], upd)
  BY <1>1, <1>2
<1>5. /\ {"pc", "call", "st", "ns", "i", "then"} \subseteq DOMAIN th[t]
      /\ th[t].call.op \notin {"scan", "view"} => th[t].call.key \in Nat
  BY <1>1 DEF HatThread
<1>6. /\ {"pc", "call", "st", "ns", "i", "then"} \subseteq DOMAIN th'[t]
      /\ th'[t].pc = "probe" /\ th'[t].i = 0 /\ th'[t].st = s /\ th'[t].call = th[t].call /\ th'[t].then = "probe"
  BY <1>1, <1>3, <1>4, <1>5 DEF Hi!With
<1>7. s \in 1..top'.current
  BY HeapIs DEF Grows
<1>8. HatThread(t)'
  BY <1>5, <1>6, <1>7 DEF HatThread, Moving
<1> QED BY <1>4, <1>8 DEF Goes

LEMMA EnterMigrateStep ==
  ASSUME HatInv, NEW t \in Threads, Hi!EnterMigrate(t, "retry", "mark")
  PROVE  HatInv' /\ WrittenOnce
<1>1. th[t].pc = "retry" /\ heap' = heap /\ top' = top /\ todo' = todo
  BY DEF Hi!EnterMigrate
<1>2. th[t].pc # "idle"
  BY <1>1
<1>3. CASE Hi!Migrated(t, top.current)
  <2>1. Goes(t)
    BY <1>1, <1>2, <1>3, NothingChanges, MigratedGoes
  <2> QED BY <1>1, <2>1, NothingChanges, QuietStep
<1>4. CASE Hi!Step(t, [pc |-> "mark", i |-> 0])
  <2>1. Onward(t)
    BY <1>4, OnwardAt DEF Moving
  <2> QED BY <1>1, <1>2, <2>1, ReadStep
<1> QED BY <1>3, <1>4 DEF Hi!EnterMigrate

LEMMA FirstOf ==
  ASSUME HatInv, NEW s \in 1..Len(heap), NEW j \in Nat, NEW B, B \subseteq j..(Hi!Size(s) - 1)
  PROVE  LET i == Hi!Min({Hi!Size(s)} \cup B)
         IN  i \in Nat /\ (i < Hi!Size(s) => i \in 0..(Hi!Size(s) - 1))
<1>1. Hi!Size(s) \in Nat \ {0}
  BY SizeIs
<1> DEFINE S == {Hi!Size(s)} \cup B
<1>2. S \subseteq Nat /\ S # {}
  <2>1. \A x \in B : x \in j..(Hi!Size(s) - 1)
    OBVIOUS
  <2>2. \A x \in B : x \in Nat
    BY <1>1, <2>1
  <2> QED BY <1>1, <2>2
<1>3. Hi!Min(S) \in Nat
  <2> HIDE DEF S
  <2> QED BY <1>2, MinIs
<1> QED BY <1>1, <1>3

LEMMA MarkMovingStep ==
  ASSUME HatInv, NEW t \in Threads, Hi!MarkMoving(t)
  PROVE  HatInv' /\ WrittenOnce
<1> DEFINE s == th[t].st
           i == Hi!Min({Hi!Size(s)} \cup {b \in th[t].i..(Hi!Size(s) - 1) : ~heap[s].rec[b].moving})
<1>0. heap' = [heap EXCEPT ![s].rec[i].moving = TRUE]
  BY DEF Hi!MarkMoving, Hi!FirstFrom
<1>1. /\ th[t].pc = "mark" /\ todo' = todo /\ top' = top
      /\ Hi!Step(t, [pc |-> "mark moved", i |-> i]) \/ Hi!Step(t, [i |-> i + 1])
  BY DEF Hi!MarkMoving, Hi!FirstFrom
<1>2. th[t].pc # "idle" /\ s \in 1..Len(heap) /\ th[t].i \in Nat
  BY <1>1, Inside
<1>3. i \in Nat
  BY <1>2, FirstOf
<1> HIDE DEF i
<1>4. Onward(t)
  <2>1. CASE Hi!Step(t, [pc |-> "mark moved", i |-> i])
    BY <1>3, <2>1, OnwardAt DEF Moving
  <2>2. CASE Hi!Step(t, [i |-> i + 1])
    BY <1>3, <2>2, OnwardStep
  <2> QED BY <1>1, <2>1, <2>2
<1>5. PICK new : heap' = [heap EXCEPT ![s].rec[i] = new]
  BY <1>0, Zenon
<1> QED BY <1>1, <1>2, <1>4, <1>5, WriteStep

LEMMA MarkEmptyMovedStep ==
  ASSUME HatInv, NEW t \in Threads, Hi!MarkEmptyMoved(t)
  PROVE  HatInv' /\ WrittenOnce
<1> DEFINE s == th[t].st
           i == th[t].i
<1>0. heap' = [heap EXCEPT ![s].rec[i].moved = TRUE]
  BY DEF Hi!MarkEmptyMoved
<1>1. /\ th[t].pc = "mark moved" /\ todo' = todo /\ top' = top
      /\ Hi!Step(t, [pc |-> "mark", i |-> i + 1])
  BY DEF Hi!MarkEmptyMoved
<1>2. th[t].pc # "idle" /\ s \in 1..Len(heap) /\ i \in Nat
  BY <1>1, Inside
<1>3. Onward(t)
  <2>0. i + 1 \in Nat
    BY <1>2
  <2>1. i + 1 \in Nat /\ Hi!Step(t, [pc |-> "mark", i |-> i + 1])
    BY <1>1, <2>0, Zenon
  <2>2. "mark" \notin Moving
    BY DEF Moving
  <2> QED BY <2>1, <2>2, OnwardAt
<1>4. PICK new : heap' = [heap EXCEPT ![s].rec[i] = new]
  BY <1>0, Zenon
<1> QED BY <1>1, <1>2, <1>3, <1>4, WriteStep

LEMMA MarkMovedStep ==
  ASSUME HatInv, NEW t \in Threads, Hi!MarkMoved(t)
  PROVE  HatInv' /\ WrittenOnce
<1> DEFINE s == th[t].st
           i == th[t].i
<1>0. heap' = [heap EXCEPT ![s].rec[i].moved = TRUE]
  BY DEF Hi!MarkMoved
<1>1. /\ th[t].pc = "moved" /\ todo' = todo /\ top' = top
      /\ Hi!Step(t, [pc |-> "move", i |-> i + 1])
  BY DEF Hi!MarkMoved
<1>2. th[t].pc # "idle" /\ th[t].pc \in Moving /\ s \in 1..Len(heap) /\ i \in Nat
  BY <1>1, Inside DEF Moving
<1>3. Onward(t)
  <2>1. i + 1 \in Nat /\ Hi!Step(t, [pc |-> "move", i |-> i + 1]) /\ th[t].pc \in Moving
    BY <1>1, <1>2
  <2> QED BY <2>1, OnwardAt
<1>4. PICK new : heap' = [heap EXCEPT ![s].rec[i] = new]
  BY <1>0, Zenon
<1> QED BY <1>1, <1>2, <1>3, <1>4, WriteStep

LEMMA MoveRecordStep ==
  ASSUME HatInv, NEW t \in Threads, NEW copy, Hi!MoveRecord(t, copy)
  PROVE  HatInv' /\ WrittenOnce
<1> DEFINE n == th[t].ns
           b == th[t].b
           new == IF heap[n].rec[b] = Hi!EmptyRec THEN copy ELSE heap[n].rec[b]
<1>1. /\ th[t].pc = "move record" /\ todo' = todo /\ top' = top
      /\ heap' = [heap EXCEPT ![n].rec[b] = new] /\ Hi!Step(t, [pc |-> "moved"])
  BY DEF Hi!MoveRecord
<1>2. th[t].pc # "idle" /\ th[t].pc \in Moving /\ n \in 1..Len(heap)
  BY <1>1, Inside DEF Moving
<1>3. Onward(t)
  BY <1>1, <1>2, OnwardStep
<1> HIDE DEF new
<1> QED BY <1>1, <1>2, <1>3, WriteStep

LEMMA InstallUsedStep ==
  ASSUME HatInv, NEW t \in Threads, NEW used, Hi!InstallUsed(t, used)
  PROVE  HatInv' /\ WrittenOnce
<1> DEFINE n == th[t].ns
           new == IF heap[n].used = 0 THEN used ELSE heap[n].used
<1>1. /\ th[t].pc = "move" /\ todo' = todo /\ top' = top
      /\ heap' = [heap EXCEPT ![n].used = new] /\ Hi!Step(t, [pc |-> "install"])
  BY DEF Hi!InstallUsed
<1>2. th[t].pc # "idle" /\ th[t].pc \in Moving /\ n \in 1..Len(heap)
  BY <1>1, Inside DEF Moving
<1>3. Onward(t)
  BY <1>1, <1>2, OnwardStep
<1> HIDE DEF new
<1>4. SameStores
  BY <1>1, <1>2, UsedChanges
<1>5. "current" \in DOMAIN top'
  BY <1>1 DEF HatInv, HatStores
<1> QED BY <1>1, <1>2, <1>3, <1>4, <1>5, QuietOnward

LEMMA NewSizeIs ==
  ASSUME MinSize \in Nat \ {0}, NEW size \in Nat \ {0}, NEW used \in Nat
  PROVE  Hi!NewSize(size, used) \in Nat \ {0}
<1>1. size \div 2 \in Nat /\ size \div 4 \in Nat /\ 8 * MinSize \in Nat \ {0} /\ 2 * size \in Nat \ {0}
  OBVIOUS
<1>2. used < size \div 2 => size \div 2 \in Nat \ {0}
  BY <1>1
<1> QED BY <1>1, <1>2 DEF Hi!NewSize

LEMMA LiveInIs ==
  ASSUME HatInv, NEW s \in 1..Len(heap)
  PROVE  Hi!LiveIn(s) \in Nat
<1> DEFINE n == Hi!Size(s)
           B == {b \in 0..(n - 1) : heap[s].rec[b].live}
<1>1. n \in Nat
  BY SizeIs
<1> HIDE DEF n
<1>2. IsFiniteSet(0..(n - 1))
  BY <1>1, SlotsCount
<1>3. B \subseteq 0..(n - 1)
  OBVIOUS
<1>4. Hi!LiveIn(s) = Cardinality(B)
  <2>1. Hi!Cardinality(B) = Cardinality(B)
    <3> HIDE DEF B
    <3> QED BY HatCardinality
  <2> QED BY <2>1 DEF Hi!LiveIn, Hi!Slots, n
<1> HIDE DEF B
<1> QED BY <1>2, <1>3, <1>4, FS_Subset, FS_CardinalityType

LEMMA NewStoreOK ==
  ASSUME NEW size \in Nat \ {0}
  PROVE  StoreOK(Hi!StoreNew(size)) /\ Hi!StoreNew(size).next = 0 /\ Hi!StoreNew(size).retired = 0
<1> DEFINE st == Hi!StoreNew(size)
<1>1. /\ DOMAIN st = {"hv", "rec", "used", "next", "retired"} /\ st.hv = [b \in 0..(size - 1) |-> 0]
      /\ st.next = 0 /\ st.retired = 0
  BY DEF Hi!StoreNew, Hi!EmptyStore, Hi!BareStore
<1> HIDE DEF st
<1>2. StoreOK(st)
  BY <1>1, EmptyProbed DEF StoreOK
<1> QED BY <1>1, <1>2 DEF st

\* Thread t enters the loop that moves buckets to the store after its own.
LEMMA MoveGoes ==
  ASSUME HatInv, NEW t \in Threads, th[t].pc # "idle", Grows, NEW n, n = th[t].st + 1, n <= Len(heap'),
         Hi!Step(t, [pc |-> "move", i |-> 0, ns |-> n])
  PROVE  Goes(t)
<1> DEFINE upd == [pc |-> "move", i |-> 0, ns |-> n]
<1>1. HatThread(t) /\ DOMAIN th = Threads
  BY DEF HatInv, HatThreads
<1>2. th' = [th EXCEPT ![t] = Hi!With(th[t], upd)]
  BY DEF Hi!Step, Hi!Go
<1>3. DOMAIN upd = {"pc", "i", "ns"} /\ upd.pc = "move" /\ upd.i = 0 /\ upd.ns = n
  OBVIOUS
<1> HIDE DEF upd
<1>4. DOMAIN th' = Threads /\ (\A u \in Threads : u # t => th'[u] = th[u]) /\ th'[t] = Hi!With(th[t], upd)
  BY <1>1, <1>2
<1>5. /\ {"pc", "call", "st", "ns", "i", "then"} \subseteq DOMAIN th[t]
      /\ th[t].call.op \notin {"scan", "view"} => th[t].call.key \in Nat
      /\ th[t].then = "probe" /\ th[t].st \in 1..top.current
  BY <1>1 DEF HatThread
<1>6. /\ {"pc", "call", "st", "ns", "i", "then"} \subseteq DOMAIN th'[t]
      /\ th'[t].pc = "move" /\ th'[t].i = 0 /\ th'[t].ns = n
      /\ th'[t].st = th[t].st /\ th'[t].call = th[t].call /\ th'[t].then = th[t].then
  BY <1>3, <1>4, <1>5 DEF Hi!With
<1>7. th[t].st \in 1..top'.current
  BY <1>5, HeapIs DEF Grows
<1>8. HatThread(t)'
  BY <1>5, <1>6, <1>7 DEF HatThread
<1> QED BY <1>4, <1>8 DEF Goes

LEMMA AppendIs ==
  ASSUME NEW q, q \in Seq(Range(q)), NEW x
  PROVE  /\ Append(q, x) \in Seq(Range(Append(q, x))) /\ Len(Append(q, x)) = Len(q) + 1
         /\ \A i \in 1..Len(q) : Append(q, x)[i] = q[i]
         /\ Append(q, x)[Len(q) + 1] = x
  BY DEF Range

LEMMA AgreeOnNextStep ==
  ASSUME HatInv, NEW t \in Threads, th[t].pc # "idle", NEW new, StoreOK(new), new.next = 0, new.retired = 0,
         Hi!AgreeOnNext(t, new)
  PROVE  HatInv' /\ WrittenOnce
<1>0. todo' = todo /\ top' = top /\ th[t].st \in 1..Len(heap) /\ th[t].st \in 1..top.current
  BY Inside DEF Hi!AgreeOnNext
<1>10. PICK l \in Nat : l = Len(heap)
  BY HeapIs
<1>11. PICK c \in 1..l : c = top.current
  BY <1>10, HeapIs
<1>12. PICK s \in 1..c : s = th[t].st
  BY <1>0, <1>11
<1>1. todo' = todo /\ top' = top /\ s \in 1..l
  BY <1>0
<1>2. /\ Len(heap) = l /\ DOMAIN heap = 1..l /\ heap \in Seq(Range(heap)) /\ top.current = c
      /\ l <= c + 1 /\ "current" \in DOMAIN top
  BY <1>10, <1>11, HeapIs DEF HatInv, HatStores
<1>3. \A x \in 1..l : StoreOK(heap[x]) /\ heap[x].next = (IF x = l THEN 0 ELSE x + 1)
                      /\ heap[x].retired = IF x < c THEN 1 ELSE 0
  BY <1>2 DEF HatInv, HatStores
<1>4. CASE heap[s].next # 0 /\ Hi!Step(t, [pc |-> "move", i |-> 0, ns |-> heap[s].next]) /\ heap' = heap
  <2>1. heap[s].next = s + 1 /\ s + 1 <= Len(heap')
    BY <1>1, <1>2, <1>3, <1>4
  <2>2. Goes(t)
    BY <1>1, <1>4, <1>12, <2>1, NothingChanges, MoveGoes
  <2> QED BY <1>1, <1>4, <2>2, NothingChanges, QuietStep
<1>5. CASE heap[s].next = 0 /\ heap' = Append([heap EXCEPT ![s].next = l + 1], new)
           /\ Hi!Step(t, [pc |-> "move", i |-> 0, ns |-> l + 1])
  <2>1. s = l /\ c = l
    BY <1>1, <1>2, <1>3, <1>5
  <2> DEFINE old == [heap EXCEPT ![s].next = l + 1]
  <2>2. /\ old \in Seq(Range(old)) /\ Len(old) = l
        /\ \A x \in 1..l : old[x] = IF x = s THEN [heap[s] EXCEPT !.next = l + 1] ELSE heap[x]
    <3>1. old \in [1..l -> Range(old)]
      BY <1>2 DEF Range
    <3>2. \A x \in 1..l : old[x] = IF x = s THEN [heap[s] EXCEPT !.next = l + 1] ELSE heap[x]
      BY <1>2
    <3> HIDE DEF old
    <3> QED BY <1>2, <3>1, <3>2, FunctionIsSequence
  <2>3. heap' = Append(old, new)
    BY <1>5
  <2> HIDE DEF old
  <2>4. /\ heap' \in Seq(Range(heap')) /\ Len(heap') = l + 1 /\ heap'[l + 1] = new
        /\ \A x \in 1..l : heap'[x] = old[x]
    <3>1. old \in Seq(Range(old)) /\ Len(old) = l
      BY <2>2
    <3>2. /\ Append(old, new) \in Seq(Range(Append(old, new))) /\ Len(Append(old, new)) = Len(old) + 1
          /\ \A x \in 1..Len(old) : Append(old, new)[x] = old[x]
          /\ Append(old, new)[Len(old) + 1] = new
      BY <3>1, AppendIs
    <3> QED BY <3>1, <3>2, <2>3
  <2>5. ASSUME NEW x \in 1..Len(heap')
        PROVE  /\ StoreOK(heap'[x])
               /\ heap'[x].next = IF x = Len(heap') THEN 0 ELSE x + 1
               /\ heap'[x].retired = IF x < top'.current THEN 1 ELSE 0
    <3>0. x \in 1..(l + 1) /\ top'.current = l
      BY <1>1, <1>2, <2>1, <2>4
    <3>1. CASE x = l + 1
      BY <2>4, <3>0, <3>1
    <3>2. CASE x = s
      <4>1. heap'[x] = [heap[s] EXCEPT !.next = l + 1]
        BY <1>1, <2>2, <2>4, <3>2
      <4>2. StoreOK(heap[s]) /\ heap[s].retired = 0
        BY <1>1, <1>2, <1>3, <2>1
      <4>3. DOMAIN heap'[x] = DOMAIN heap[s] /\ heap'[x].hv = heap[s].hv /\ heap'[x].next = l + 1
            /\ heap'[x].retired = 0
        BY <4>1, <4>2 DEF StoreOK
      <4>4. StoreOK(heap'[x])
        BY <4>2, <4>3 DEF StoreOK
      <4> QED BY <4>3, <4>4, <2>1, <2>4, <3>0, <3>2
    <3>3. CASE x # s /\ x # l + 1
      <4>1. x \in 1..l /\ heap'[x] = heap[x]
        BY <2>2, <2>4, <3>0, <3>3
      <4> QED BY <4>1, <1>3, <2>1, <2>4, <3>0, <3>3
    <3> QED BY <3>1, <3>2, <3>3
  <2>6. HatStores'
    <3>1. "current" \in DOMAIN top' /\ top'.current \in 1..Len(heap') /\ Len(heap') <= top'.current + 1
      BY <1>1, <1>2, <2>1, <2>4
    <3> QED BY <3>1, <2>4, <2>5 DEF HatStores
  <2>7. Grows
    BY <1>1, <1>2, <2>4 DEF Grows
  <2>8. l + 1 = th[t].st + 1 /\ l + 1 <= Len(heap')
    BY <1>12, <2>1, <2>4
  <2>9. Goes(t)
    BY <1>5, <2>7, <2>8, MoveGoes
  <2>10. HatThreads'
    BY <2>7, <2>9, ThreadsGo
  <2>11. HatTodo'
    BY <1>1 DEF HatInv, HatTodo
  <2>12. WrittenOnce
    <3>1. \A x \in 1..l : x \in 1..Len(heap')
      BY <2>4
    <3>2. \A x \in 1..l : heap'[x].hv = heap[x].hv /\ (heap[x].next # 0 => heap'[x].next = heap[x].next)
      <4> SUFFICES ASSUME NEW x \in 1..l
                   PROVE  heap'[x].hv = heap[x].hv /\ (heap[x].next # 0 => heap'[x].next = heap[x].next)
        OBVIOUS
      <4>1. CASE x = s
        <5>1. heap'[x] = [heap[s] EXCEPT !.next = l + 1] /\ DOMAIN heap[s] = {"hv", "rec", "used", "next", "retired"}
          BY <1>3, <2>2, <2>4, <4>1 DEF StoreOK
        <5> QED BY <5>1, <4>1, <1>5
      <4>2. CASE x # s
        BY <2>2, <2>4, <4>2
      <4> QED BY <4>1, <4>2
    <3> QED BY <3>1, <3>2, <2>7, <1>2 DEF WrittenOnce, Grows
  <2> QED BY <2>6, <2>10, <2>11, <2>12 DEF HatInv
<1> QED BY <1>4, <1>5, <1>2, <1>12 DEF Hi!AgreeOnNext

LEMMA NextStoreStep ==
  ASSUME HatInv, MinSize \in Nat \ {0}, NEW t \in Threads,
         Hi!NextStore(t, Hi!StoreNew(Hi!NewSize(Hi!Size(th[t].st), Hi!LiveIn(th[t].st))))
  PROVE  HatInv' /\ WrittenOnce
<1> DEFINE s == th[t].st
           n == Hi!NewSize(Hi!Size(s), Hi!LiveIn(s))
<1>1. th[t].pc = "mark" /\ Hi!AgreeOnNext(t, Hi!StoreNew(n))
  BY DEF Hi!NextStore
<1>2. th[t].pc # "idle"
  BY <1>1
<1>3. s \in 1..Len(heap)
  BY <1>2, Inside
<1>4. n \in Nat \ {0}
  BY <1>3, SizeIs, LiveInIs, NewSizeIs
<1> HIDE DEF n
<1>5. StoreOK(Hi!StoreNew(n)) /\ Hi!StoreNew(n).next = 0 /\ Hi!StoreNew(n).retired = 0
  BY <1>4, NewStoreOK
<1> QED BY <1>1, <1>2, <1>5, AgreeOnNextStep

LEMMA MoveHashStep ==
  ASSUME HatInv, NEW t \in Threads, Hi!MoveHash(t, "move record", "move record")
  PROVE  HatInv' /\ WrittenOnce
<1> DEFINE s == th[t].st
           n == th[t].ns
           i == Hi!Min({Hi!Size(s)} \cup {b \in th[t].i..(Hi!Size(s) - 1) : ~heap[s].rec[b].moved})
           k == heap[s].hv[i]
           x == Hi!Stop(n, k)
<1>1. th[t].pc = "move" /\ todo' = todo /\ top' = top /\ i < Hi!Size(s)
  BY DEF Hi!MoveHash, Hi!FirstFrom
<1>2. heap' = [heap EXCEPT ![n].hv[x] = IF Hi!Stops(n, k) = {} THEN @ ELSE k]
  BY DEF Hi!MoveHash, Hi!FirstFrom
<1>3. Hi!Step(t, [pc |-> IF Hi!Free(n, k) THEN "move record" ELSE "move record",
                  i |-> i, b |-> x, rec |-> heap[s].rec[i]])
  BY DEF Hi!MoveHash, Hi!FirstFrom
<1>4. th[t].pc # "idle" /\ th[t].pc \in Moving /\ s \in 1..Len(heap) /\ n \in 1..Len(heap) /\ th[t].i \in Nat
  BY <1>1, Inside DEF Moving
<1>5. i \in Nat /\ i \in 0..(Hi!Size(s) - 1)
  BY <1>1, <1>4, FirstOf
<1> HIDE DEF i
<1>6. k \in Nat
  BY <1>4, <1>5, SizeIs DEF HashesOK
<1> HIDE DEF k
<1>7. Onward(t)
  <2> DEFINE p == IF Hi!Free(n, k) THEN "move record" ELSE "move record"
             u == [pc |-> p, i |-> i, b |-> x, rec |-> heap[s].rec[i]]
  <2>1. Hi!Go(t, u)
    BY <1>3 DEF Hi!Step
  <2>2. DOMAIN u = {"pc", "i", "b", "rec"} /\ u.i = i
    OBVIOUS
  <2> HIDE DEF u
  <2> QED BY <1>4, <1>5, <2>1, <2>2 DEF Onward
<1>8. PICK new : /\ heap' = [heap EXCEPT ![n].hv = new] /\ HashesOK(new, Hi!Size(n))
                 /\ \A b \in DOMAIN heap[n].hv : heap[n].hv[b] # 0 => new[b] = heap[n].hv[b]
  <2>1. CASE Hi!Stops(n, k) = {}
    <3> HIDE DEF x
    <3>1. heap' = [heap EXCEPT ![n].hv = [heap[n].hv EXCEPT ![x] = heap[n].hv[x]]]
      <4>1. heap' = [heap EXCEPT ![n].hv[x] = heap[n].hv[x]]
        BY <1>2, <2>1
      <4> QED BY <4>1, Zenon
    <3>2. HashesOK(heap[n].hv, Hi!Size(n))
      BY <1>4, SizeIs
    <3>3. [heap[n].hv EXCEPT ![x] = heap[n].hv[x]] = heap[n].hv
      BY <3>2 DEF HashesOK
    <3> QED BY <3>1, <3>2, <3>3, Zenon
  <2>2. CASE Hi!Stops(n, k) # {}
    <3>1. HashesOK([heap[n].hv EXCEPT ![x] = k], Hi!Size(n)) /\ heap[n].hv[x] \in {0, k}
      BY <1>4, <1>6, <2>2, StopProbed
    <3> HIDE DEF x
    <3>3. \A b \in DOMAIN heap[n].hv : heap[n].hv[b] # 0 => [heap[n].hv EXCEPT ![x] = k][b] = heap[n].hv[b]
      BY <3>1
    <3>2. heap' = [heap EXCEPT ![n].hv = [heap[n].hv EXCEPT ![x] = k]]
      <4>1. heap' = [heap EXCEPT ![n].hv[x] = k]
        BY <1>2, <2>2
      <4> QED BY <4>1, Zenon
    <3> QED BY <3>1, <3>2, <3>3, Zenon
  <2> QED BY <2>1, <2>2
<1>9. Grows => Goes(t)
  BY <1>4, <1>7, OnwardGoes
<1> QED BY <1>1, <1>4, <1>8, <1>9, HvChanges

LEMMA InstallStoreStep ==
  ASSUME HatInv, NEW t \in Threads, Hi!InstallStore(t)
  PROVE  HatInv' /\ WrittenOnce
<1>1. th[t].pc = "install" /\ todo' = todo /\ Hi!Migrated(t, top'.current)
  BY DEF Hi!InstallStore
<1>2. th[t].pc # "idle" /\ th[t].pc \in Moving
  BY <1>1 DEF Moving
<1>3. CASE top' = top /\ heap' = heap
  <2>1. Goes(t)
    BY <1>1, <1>2, <1>3, NothingChanges, MigratedGoes
  <2> QED BY <1>1, <1>3, <2>1, NothingChanges, QuietStep
<1>4. CASE top.current = th[t].st /\ top' = [top EXCEPT !.current = th[t].ns]
           /\ heap' = [heap EXCEPT ![th[t].st].retired = @ + 1]
  <2>1. PICK l \in Nat : l = Len(heap)
    BY HeapIs
  <2>2. PICK s \in 1..l : s = top.current
    BY <2>1, HeapIs
  <2>3. s = th[t].st /\ th[t].ns = s + 1 /\ s + 1 \in 1..l
    BY <1>2, <1>4, <2>1, <2>2, Inside
  <2>4. /\ DOMAIN heap = 1..l /\ heap \in Seq(Range(heap)) /\ l <= s + 1 /\ "current" \in DOMAIN top
        /\ \A x \in 1..l : StoreOK(heap[x]) /\ heap[x].next = (IF x = l THEN 0 ELSE x + 1)
                           /\ heap[x].retired = IF x < s THEN 1 ELSE 0
    BY <2>1, <2>2, HeapIs DEF HatInv, HatStores
  <2>5. l = s + 1
    BY <2>3, <2>4
  <2>6. "current" \in DOMAIN top' /\ top'.current = l
    BY <1>4, <2>3, <2>4, <2>5
  <2>7. heap' = [heap EXCEPT ![s].retired = 1]
    <3>1. heap[s].retired = 0
      BY <2>4
    <3> QED BY <1>4, <2>3, <3>1
  <2>8. heap' \in Seq(Range(heap')) /\ Len(heap') = l
    <3>1. heap' \in [1..l -> Range(heap')]
      BY <2>4, <2>7 DEF Range
    <3> QED BY <3>1, FunctionIsSequence
  <2>9. ASSUME NEW x \in 1..l
        PROVE  /\ StoreOK(heap'[x])
               /\ heap'[x].next = IF x = l THEN 0 ELSE x + 1
               /\ heap'[x].retired = IF x < l THEN 1 ELSE 0
    <3>1. CASE x = s
      <4>1. heap'[x] = [heap[s] EXCEPT !.retired = 1]
        BY <2>4, <2>7, <3>1
      <4>2. StoreOK(heap[s]) /\ heap[s].next = s + 1
        BY <2>4, <2>5
      <4>3. DOMAIN heap'[x] = DOMAIN heap[s] /\ heap'[x].hv = heap[s].hv /\ heap'[x].next = heap[s].next
            /\ heap'[x].retired = 1
        BY <4>1, <4>2 DEF StoreOK
      <4>4. StoreOK(heap'[x])
        BY <4>2, <4>3 DEF StoreOK
      <4> QED BY <4>2, <4>3, <4>4, <2>5, <3>1
    <3>2. CASE x # s
      <4>1. heap'[x] = heap[x]
        BY <2>4, <2>7, <3>2
      <4> QED BY <4>1, <2>4, <2>5, <3>2
    <3> QED BY <3>1, <3>2
  <2>10. HatStores'
    <3>1. top'.current \in 1..Len(heap') /\ Len(heap') <= top'.current + 1
      BY <2>5, <2>6, <2>8
    <3> QED BY <3>1, <2>6, <2>8, <2>9 DEF HatStores
  <2>11. Grows
    BY <2>1, <2>2, <2>6, <2>8 DEF Grows
  <2>12. Goes(t)
    BY <1>1, <1>2, <2>11, MigratedGoes
  <2>13. HatThreads'
    BY <2>11, <2>12, ThreadsGo
  <2>14. HatTodo'
    BY <1>1 DEF HatInv, HatTodo
  <2>15. WrittenOnce
    <3>1. \A x \in 1..l : heap'[x].hv = heap[x].hv /\ heap'[x].next = heap[x].next
      <4> SUFFICES ASSUME NEW x \in 1..l PROVE heap'[x].hv = heap[x].hv /\ heap'[x].next = heap[x].next
        OBVIOUS
      <4>1. CASE x = s
        <5>1. heap'[x] = [heap[s] EXCEPT !.retired = 1] /\ DOMAIN heap[s] = {"hv", "rec", "used", "next", "retired"}
          BY <2>4, <2>7, <4>1 DEF StoreOK
        <5> QED BY <5>1, <4>1
      <4>2. CASE x # s
        BY <2>4, <2>7, <4>2
      <4> QED BY <4>1, <4>2
    <3> QED BY <3>1, <2>1, <2>8, <2>11 DEF WrittenOnce, Grows
  <2> QED BY <2>10, <2>13, <2>14, <2>15 DEF HatInv
<1> QED BY <1>3, <1>4 DEF Hi!InstallStore

LEMMA HatStep ==
  ASSUME HatInv, MinSize \in Nat \ {0}, Hi!Next
  PROVE  HatInv' /\ WrittenOnce
<1>1. PICK t \in Threads :
        \/ Hi!Operation(t) \/ Hi!StoreGet(t) \/ Hi!StorePut(t) \/ Hi!StoreReplace(t) \/ Hi!StoreAdd(t)
        \/ Hi!StoreRemove(t) \/ Hi!View(t) \/ Hi!FreezeStore(t) \/ Hi!MoveStore(t)
  BY DEF Hi!Next
<1>2. CASE Hi!Operation(t)
  BY <1>2, OperationStep
<1>3. CASE Hi!StoreGet(t)
  BY <1>3, StoreGetStep
<1>4. CASE Hi!StorePut(t)
  BY <1>4, StorePutStep
<1>5. CASE Hi!StoreReplace(t)
  BY <1>5, StoreReplaceStep
<1>6. CASE Hi!StoreAdd(t)
  BY <1>6, StoreAddStep
<1>7. CASE Hi!StoreRemove(t)
  BY <1>7, StoreRemoveStep
<1>8. CASE Hi!View(t)
  BY <1>8, ViewStep
<1>9. CASE Hi!FreezeStore(t)
  BY <1>9, EnterMigrateStep, MarkMovingStep, MarkEmptyMovedStep, NextStoreStep DEF Hi!FreezeStore
<1>10. CASE Hi!MoveStore(t)
  BY <1>10, MoveHashStep, MoveRecordStep, MarkMovedStep, InstallUsedStep, InstallStoreStep DEF Hi!MoveStore
<1> QED BY <1>1, <1>2, <1>3, <1>4, <1>5, <1>6, <1>7, <1>8, <1>9, <1>10
-----------------------------------------------------------------------------
LEMMA FilledOK ==
  ASSUME Hi!HatConstants
  PROVE  LET f == Hi!Filled(Hi!StoreNew(MinSize), Preload, Hi!LiveRec)
         IN  StoreOK(f) /\ f.next = 0 /\ f.retired = 0
<1> DEFINE st == Hi!StoreNew(MinSize)
           f == Hi!Filled(st, Preload, Hi!LiveRec)
<1>1. MinSize \in Nat \ {0}
  BY HatConstantsAre
<1>2. /\ DOMAIN st = {"hv", "rec", "used", "next", "retired"} /\ DOMAIN st.hv = 0..(MinSize - 1)
      /\ st.next = 0 /\ st.retired = 0
  BY DEF Hi!StoreNew, Hi!EmptyStore, Hi!BareStore
<1>3. Hi!Cardinality(DOMAIN st.hv) = MinSize
  <2>1. Hi!Cardinality(0..(MinSize - 1)) = Cardinality(0..(MinSize - 1))
    BY HatCardinality
  <2> QED BY <1>1, <1>2, <2>1, SlotsCount
<1> HIDE DEF st
<1> DEFINE hv == Hi!Placed(MinSize, Preload)
<1>4. HashesOK(hv, MinSize)
  BY PlacedProbed
<1>5. PICK r, u : f = [st EXCEPT !.hv = hv, !.rec = r, !.used = u]
  <2> DEFINE E(h) == [st EXCEPT
        !.hv   = h,
        !.rec  = [b \in DOMAIN h |-> IF h[b] = 0 THEN st.rec[b] ELSE Hi!LiveRec(Hi!ItemOf(Preload, h[b]))],
        !.used = Hi!Cardinality({b \in DOMAIN h : h[b] # 0})]
  <2>1. f = CHOOSE new \in {E(h) : h \in {Hi!Placed(Hi!Cardinality(DOMAIN st.hv), Preload)}} : TRUE
    BY DEF Hi!Filled
  <2>2. Hi!Placed(Hi!Cardinality(DOMAIN st.hv), Preload) = hv
    BY <1>3
  <2> HIDE DEF hv, f
  <2>3. f = CHOOSE new \in {E(h) : h \in {hv}} : TRUE
    BY <2>1, <2>2
  <2>4. f = E(hv)
    <3> HIDE DEF E
    <3>1. {E(h) : h \in {hv}} = {E(hv)}
      OBVIOUS
    <3> QED BY <2>3, <3>1
  <2> QED BY <2>4
<1> HIDE DEF hv, f
<1>6. DOMAIN f = {"hv", "rec", "used", "next", "retired"} /\ f.hv = hv /\ f.next = 0 /\ f.retired = 0
  BY <1>2, <1>5
<1>7. StoreOK(f)
  BY <1>1, <1>4, <1>6 DEF StoreOK
<1> QED BY <1>6, <1>7 DEF f, st

LEMMA HatBegins ==
  ASSUME Hi!HatConstants, Hi!Init
  PROVE  HatInv
<1> DEFINE f == Hi!Filled(Hi!StoreNew(MinSize), Preload, Hi!LiveRec)
<1>1. heap = <<f>> /\ th = [t \in Threads |-> Hi!Idle] /\ todo \in Workloads
  BY DEF Hi!Init, Hi!Start, Hi!Begins, Hi!BeginsWith, Hi!BeginsAs
<1>2. "current" \in DOMAIN top /\ top.current = 1
  <2>1. PICK n : top = Hi!With([current |-> 1, count |-> n, help |-> 0, mutex |-> 0], <<>>)
    BY DEF Hi!Init, Hi!Start, Hi!Begins, Hi!BeginsWith, Hi!BeginsAs
  <2> QED BY <2>1 DEF Hi!With
<1>3. StoreOK(f) /\ f.next = 0 /\ f.retired = 0
  BY FilledOK
<1> HIDE DEF f
<1>4. heap \in Seq(Range(heap)) /\ Len(heap) = 1 /\ heap[1] = f
  BY <1>1 DEF Range
<1>5. HatStores
  BY <1>2, <1>3, <1>4 DEF HatStores
<1>6. HatThreads
  BY <1>1 DEF HatThreads, Hi!Idle
<1>7. HatTodo
  <2>1. Keys \subseteq Nat
    BY HatConstantsAre
  <2> QED BY <1>1, <2>1, HatConstantsAre DEF HatTodo
<1> QED BY <1>5, <1>6, <1>7 DEF HatInv

LEMMA HatStutter ==
  ASSUME HatInv, UNCHANGED Hi!hatVars
  PROVE  HatInv'
<1>1. top' = top /\ heap' = heap /\ th' = th /\ todo' = todo
  BY DEF Hi!hatVars
<1>2. HatStores'
  BY <1>1 DEF HatInv, HatStores
<1>3. HatThreads'
  BY <1>1 DEF HatInv, HatThreads, HatThread
<1>4. HatTodo'
  BY <1>1 DEF HatInv, HatTodo
<1> QED BY <1>2, <1>3, <1>4 DEF HatInv

LEMMA HatInvUnique ==
  ASSUME HatInv
  PROVE  Hi!KeysUnique
<1> SUFFICES ASSUME NEW s \in 1..Len(heap), NEW b \in Hi!Slots(s), NEW c \in Hi!Slots(s),
                    b # c, heap[s].hv[b] # 0
             PROVE  heap[s].hv[b] # heap[s].hv[c]
  BY HeapIs DEF Hi!KeysUnique
<1>1. HashesOK(heap[s].hv, Hi!Size(s))
  BY SizeIs
<1> QED BY <1>1, ProbedUnique DEF Hi!Slots

LEMMA HatInvRetired ==
  ASSUME HatInv
  PROVE  Hi!StoresRetiredOnce
<1> SUFFICES ASSUME NEW s \in 1..Len(heap)
             PROVE  /\ heap[s].retired <= (IF s < top.current THEN 1 ELSE 0)
                    /\ s < top.current => heap[s].retired = 1
  BY HeapIs DEF Hi!StoresRetiredOnce
<1>1. heap[s].retired = IF s < top.current THEN 1 ELSE 0
  BY DEF HatInv, HatStores
<1> QED BY <1>1

\* hihat.c: the keys of a store lie where their probes find them, the stores are a chain
\* with at most one after the current one, exactly those before it are retired, and a
\* thread that migrates moves a store into the one after it.
THEOREM HiHatInvariance ==
  ASSUME Hi!HatConstants
  PROVE  Hi!Spec => []HatInv
<1>1. Hi!Init => HatInv
  BY HatBegins
<1>2. HatInv /\ [Hi!Next]_Hi!hatVars => HatInv'
  BY HatStep, HatStutter, HatConstantsAre
<1> QED BY <1>1, <1>2, PTL DEF Hi!Spec

\* hihat.c: no two buckets of a store belong to one key, whichever threads race to
\* reserve a bucket in hihat_store_put and hihat_store_add or to copy one in
\* hihat_store_migrate.
THEOREM HiHatKeysUnique ==
  ASSUME Hi!HatConstants
  PROVE  Hi!Spec => []Hi!KeysUnique
<1>1. HatInv => Hi!KeysUnique
  BY HatInvUnique
<1> QED BY <1>1, HiHatInvariance, PTL

\* hihat.c: of the threads that end a migration the one that makes the next store current
\* retires the old one; no store is retired twice, while it is current, or never.
THEOREM HiHatStoresRetiredOnce ==
  ASSUME Hi!HatConstants
  PROVE  Hi!Spec => []Hi!StoresRetiredOnce
<1>1. HatInv => Hi!StoresRetiredOnce
  BY HatInvRetired
<1> QED BY <1>1, HiHatInvariance, PTL

\* hihat.c: the key of a reserved bucket and the link to the next store are written once,
\* and an older store never becomes current again, so that what a probe has passed stays
\* passed and every thread that helps to migrate a store moves it to the same one.
THEOREM HiHatWrittenOnce ==
  ASSUME Hi!HatConstants
  PROVE  Hi!Spec => [][WrittenOnce]_Hi!hatVars
<1>1. HatInv /\ [Hi!Next]_Hi!hatVars => [WrittenOnce]_Hi!hatVars
  BY HatStep, HatConstantsAre
<1> QED BY <1>1, HiHatInvariance, PTL DEF Hi!Spec
=============================================================================
