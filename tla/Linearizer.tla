---------------------------- MODULE Linearizer ----------------------------
(***************************************************************************)
(* Are the answers of concurrent calls those of SOME sequential execution?  *)
(*                                                                         *)
(* A configuration is one way to have executed, one after the other, the   *)
(* calls answered so far and some of the calls still running:              *)
(*   obj   the sequential object after them;                               *)
(*   done  the answers of the running calls that it has executed;          *)
(*   lost  the running calls that lost a race: another call has changed    *)
(*         the same part of the object since they began.                   *)
(* The set of all configurations is kept beside the detailed state.  When  *)
(* a call answers, the configurations that explain the answer remain; a    *)
(* history is linearizable as long as one does.  A call may be executed as *)
(* late as its own answer or another's, so the set is only closed there.   *)
(***************************************************************************)
EXTENDS Naturals, FiniteSets

CONSTANTS
  Apply(_, _),     \* Apply(obj, call): the set of [obj, res] the call may end in
  Yields(_),       \* Yields(call): the answers it may give when it lost a race
  Touches(_, _)    \* Touches(call, other): a change made by call is a race lost by other

Fresh(obj) == {[obj |-> obj, done |-> <<>>, lost |-> {}]}

\* f with y as the value of x.
Put(f, x, y) == [z \in DOMAIN f \cup {x} |-> IF z = x THEN y ELSE f[z]]

\* Ways to execute the running call of thread t next in configuration c.
Executed(c, calls, t) ==
  {[obj  |-> r.obj,
    done |-> Put(c.done, t, r.res),
    lost |-> IF r.obj = c.obj THEN c.lost
             ELSE c.lost \cup {u \in DOMAIN calls \ {t} : Touches(calls[t], calls[u])}]
     : r \in Apply(c.obj, calls[t])}
  \cup {[c EXCEPT !.done = Put(@, t, y)] : y \in IF t \in c.lost THEN Yields(calls[t]) ELSE {}}

\* The configurations of C, and those one running call further.  calls is the
\* function from the threads with a call to their calls.
Spread(C, calls) ==
  UNION {{c} \cup UNION {Executed(c, calls, t) : t \in DOMAIN calls \ DOMAIN c.done} : c \in C}

\* Layer i: at most i running calls further than C.
Layers(C, calls) ==
  LET layer[i \in 0..Cardinality(DOMAIN calls)] == IF i = 0 THEN C ELSE Spread(layer[i - 1], calls)
  IN layer

\* Everything that running calls may have done by now.
Closure(C, calls) == Layers(C, calls)[Cardinality(DOMAIN calls)]

\* What remains when thread t answers res.
Answered(C, calls, t, res) ==
  {[obj  |-> c.obj,
    done |-> [u \in DOMAIN c.done \ {t} |-> c.done[u]],
    lost |-> c.lost \ {t}]
     : c \in {d \in Closure(C, calls) : t \in DOMAIN d.done /\ d.done[t] = res}}
=============================================================================
