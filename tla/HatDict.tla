------------------------------- MODULE HatDict -------------------------------
(***************************************************************************)
(* hatrack_dict: keys and values in a crown.  What crown stores is a       *)
(* pointer to a pair of key and value; the dictionary allocates the pairs  *)
(* and retires them: the one a write replaced, or the new one if it did    *)
(* not get in.                                                             *)
(*                                                                         *)
(* crown is reduced here to what the dictionary sees of it (module Crown   *)
(* has the rest): a record per key that is read and then swapped.  heap is *)
(* the pairs allocated so far, top.map the pair of each key, 0 for none.   *)
(*                                                                         *)
(* hatrack_set: the algebra of sets, as operators.                         *)
(***************************************************************************)
EXTENDS Hat

CONSTANT Hashes   \* the hash values in the sets compared

Pair(value) == [value |-> value, retired |-> 0, freed |-> 0]

\* hatrack_dict_init, and the puts of Preload
Init ==
  /\ heap = [n \in DOMAIN Preload |-> Pair(Preload[n][2])]
  /\ top = [map |-> [k \in Keys |-> IF \E n \in DOMAIN Preload : Preload[n][1] = k
                                    THEN CHOOSE n \in DOMAIN Preload : Preload[n][1] = k ELSE 0]]
  /\ th = [t \in Threads |-> Idle]
  /\ todo \in Workloads
  /\ lin = L!Fresh(InitialDict(Preload))

\* mmm_retire, mmm_retire_unused
Retired(n) == [heap EXCEPT ![n].retired = @ + 1]
Unused(n)  == [heap EXCEPT ![n].freed = @ + 1]

Value(n) == IF n = 0 THEN None ELSE heap[n].value
Key(t) == th[t].call.key

BeginDict(t, op, pc) ==
  /\ todo[t] # <<>> /\ Head(todo[t]).op = op
  /\ Begin(t, [pc |-> pc, new |-> 0, old |-> 0, saw |-> 0, want |-> Keys, i |-> Min(Keys)])
  /\ UNCHANGED <<top, heap>>

\* mmm_alloc_committed of the new pair
NewPair(t) ==
  /\ th[t].pc = "new"
  /\ heap' = Append(heap, Pair(th[t].call.item))
  /\ Step(t, [pc |-> "record", new |-> Len(heap) + 1])
  /\ UNCHANGED <<todo, top>>

\* crown reads the record; a writer that finds nothing to write to is done.
ReadRecord(t, applies, Refused) ==
  /\ th[t].pc = "record"
  /\ IF applies THEN Step(t, [pc |-> "swap", saw |-> top.map[Key(t)]]) /\ UNCHANGED heap ELSE Refused
  /\ UNCHANGED <<todo, top>>

\* crown swaps it for the pair n; lost is what it returns to a writer overtaken.
SwapRecord(t, n, lost) ==
  /\ th[t].pc = "swap"
  /\ \/ /\ top.map[Key(t)] = th[t].saw
        /\ top' = [top EXCEPT !.map[Key(t)] = n]
        /\ Step(t, [pc |-> "won", old |-> th[t].saw])
     \/ /\ top.map[Key(t)] # th[t].saw
        /\ Step(t, [pc |-> "lost", old |-> lost]) /\ UNCHANGED top
  /\ UNCHANGED <<todo, heap>>
-----------------------------------------------------------------------------
\* hatrack_dict_get_mmm
DictGet(t) ==
  \/ BeginDict(t, "get", "record")
  \/ /\ Calling(t, "get")
     /\ \/ /\ th[t].pc = "record"
           /\ Step(t, [pc |-> "value", old |-> top.map[Key(t)]])
        \/ th[t].pc = "value" /\ Answer(t, Value(th[t].old))
     /\ UNCHANGED <<todo, top, heap>>

\* The pair that crown_store_put returned, the old one or the writer's own, is retired.
Replaced(t) == heap' = IF th[t].old = 0 THEN heap ELSE Retired(th[t].old)

\* hatrack_dict_put_mmm
DictPut(t) ==
  \/ BeginDict(t, "put", "new")
  \/ Calling(t, "put") /\ (NewPair(t) \/ ReadRecord(t, TRUE, FALSE) \/ SwapRecord(t, th[t].new, th[t].new))
  \/ /\ Calling(t, "put") /\ th[t].pc \in {"won", "lost"}
     /\ Replaced(t)
     /\ Answer(t, Value(th[t].old))
     /\ UNCHANGED <<todo, top>>

\* hatrack_dict_replace_mmm puts as well; if there was nothing to replace it frees the
\* pair that it has just stored.
DictReplace(t) ==
  \/ BeginDict(t, "replace", "new")
  \/ Calling(t, "replace") /\ (NewPair(t) \/ ReadRecord(t, TRUE, FALSE) \/ SwapRecord(t, th[t].new, th[t].new))
  \/ /\ Calling(t, "replace") /\ th[t].pc \in {"won", "lost"}
     /\ heap' = IF th[t].old = 0 THEN Unused(th[t].new) ELSE Retired(th[t].old)
     /\ Answer(t, Value(th[t].old))
     /\ UNCHANGED <<todo, top>>

\* A pair that did not get in is freed at once.
Refuse(t) == heap' = Unused(th[t].new) /\ Answer(t, None)

\* hatrack_dict_add_mmm
DictAdd(t) ==
  \/ BeginDict(t, "add", "new")
  \/ /\ Calling(t, "add")
     /\ \/ NewPair(t)
        \/ ReadRecord(t, top.map[Key(t)] = 0, Refuse(t))
        \/ SwapRecord(t, th[t].new, 0)
  \/ /\ Calling(t, "add") /\ th[t].pc = "won"
     /\ Answer(t, th[t].call.item) /\ UNCHANGED <<todo, top, heap>>
  \/ /\ Calling(t, "add") /\ th[t].pc = "lost"
     /\ Refuse(t) /\ UNCHANGED <<todo, top>>

\* hatrack_dict_remove_mmm
DictRemove(t) ==
  \/ BeginDict(t, "remove", "record")
  \/ /\ Calling(t, "remove")
     /\ \/ ReadRecord(t, top.map[Key(t)] # 0, Answer(t, None) /\ UNCHANGED heap)
        \/ SwapRecord(t, 0, 0)
  \/ /\ Calling(t, "remove") /\ th[t].pc = "won"
     /\ heap' = Retired(th[t].old)
     /\ Answer(t, Value(th[t].old)) /\ UNCHANGED <<todo, top>>
  \/ /\ Calling(t, "remove") /\ th[t].pc = "lost"
     /\ Answer(t, None) /\ UNCHANGED <<todo, top, heap>>

\* hatrack_dict_cas_mmm with null_means_missing looks the pair up first.  A pair with
\* another value ends the call, which frees whatever its unset new_item points to.
CasCompare(t) ==
  LET old == th[t].old
      expected == th[t].call.expected
  IN /\ \/ /\ th[t].pc = "look"
           /\ Step(t, [pc |-> "compare", old |-> top.map[Key(t)]])
           /\ UNCHANGED heap
        \/ /\ th[t].pc = "compare"
           /\ IF old # 0 /\ Value(old) # expected
              THEN (\E garbage \in DOMAIN heap : heap' = Unused(garbage)) /\ Answer(t, None)
              ELSE Step(t, [pc |-> "new"]) /\ UNCHANGED heap
     /\ UNCHANGED <<todo, top>>

\* With no pair there and none expected the new pair is added; otherwise crown_store_cas
\* swaps it for the pair found.  That it returns NULL, as it does whenever it fails,
\* counts as success if no pair was found but one was expected; and then the call
\* goes on to mmm_retire the null pointer, which writes to the header before it.
CasRecord(t) ==
  LET old == th[t].old
      expected == th[t].call.expected
  IN /\ th[t].pc = "record"
     /\ CASE old = 0 /\ expected # None -> Step(t, [pc |-> "fault"]) /\ UNCHANGED heap
          [] old = top.map[Key(t)] /\ (old # 0 \/ expected = None) ->
               Step(t, [pc |-> "swap", saw |-> old]) /\ UNCHANGED heap
          [] OTHER -> Refuse(t)
     /\ UNCHANGED <<todo, top>>

DictCas(t) ==
  \/ BeginDict(t, "cas", "look")
  \/ Calling(t, "cas") /\ (CasCompare(t) \/ NewPair(t) \/ CasRecord(t) \/ SwapRecord(t, th[t].new, 0))
  \/ /\ Calling(t, "cas") /\ th[t].pc \in {"won", "lost"}
     /\ IF th[t].pc = "won" THEN Replaced(t) /\ Answer(t, th[t].call.expected) ELSE Refuse(t)
     /\ UNCHANGED <<todo, top>>

\* hatrack_dict_items_base with crown_view_fast_mmm: one record after the other.
DictItems(t) ==
  \/ BeginDict(t, "scan", "scan")
  \/ /\ Calling(t, "scan")
     /\ LET k == th[t].i
            Further == [i |-> Min({j \in Keys : j > k} \cup {Max(Keys) + 1})]
        IN \/ k > Max(Keys) /\ EndScan(t)
           \/ k \in Keys /\ top.map[k] = 0 /\ Step(t, Further)
           \/ k \in Keys /\ top.map[k] # 0 /\ Report(t, k, Value(top.map[k]), Further)
     /\ UNCHANGED <<todo, top, heap>>

Next == \E t \in Threads : DictGet(t) \/ DictPut(t) \/ DictReplace(t) \/ DictAdd(t) \/ DictRemove(t) \/ DictCas(t) \/ DictItems(t)

\* A pair is given back once, by one thread, never while the table holds it, and always
\* when the calls have ended.
PairsRetiredOnce ==
  \A n \in DOMAIN heap :
    LET back == heap[n].retired + heap[n].freed
        held == \E k \in Keys : top.map[k] = n
    IN /\ back <= 1
       /\ held => back = 0
       /\ Finished /\ ~held => back = 1
-----------------------------------------------------------------------------
(* hatrack_set.  Both operands of its algebra are views of one epoch,      *)
(* sorted by hash value; the operations march through them in tandem.  An  *)
(* item is its hash value; where the order of insertion matters it is a    *)
(* pair of a hash value and an epoch.                                      *)

\* hatrack_set_hv_sort_cmp, hatrack_set_epoch_sort_cmp
ByHash(s) == SetToSortSeq(s, LAMBDA x, y : x < y)
ByEpoch(s) == SetToSortSeq(s, LAMBDA x, y : x.epoch < y.epoch)

\* The march: of two different hashes the lower one's view goes on, of two equal ones
\* both do, until one view ends.  The items of the kinds in keep are collected.
March(a, b, keep) ==
  LET v == ByHash(a)
      w == ByHash(b)
      Kept(kind, x) == IF kind \in keep THEN {x} ELSE {}
      from[i \in 1..(Len(v) + 1), j \in 1..(Len(w) + 1)] ==
        CASE i > Len(v) \/ j > Len(w) -> {}
          [] i <= Len(v) /\ j <= Len(w) /\ v[i] = w[j] -> Kept("both", v[i]) \cup from[i + 1, j + 1]
          [] i <= Len(v) /\ j <= Len(w) /\ v[i] > w[j] -> Kept("second", w[j]) \cup from[i, j + 1]
          [] i <= Len(v) /\ j <= Len(w) /\ v[i] < w[j] -> Kept("first", v[i]) \cup from[i + 1, j]
  IN from[1, 1]

Difference(a, b) == March(a, b, {"first"})
Intersection(a, b) == March(a, b, {"both"})
Disjunction(a, b) == March(a, b, {"first", "second"})
IsDisjoint(a, b) == March(a, b, {"both"}) = {}

IsEq(a, b) ==
  LET v == ByHash(a)
      w == ByHash(b)
  IN Len(v) = Len(w) /\ \A i \in DOMAIN w : v[i] = w[i]

\* Mutant: both views go on when the hashes differ.
IsSuperset_BothAdvance(a, b, proper) ==
  LET v == ByHash(a)
      w == ByHash(b)
  IN /\ Len(w) <= Len(v) /\ (proper => Len(w) # Len(v))
     /\ \A i \in DOMAIN w : v[i] <= w[i]

\* For every item of b the view of a is searched on from where the last one was found.
\* The search reads one cell beyond the view before it stops; what it finds there is
\* no item's hash.
IsSuperset(a, b, proper) ==
  LET v == ByHash(a)
      w == ByHash(b)
      from[i \in 1..(Len(w) + 1), j \in 1..(Len(v) + 1)] ==
        CASE i > Len(w) -> ~(proper /\ Len(v) = Len(w))
          [] i <= Len(w) /\ j > Len(v) -> FALSE
          [] i <= Len(w) /\ j <= Len(v) /\ v[j] = w[i] -> from[i + 1, j]
          [] i <= Len(w) /\ j <= Len(v) /\ v[j] > w[i] -> FALSE
          [] i <= Len(w) /\ j <= Len(v) /\ v[j] < w[i] -> from[i, j + 1]
  IN Len(w) <= Len(v) /\ from[1, 1]

IsSubset(a, b, proper) == IsSuperset(b, a, proper)

\* The views are merged by epoch; an item that is there already is not added again.
\* The answer is the order of insertion.
Union(a, b) ==
  LET v == ByEpoch(a)
      w == ByEpoch(b)
      Add(seq, x) == IF \E n \in DOMAIN seq : seq[n] = x.hash THEN seq ELSE Append(seq, x.hash)
      upto[i \in 0..Len(v), j \in 0..Len(w)] ==   \* the first i and j items are in
        CASE i = 0 /\ j = 0 -> <<>>
          [] i > 0 /\ (j = 0 \/ (j > 0 /\ w[j].epoch <= v[i].epoch)) -> Add(upto[i - 1, j], v[i])
          [] j > 0 /\ (i = 0 \/ (i > 0 /\ v[i].epoch < w[j].epoch)) -> Add(upto[i, j - 1], w[j])
  IN upto[Len(v), Len(w)]
-----------------------------------------------------------------------------
\* The views of two sets, as one epoch finds them: every insertion, into either set,
\* had an epoch of its own, and only the order of these matters.
Views ==
  UNION {LET places == ({1} \X s) \cup ({2} \X r)
             View(since, n) == {[hash |-> p[2], epoch |-> since[p]] : p \in {q \in places : q[1] = n}}
         IN {<<View(since, 1), View(since, 2)>> : since \in Bijection(places, 1..Cardinality(places))}
           : s, r \in SUBSET Hashes}

\* The marches compute what they are named for from the hashes a and b of two views.
\* Difference and disjunction stop with the view that ends first: they yield no item
\* too much, and miss none that is below the highest of the other set.
MarchesRight(a, b) ==
  LET Below(s) == {x \in Hashes : \E y \in s : x < y} IN
  /\ Intersection(a, b) = a \cap b
  /\ IsDisjoint(a, b) <=> a \cap b = {}
  /\ IsEq(a, b) <=> a = b
  /\ IsSuperset(a, b, FALSE) <=> b \subseteq a
  /\ IsSubset(a, b, TRUE) <=> (a \subseteq b /\ a # b)
  /\ Difference(a, b) \subseteq a \ b
  /\ (a \ b) \cap Below(b) \subseteq Difference(a, b)
  /\ Disjunction(a, b) \subseteq (a \ b) \cup (b \ a)
  /\ ((a \ b) \cap Below(b)) \cup ((b \ a) \cap Below(a)) \subseteq Disjunction(a, b)

\* A union has every item once, in the order of the first insertions into either set.
UnionRight(a, b) ==
  LET Since(h) == Min({x.epoch : x \in {y \in a \cup b : y.hash = h}})
      u == Union(a, b)
  IN /\ Range(u) = {x.hash : x \in a \cup b}
     /\ \A m, n \in DOMAIN u : m < n => u[m] # u[n] /\ Since(u[m]) < Since(u[n])
=============================================================================
