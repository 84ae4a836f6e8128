-------------------------------- MODULE Hat --------------------------------
(***************************************************************************)
(* What the hatrack hash tables share: stores with buckets, the probe for  *)
(* a bucket, the size of the next store, and threads that call the tables' *)
(* operations.  A key stands for its 128-bit hash value, which the tables  *)
(* take for the key itself; 0 is the unreserved bucket.  No two calls      *)
(* store the same item, so an item also names the call that stored it, and *)
(* a compare-and-swap that finds its expected item finds an unchanged one. *)
(***************************************************************************)
EXTENDS Naturals, FiniteSets, FiniteSetsExt, Sequences, SequencesExt, TLC

CONSTANTS
  Threads,
  Keys,        \* hash values, positive
  Workloads,   \* functions from threads to sequences of calls
  Preload,     \* the pairs <<key, item>> put before the threads begin
  MinSize,     \* HATRACK_MIN_SIZE
  MaxStores    \* bound: stores allocated in one run

KeysOf(pairs) == {pairs[j][1] : j \in 1..Len(pairs)}

\* The keys put before the threads begin fit into the first store, and a call that
\* is no view has a key.
HatConstants ==
  /\ Keys \subseteq Nat \ {0}
  /\ MinSize \in Nat \ {0}
  /\ MaxStores \in Nat \ {0}
  /\ Preload \in Seq(Range(Preload)) /\ KeysOf(Preload) \subseteq Keys /\ Cardinality(KeysOf(Preload)) <= MinSize
  /\ \A w \in Workloads :
       /\ DOMAIN w = Threads
       /\ \A t \in Threads :
            /\ w[t] \in Seq(Range(w[t]))
            /\ \A n \in 1..Len(w[t]) : w[t][n].op \notin {"scan", "view"} => w[t][n].key \in Keys

ASSUME HatAssumption == HatConstants

None == "none"

VARIABLES
  top,    \* the table's own fields
  heap,   \* the stores allocated so far, in order
  th,     \* what each thread is doing
  todo,   \* the calls each thread has still to make
  lin     \* the sequential executions that explain the answers so far

hatVars == <<top, heap, th, todo, lin>>
-----------------------------------------------------------------------------
(* The sequential dictionary the tables implement.                         *)

Dict(d, c) ==
  CASE c.op = "get"     -> [obj |-> d, res |-> d[c.key]]
    [] c.op = "put"     -> [obj |-> [d EXCEPT ![c.key] = c.item], res |-> d[c.key]]
    [] c.op = "replace" -> [obj |-> IF d[c.key] = None THEN d ELSE [d EXCEPT ![c.key] = c.item],
                            res |-> d[c.key]]
    [] c.op = "cas"     -> IF d[c.key] = c.expected
                           THEN [obj |-> [d EXCEPT ![c.key] = c.item], res |-> c.expected]
                           ELSE [obj |-> d, res |-> None]
    [] c.op = "add"     -> [obj |-> IF d[c.key] = None THEN [d EXCEPT ![c.key] = c.item] ELSE d,
                            res |-> IF d[c.key] = None THEN c.item ELSE None]
    [] c.op = "remove"  -> [obj |-> [d EXCEPT ![c.key] = None], res |-> d[c.key]]
    [] c.op = "discard" -> [obj |-> [d EXCEPT ![c.key] = None], res |-> IF d[c.key] = None THEN None ELSE "found"]
    [] c.op = "view"    -> [obj |-> d, res |-> d]

\* A writer that loses the race for a bucket is ordered before the winner: it
\* hands its own item back, to be freed, or finds nothing.
Overwritten(c) ==
  CASE c.op \in {"put", "replace"} -> {c.item, None}
    [] c.op \in {"cas", "remove", "discard"} -> {None}
    [] OTHER -> {}

DictApply(d, c)  == {Dict(d, c)}
SameKey(c, other) == other.op # "view" /\ c.key = other.key

L == INSTANCE Linearizer WITH Apply <- DictApply, Yields <- Overwritten, Touches <- SameKey
-----------------------------------------------------------------------------
(* Stores and buckets.                                                     *)

\* hatrack_compute_table_threshold
Threshold(size) == size - (size \div 4) - 1

\* hatrack_new_size
NewSize(size, used) ==
  CASE used >= size \div 2  -> 2 * size
    [] used < size \div 2 /\ used <= 4 * MinSize -> 8 * MinSize
    [] used < size \div 2 /\ used > 4 * MinSize /\ used <= size \div 4 -> size \div 2
    [] OTHER -> size

Size(s)     == Cardinality(DOMAIN heap[s].hv)
Slots(s)    == 0..(Size(s) - 1)
\* hatrack_bucket_index, and i steps of linear probing after it
Bucket(s, k, i) == (k + i) % Size(s)

\* A probe for k ends at the first bucket that holds k or is unreserved; a
\* reserved bucket never changes its hash value, so what a probe has passed
\* stays passed and the whole probe may be taken at its last read.
Stops(s, k) == {i \in Slots(s) : heap[s].hv[Bucket(s, k, i)] \in {0, k}}
Found(s, k) == Stops(s, k) # {} /\ heap[s].hv[Bucket(s, k, Min(Stops(s, k)))] = k
Free(s, k)  == Stops(s, k) # {} /\ heap[s].hv[Bucket(s, k, Min(Stops(s, k)))] = 0
\* ... or, in a store without such a bucket, at the last one of its round.
Stop(s, k)  == Bucket(s, k, IF Stops(s, k) = {} THEN Size(s) - 1 ELSE Min(Stops(s, k)))
-----------------------------------------------------------------------------
(* Calls.                                                                  *)

Idle == [pc |-> "idle"]

\* A view that promises no snapshot reads one bucket after the other: it is as
\* good as one get for each key, all begun with the view.  want is the set of
\* keys that such a view has not reported yet.
Parts(t) == CASE th[t].pc = "idle" -> {}
              [] th[t].pc # "idle" /\ th[t].call.op = "scan" -> th[t].want
              [] OTHER -> {0}

Calls == [x \in UNION {{t} \X Parts(t) : t \in Threads} |->
            IF x[2] = 0 THEN th[x[1]].call ELSE [op |-> "get", key |-> x[2]]]

\* The running calls whose order matters to call x.  Calls on other keys
\* commute with it, and no answer tells their order unless a view is running.
Related(x) ==
  IF \E y \in DOMAIN Calls : Calls[y].op = "view" THEN Calls
  ELSE [y \in {z \in DOMAIN Calls : Calls[z].key = Calls[x].key} |-> Calls[y]]

\* Record r with the fields of upd changed or added.
With(r, upd) == [f \in DOMAIN upd \cup DOMAIN r |-> IF f \in DOMAIN upd THEN upd[f] ELSE r[f]]

\* Thread t takes its next call and reads the store it will work on.
Begin(t, first) ==
  /\ th[t].pc = "idle" /\ todo[t] # <<>>
  /\ th' = [th EXCEPT ![t] = With(first, [call |-> Head(todo[t])])]
  /\ todo' = [todo EXCEPT ![t] = Tail(@)]
  /\ UNCHANGED lin

\* Thread t goes on at upd.pc with the local variables of upd changed.
Go(t, upd) == th' = [th EXCEPT ![t] = With(@, upd)]
Step(t, upd) == Go(t, upd) /\ UNCHANGED lin

\* Thread t is inside a call of the operation op.
Calling(t, op) == th[t].pc # "idle" /\ th[t].call.op = op

\* The table operation answers res: the call ends.
Answer(t, res) ==
  /\ th' = [th EXCEPT ![t] = Idle]
  /\ lin' = L!Answered(lin, Related(<<t, 0>>), <<t, 0>>, res)

\* A scan reports item for key k and goes on.  No dictionary explains a second
\* report for a key, or one for no key.
Report(t, k, item, upd) ==
  /\ th' = [th EXCEPT ![t] = With([th[t] EXCEPT !.want = @ \ {k}], upd)]
  /\ lin' = IF k \in th[t].want THEN L!Answered(lin, Related(<<t, k>>), <<t, k>>, item) ELSE {}

\* A scan ends: it has not reported the keys still wanted.
EndScan(t) ==
  /\ th' = [th EXCEPT ![t] = Idle]
  /\ lin' = FoldSet(LAMBDA k, C : L!Answered(C, [y \in DOMAIN Related(<<t, k>>) \ ({t} \X (th[t].want \ {k})) |-> Calls[y]],
                                               <<t, k>>, None),
                    lin, th[t].want)

Stay == UNCHANGED <<todo, lin>>

\* The hash values of the buckets after linear probing for a place for k.  The
\* singleton makes TLC evaluate hv once, however deep in a fold.
Place(hv, size, k) ==
  CHOOSE new \in
    {[h EXCEPT ![(k + Min({j \in 0..(size - 1) : h[(k + j) % size] \in {0, k}})) % size] = k] : h \in {hv}}
    : TRUE

\* The hash values of size empty buckets after a put of each key of the
\* sequence of pairs <<key, item>>, one after the other.
Placed(size, pairs) ==
  LET placed[n \in 0..Len(pairs)] ==
        IF n = 0 THEN [b \in 0..(size - 1) |-> 0] ELSE Place(placed[n - 1], size, pairs[n][1])
  IN placed[Len(pairs)]

ItemOf(pairs, k) == LET n == Max({j \in DOMAIN pairs : pairs[j][1] = k}) IN pairs[n][2]

BareStore(size, empty) ==
  [hv |-> [b \in 0..(size - 1) |-> 0], rec |-> [b \in 0..(size - 1) |-> empty],
   used |-> 0, next |-> 0, retired |-> 0]

\* store, with no bucket in use, after the puts of pairs.
Filled(store, pairs, live(_)) ==
  CHOOSE new \in
    {[store EXCEPT
        !.hv   = hv,
        !.rec  = [b \in DOMAIN hv |-> IF hv[b] = 0 THEN store.rec[b] ELSE live(ItemOf(pairs, hv[b]))],
        !.used = Cardinality({b \in DOMAIN hv : hv[b] # 0})]
       : hv \in {Placed(Cardinality(DOMAIN store.hv), pairs)}}
    : TRUE

InitialDict(pairs) == [k \in Keys |-> IF \E j \in DOMAIN pairs : pairs[j][1] = k
                                      THEN ItemOf(pairs, k) ELSE None]

\* The table after the puts of Preload: first is its only store, more are the
\* fields of top that only some tables have.
BeginsAs(first, more) ==
  /\ heap = <<first>>
  /\ top = With([current |-> 1, count |-> Cardinality(KeysOf(Preload)),
                    help |-> 0, mutex |-> 0], more)
  /\ th = [t \in Threads |-> Idle]
  /\ todo \in Workloads
  /\ lin = L!Fresh(InitialDict(Preload))

BeginsWith(store, live(_), more) == BeginsAs(Filled(store, Preload, live), more)

Begins(store, live(_)) == BeginsWith(store, live, <<>>)

\* Every answer so far is that of a sequential dictionary.
Linearizable == lin # {}

\* Nothing is left to do.
Finished == \A t \in Threads : th[t].pc = "idle" /\ todo[t] = <<>>

\* No two buckets of a store belong to one key: racing insertions, and racing
\* copies of a migration, agree on the bucket.
KeysUnique ==
  \A s \in DOMAIN heap : "hv" \in DOMAIN heap[s] =>
    \A b, c \in Slots(s) : b # c /\ heap[s].hv[b] # 0 => heap[s].hv[b] # heap[s].hv[c]

\* A store that was replaced is retired by one thread only, never while it is
\* current, and always in the end.
StoresRetiredOnce ==
  \A s \in DOMAIN heap :
    /\ heap[s].retired <= (IF s < top.current THEN 1 ELSE 0)
    /\ Finished /\ s < top.current => heap[s].retired = 1
=============================================================================
