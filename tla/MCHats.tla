------------------------------- MODULE MCHats -------------------------------
(***************************************************************************)
(* The hatrack tables for TLC.  One run checks them all: which names the   *)
(* table of a behaviour, and the module of that table makes its steps.     *)
(* The workloads bring two or three threads to one key while the store is  *)
(* about to be migrated: the tables begin one insertion short of it.       *)
(***************************************************************************)
EXTENDS Hat

CONSTANT Hashes   \* the hash values in the sets compared

VARIABLE which
-----------------------------------------------------------------------------
(* Calls and workloads.                                                    *)

Get(k)      == [op |-> "get", key |-> k]
Op(o, k, v) == [op |-> o, key |-> k, item |-> v]
AllKeys     == [op |-> "scan"]              \* a view without a snapshot
Snapshot    == [op |-> "view", key |-> 0]
Run(a, b, c) == [t \in 1..3 |-> CASE t = 1 -> a [] t = 2 -> b [] OTHER -> c]

Writes == {"put", "replace", "add", "remove"}

\* Stores of four buckets that hold two keys; a third key makes them migrate.
TwoKeys == << <<7, "p">>, <<15, "q">> >>

\* A writer that migrates the store, and one that writes a key of it.
TwoWriters ==
  {Run(<<Op("put", 5, "x")>>, <<Op(o, 7, "y"), Get(7)>>, <<>>) : o \in Writes}
  \cup {Run(<<Op(p, 7, "x"), Get(15)>>, <<Op(o, 7, "y")>>, <<>>) : o, p \in Writes}

\* Two writers that insert the key that makes the store migrate.
TwoInserters == {Run(<<Op("put", 5, "x")>>, <<Op("add", 5, "y"), Get(5)>>, <<>>)}

\* The wait-free tables, whose calls take more steps; other is the second key.
FewWriters(other) ==
  {Run(<<Op("put", 5, "x")>>, <<Op(o, 7, "y")>>, <<>>) : o \in Writes}
  \cup {Run(<<Op(p, 7, "x"), Get(other)>>, <<Op(o, 7, "y")>>, <<>>) : o \in {"put", "remove"}, p \in Writes}
  \cup {Run(<<Op("put", 7, "x")>>, <<>>, <<AllKeys>>)}

\* Two threads migrate a store with two keys of one home; one of them looks for a key.
TwoHelpers == {Run(<<Op("put", 5, "x"), Get(15)>>, <<Op("put", 7, "y")>>, <<>>)}

\* Stores with histories: two writers of a key, the first then migrates; or one
\* writer of two keys and a reader.
HistoryKeys == << <<7, "p">>, <<3, "q">> >>
Histories(writes) ==
  {Run(<<Op(a, 7, "x"), Op("put", 5, "z")>>, <<Op(b, 7, "y")>>, <<>>) : a, b \in writes}
Readers(writes) ==
  {Run(<<Op(a, 7, "x"), Op(b, 5, "z")>>, <<>>, <<g>>) : a, b \in writes, g \in {Get(7), Snapshot}}

\* woolhat's remove tells no item.
WoolWrites == {"put", "replace", "add", "discard"}
WoolWorkloads ==
  {Run(<<Op(a, 7, "x")>>, <<Op(b, 7, "y")>>, <<>>) : a, b \in WoolWrites}
  \cup {Run(<<Op("discard", 7, "x")>>, <<Op("put", 7, "y")>>, <<Op(c, 7, "z")>>) : c \in WoolWrites \ {"discard"}}
  \cup {Run(<<Op("discard", 7, "x")>>, <<Op("put", 7, "y"), Op("discard", 7, "y"), Op("put", 7, "z")>>, <<>>)}
  \cup Histories(WoolWrites \ {"discard"}) \cup Readers(WoolWrites)

\* Stores of eight buckets that hold four or five keys, for tables whose writers lock.
FourKeys == << <<7, "p">>, <<15, "q">>, <<3, "r">>, <<8, "s">> >>
FiveKeys == FourKeys \o << <<1, "u">> >>
LockedWriters ==
  {Run(<<Op("put", 5, "x")>>, <<Op(o, 7, "y"), Get(7)>>, <<Op(p, 7, "z")>>) : o, p \in Writes}
  \cup {Run(<<Op("remove", 7, "x")>>, <<Op("put", 5, "y")>>, <<AllKeys>>),
        Run(<<Op("add", 5, "x")>>, <<Op("put", 5, "y")>>, <<AllKeys>>),
        Run(<<Op("remove", 7, "x")>>, <<Op("add", 7, "y")>>, <<Get(7)>>)}
LoneCallers ==
  {Run(<<Op(o, 5, "x"), Get(7)>>, <<Op(p, 7, "y"), Snapshot>>, <<Op(q, 7, "z")>>) : o, p, q \in Writes}
NewsWorkloads ==
  {Run(<<Op(o, 5, "x")>>, <<Op(p, 7, "y")>>, <<r>>)
     : o \in {"put", "add"}, p \in Writes \ {"remove"}, r \in {Get(7), AllKeys}}
  \cup {Run(<<Op("remove", 7, "x"), Op("add", 7, "z")>>, <<Op(o, 7, "y")>>, <<Get(7)>>) : o \in Writes}
BallWorkloads ==
  {Run(<<Op(a, 7, "x"), Op("put", 5, "z")>>, <<Op(b, 7, "y")>>, <<Get(7)>>) : a, b \in Writes \ {"add"}}
  \cup {Run(<<Op(a, 7, "x"), Op(b, 5, "z")>>, <<>>, <<Snapshot>>) : a, b \in Writes}
  \cup {Run(<<Op("remove", 7, "x")>>, <<Op("add", 5, "y"), Get(7)>>, <<Op("add", 5, "z")>>)}
BallKeys == << <<7, "p">>, <<3, "q">>, <<1, "r">>, <<2, "s">>, <<4, "u">> >>

OldWorkloads ==
  {Run(<<Op(o, 5, "x")>>, <<Op(p, 7, "y")>>, <<r>>)
     : o \in {"put", "add"}, p \in {"put", "replace"}, r \in {Get(7), AllKeys}}
  \cup {Run(<<Op("remove", 7, "x"), Op("add", 7, "z")>>, <<Op(o, 7, "y")>>, <<Get(7)>>) : o \in Writes}
TiaraWorkloads ==
  {Run(<<Op(o, 5, "x"), Get(7)>>, <<r>>, <<>>) : o \in {"put", "add"}, r \in {Get(7), AllKeys}}
  \cup {Run(<<Op("put", 7, "x")>>, <<Op(o, 7, "y")>>, <<Get(7)>>) : o \in Writes \ {"remove"}}
TopWorkloads ==
  {Run(<<Op(a, 7, "x")>>, <<Op(b, 7, "y")>>, <<g>>) : a, b \in Writes, g \in {Get(7), AllKeys}}
  \cup {Run(<<Op(a, 7, "x"), Op(b, 5, "z"), Get(7)>>, <<>>, <<>>) : a, b \in Writes}

\* The dictionary on top of crown: pairs of one key that change hands.
Swap(k, v, e) == [op |-> "cas", key |-> k, item |-> v, expected |-> e]
DictCalls == {Op(o, k, "y") : o \in {"put", "add", "remove"}, k \in {5, 7}}
DictWorkloads ==
  {Run(<<Op("put", 7, "x")>>, <<c>>, <<d>>) : c \in DictCalls, d \in {Get(7), AllKeys}}
  \cup {Run(<<a>>, <<Op(o, 7, "y")>>, <<Op("put", 7, "z")>>)
          : a \in {Op("replace", 7, "x"), Op("add", 7, "x")}, o \in {"put", "replace"}}
  \cup {Run(<<Op("remove", 7, "x"), Op("add", 7, "x")>>, <<c>>, <<Op("remove", 7, "z")>>) : c \in DictCalls}
  \cup {Run(<<Swap(5, "x", None)>>, <<Swap(7, "y", "p")>>, <<d>>) : d \in {Get(7), AllKeys, Op("remove", 5, "z")}}
-----------------------------------------------------------------------------
(* The tables.                                                             *)

Hi    == INSTANCE HiHat    WITH Keys <- {5, 7, 15}, Preload <- TwoKeys, Workloads <- TwoWriters \cup TwoInserters
HiA   == INSTANCE HiHatA   WITH Keys <- {5, 7, 15}, Preload <- TwoKeys, Workloads <- TwoWriters
Witch == INSTANCE WitchHat WITH Keys <- {5, 7, 15}, Preload <- TwoKeys, Workloads <- FewWriters(15), RetryThreshold <- 2
Crow  == INSTANCE Crown    WITH Keys <- {3, 5, 7}, Preload <- HistoryKeys, RetryThreshold <- 2,
                                Workloads <- FewWriters(3) \cup {Run(<<Op("put", 7, "x")>>, <<>>, <<Snapshot>>)}
Twins == INSTANCE Crown    WITH Keys <- {5, 7, 15}, Preload <- TwoKeys, Workloads <- TwoHelpers, RetryThreshold <- 2
Lo    == INSTANCE LoHat    WITH Keys <- {3, 5, 7}, Preload <- HistoryKeys,
                                Workloads <- Histories(Writes) \cup Readers(Writes)
LoA   == INSTANCE LoHatA   WITH Keys <- {3, 5, 7}, Preload <- HistoryKeys,
                                Workloads <- Histories(Writes) \cup Readers(Writes)
Wool  == INSTANCE WoolHat  WITH Keys <- {3, 5, 7}, Preload <- HistoryKeys, Workloads <- WoolWorkloads, RetryThreshold <- 1
Ball  == INSTANCE BallCap  WITH Keys <- {1, 2, 3, 4, 5, 7}, Preload <- BallKeys, Workloads <- BallWorkloads, MinSize <- 8
Locks == INSTANCE LockHat  WITH Keys <- {3, 5, 7, 8, 15}, Preload <- FourKeys, Workloads <- LockedWriters, MinSize <- 8
Lone  == INSTANCE LockHat  WITH Keys <- {3, 5, 7, 8, 15}, Preload <- FourKeys, Workloads <- LoneCallers, MinSize <- 8
News  == INSTANCE NewsHat  WITH Keys <- {1, 3, 5, 7, 8, 15}, Preload <- FiveKeys, Workloads <- NewsWorkloads, MinSize <- 8
Old   == INSTANCE OldHat   WITH Keys <- {5, 7, 15}, Preload <- TwoKeys, Workloads <- OldWorkloads
Tia   == INSTANCE Tiara    WITH Keys <- {5, 7, 15}, Preload <- TwoKeys, Workloads <- TiaraWorkloads
Tops  == INSTANCE TopHat   WITH Keys <- {5, 7}, Preload <- << <<7, "p">> >>, Workloads <- TopWorkloads
Pairs == INSTANCE HatDict  WITH Keys <- {5, 7}, Preload <- << <<7, "p">> >>, Workloads <- DictWorkloads

ASSUME HiConstants == Hi!HatConstants

\* An operation on two sets takes its views, which no other thread can change then.
SetInit ==
  /\ top = [views |-> <<>>] /\ heap = <<>> /\ lin = L!Fresh(<<>>)
  /\ th = [t \in Threads |-> Idle] /\ todo = [t \in Threads |-> <<>>]

TakeViews ==
  /\ top.views = <<>>
  /\ \E v \in Pairs!Views : top' = [views |-> v]
  /\ UNCHANGED <<heap, th, todo, lin>>

MCInit ==
  \/ which = "hihat" /\ Hi!Init
  \/ which = "hihat-a" /\ HiA!Init
  \/ which = "witchhat" /\ Witch!Init
  \/ which = "crown" /\ Crow!Init
  \/ which = "lohat" /\ Lo!Init
  \/ which = "lohat-a" /\ LoA!Init
  \/ which = "woolhat" /\ Wool!Init
  \/ which = "ballcap" /\ Ball!Init
  \/ which = "duncecap" /\ Locks!DunceInit
  \/ which = "swimcap" /\ Locks!SwimInit
  \/ which = "refhat" /\ Lone!RefInit
  \/ which = "newshat" /\ News!Init
  \/ which = "oldhat" /\ Old!Init
  \/ which = "tiara" /\ Tia!Init
  \/ which = "tophat" /\ Tops!Init
  \/ which = "dict" /\ Pairs!Init
  \/ which = "set" /\ SetInit

HiSteps    == which = "hihat" /\ Hi!Next /\ UNCHANGED which
HiASteps   == which = "hihat-a" /\ HiA!Next /\ UNCHANGED which
WitchSteps == which = "witchhat" /\ Witch!Next /\ UNCHANGED which
CrownSteps == which = "crown" /\ Crow!Next /\ UNCHANGED which
LoSteps    == which = "lohat" /\ Lo!Next /\ UNCHANGED which
LoASteps   == which = "lohat-a" /\ LoA!Next /\ UNCHANGED which
WoolSteps  == which = "woolhat" /\ Wool!Next /\ UNCHANGED which
BallSteps  == which = "ballcap" /\ Ball!Next /\ UNCHANGED which
DunceSteps == which = "duncecap" /\ Locks!DunceNext /\ UNCHANGED which
SwimSteps  == which = "swimcap" /\ Locks!SwimNext /\ UNCHANGED which
RefSteps   == which = "refhat" /\ Lone!RefNext /\ UNCHANGED which
NewsSteps  == which = "newshat" /\ News!Next /\ UNCHANGED which
OldSteps   == which = "oldhat" /\ Old!Next /\ UNCHANGED which
TiaraSteps == which = "tiara" /\ Tia!Next /\ UNCHANGED which
TopSteps   == which = "tophat" /\ Tops!Next /\ UNCHANGED which
DictSteps  == which = "dict" /\ Pairs!Next /\ UNCHANGED which
SetSteps   == which = "set" /\ TakeViews /\ UNCHANGED which

\* All calls have answered; only this may stop the threads.
Rest == Finished /\ UNCHANGED <<which, hatVars>>

MCNext ==
  \/ HiSteps \/ HiASteps \/ WitchSteps \/ CrownSteps \/ LoSteps \/ LoASteps \/ WoolSteps \/ BallSteps
  \/ DunceSteps \/ SwimSteps \/ RefSteps \/ NewsSteps \/ OldSteps \/ TiaraSteps \/ TopSteps \/ DictSteps
  \/ SetSteps \/ Rest

MCSpec == MCInit /\ [][MCNext]_<<which, hatVars>>

\* crown alone, with keys that share a home.
TwinInit == which = "crown" /\ Twins!Init
TwinNext == \/ Twins!Next /\ UNCHANGED which
            \/ Rest
TwinSpec == TwinInit /\ [][TwinNext]_<<which, hatVars>>
-----------------------------------------------------------------------------
(* Properties.                                                             *)

\* Every answer so far is that of a sequential dictionary, until two removes of woolhat
\* got in each other's way.
HatsLinearizable == (which = "woolhat" => ~top.crossed) => Linearizable

\* The buckets of the current store whose key is in the table.
LiveBuckets ==
  LET recs == heap[top.current].rec IN
  {b \in DOMAIN recs : IF which \in {"lohat", "lohat-a", "woolhat", "ballcap"}
                       THEN recs[b].head # 0 /\ top.recs[recs[b].head].live
                       ELSE recs[b].live}

\* When no call runs, item_count is the number of live items, whatever races the
\* writers ran and however many of them moved the store.  In woolhat it is too large
\* by one for every add or replace that served a request to remove, too small by one
\* for every put that met such a request on a removed item, and never else.  oldhat's
\* add and tiara's put do not count; a tophat that moved counts in its other table.
CountAtRest ==
  Finished /\ which \notin {"oldhat", "tiara", "tophat", "dict", "set"} =>
    IF which = "woolhat" THEN top.count + top.under = Cardinality(LiveBuckets) + top.over
    ELSE top.count = Cardinality(LiveBuckets)

\* A store that was replaced is retired by one thread only, never while it is
\* current, and always in the end; likewise a record that was overwritten, except by
\* woolhat's replace that serves a request to remove, and a pair of the dictionary.
RetiredOnce ==
  /\ which = "dict" => Pairs!PairsRetiredOnce
  /\ which \notin {"tophat", "dict", "set"} =>
    /\ StoresRetiredOnce
    /\ which = "lohat" => Lo!RecordsRetiredOnce({})
    /\ which = "lohat-a" => LoA!RecordsRetiredOnce({})
    /\ which = "woolhat" => Wool!RecordsRetiredOnce(top.leaked)
    /\ which = "ballcap" => Ball!RecordsRetiredOnce({})

\* The loops of set.c that march through two sorted views compute what they are named
\* for, wherever one view ends, and a union keeps the order of insertion; difference
\* and disjunction are held to what they still yield when a view ends.
SetAlgebra ==
  which = "set" /\ top.views # <<>> =>
    LET v == top.views IN
    /\ Pairs!MarchesRight({x.hash : x \in v[1]}, {x.hash : x \in v[2]})
    /\ Pairs!UnionRight(v[1], v[2])
=============================================================================
