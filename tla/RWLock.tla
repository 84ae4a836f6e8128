-------------------------------- MODULE RWLock --------------------------------
(***************************************************************************)
(* n00b's reader/writer lock (src/mt/rwlock.nc) over the bookkeeping of    *)
(* LockAccounting.                                                         *)
(*                                                                         *)
(* A lock's futex word is a writer bit plus a count of readers.  A writer  *)
(* first claims the bit, then waits for the readers to drain.  Who reads   *)
(* what is known only to each reader, by a record per lock in its own      *)
(* thread state; here a record is its nesting level, 0 when there is none. *)
(* (ReadRecords models the list those records are kept in.)                *)
(***************************************************************************)
EXTENDS LockAccounting, FiniteSets

CONSTANTS
    WBit,       \* N00B_RW_W_LOCK, a bit above any reader count
    Unset,      \* what a local variable that was never assigned is
    MaxCalls    \* bound: how many lock calls a thread makes in its life

ASSUME RWAssumption ==
    /\ IsFiniteSet(Threads)
    /\ WBit \in Nat /\ Cardinality(Threads) < WBit
    /\ Unset \notin Nat
    /\ MaxCalls \in Nat

VARIABLES
    word,       \* lock -> its futex word
    reads,      \* thread -> lock -> nesting level of the thread's read record
    pc,         \* thread -> where it is in the code below
    target,     \* thread -> the lock its call in progress is about
    value,      \* thread -> n00b_rw_read_lock's local of that name
    desired,    \* thread -> n00b_rw_read_lock's local of that name, at first Unset
    calls,      \* thread -> how many more lock calls it will make
    garbled     \* lock -> whether a CAS has stored anything but one more reader

rwVars == <<word, reads, pc, target, value, desired, calls, garbled>>
vars == <<acctVars, rwVars>>

\* The word's values: the bits above the writer bit are not used here.
Words == 0 .. (2 * WBit - 1)

HasW(v) == v >= WBit
ReaderCount(v) == IF HasW(v) THEN v - WBit ELSE v
\* Mutant: the bit is added, not or-ed.
OrW_Add(v) == v + WBit

OrW(v) == IF HasW(v) THEN v ELSE v + WBit
Plus1(v) == IF v = 2 * WBit - 1 THEN 0 ELSE v + 1
Minus1(v) == IF v = 0 THEN 2 * WBit - 1 ELSE v - 1

PCs == {"idle", "wclosed", "wgrab", "drain", "waccount", "wclear",
        "rread", "rloop", "rcas", "rdec"}

\* The futex word stays within writer bit and reader count: adding the writer
\* bit to a word that has it would leave it.
TypeOK ==
    /\ AcctTypeOK
    /\ word \in [Locks -> Words]
    /\ reads \in [Threads -> [Locks -> Nat]]
    /\ pc \in [Threads -> PCs]
    /\ target \in [Threads -> Locks \cup {Null}]
    /\ value \in [Threads -> Words]
    /\ desired \in [Threads -> Words \cup {Unset}]
    /\ calls \in [Threads -> Nat]
    /\ garbled \in [Locks -> BOOLEAN]

Init ==
    /\ AcctInit
    /\ word = [l \in Locks |-> 0]
    /\ reads = [t \in Threads |-> [l \in Locks |-> 0]]
    /\ pc = [t \in Threads |-> "idle"]
    /\ target = [t \in Threads |-> Null]
    /\ value = [t \in Threads |-> 0]
    /\ desired = [t \in Threads |-> Unset]
    /\ calls = [t \in Threads |-> MaxCalls]
    /\ garbled = [l \in Locks |-> FALSE]

Goto(t, label) == pc' = [pc EXCEPT ![t] = label]
Aim(t, l) == target' = [target EXCEPT ![t] = l]
SetWord(l, v) == word' = [word EXCEPT ![l] = v]
NewCall(t) == pc[t] = "idle" /\ calls[t] > 0 /\ calls' = [calls EXCEPT ![t] = @ - 1]

\* get_read_lock_record finds a record.
Reading(t, l) == reads[t][l] > 0

SetRecord(t, l, n) == reads' = [reads EXCEPT ![t] = [@ EXCEPT ![l] = n]]

-----------------------------------------------------------------------------
(* n00b_rw_write_lock.                                                     *)

\* The bit was set and the caller is the owner: one more level.
WriteNested(t, l) ==
    /\ NewCall(t)
    /\ HasW(word[l]) /\ data[l].nesting < MaxNesting
    /\ Renest(t, l)
    /\ UNCHANGED <<word, reads, pc, target, value, desired, garbled>>

\* The bit was set by somebody else.
WriteBlocked(t, l) ==
    /\ NewCall(t)
    /\ HasW(word[l]) /\ ~Owns(t, l)
    /\ Goto(t, "wclosed") /\ Aim(t, l)
    /\ UNCHANGED <<acctVars, word, reads, value, desired, garbled>>

\* The bit was clear: the caller is now the one writer.
WriteClaim(t, l) ==
    /\ NewCall(t)
    /\ ~HasW(word[l])
    /\ SetWord(l, OrW(word[l]))
    /\ Goto(t, "drain") /\ Aim(t, l)
    /\ UNCHANGED <<acctVars, reads, value, desired, garbled>>

\* n00b_futex_wait_for_value(&lock->futex, N00B_RW_UNLOCKED)
WritePoll(t) ==
    /\ pc[t] = "wclosed"
    /\ word[target[t]] = 0
    /\ Goto(t, "wgrab")
    /\ UNCHANGED <<acctVars, word, reads, target, value, desired, calls, garbled>>

\* Mutant: whoever saw the lock free takes it that the bit is its own.
WriteGrab_Unchecked(t) ==
    /\ pc[t] = "wgrab"
    /\ SetWord(target[t], OrW(word[target[t]]))
    /\ Goto(t, "drain")
    /\ UNCHANGED <<acctVars, reads, target, value, desired, calls, garbled>>

WriteGrab(t) ==
    /\ pc[t] = "wgrab"
    /\ SetWord(target[t], OrW(word[target[t]]))
    /\ Goto(t, IF HasW(word[target[t]]) THEN "wclosed" ELSE "drain")
    /\ UNCHANGED <<acctVars, reads, target, value, desired, calls, garbled>>

\* Mutant: a writer goes ahead with one reader left, its own or not.
Drain_AnyOne(t) ==
    /\ pc[t] = "drain"
    /\ word[target[t]] \in {WBit, WBit + 1}
    /\ Goto(t, "waccount")
    /\ UNCHANGED <<acctVars, word, reads, target, value, desired, calls, garbled>>

\* Mutant: a writer that is itself a reader waits for its own record to go.
Drain_NotMine(t) ==
    /\ pc[t] = "drain"
    /\ word[target[t]] = WBit
    /\ Goto(t, "waccount")
    /\ UNCHANGED <<acctVars, word, reads, target, value, desired, calls, garbled>>

\* The readers have drained; a writer that is itself a reader counts one.
Drain(t) ==
    /\ pc[t] = "drain"
    /\ word[target[t]] = IF Reading(t, target[t]) THEN WBit + 1 ELSE WBit
    /\ Goto(t, "waccount")
    /\ UNCHANGED <<acctVars, word, reads, target, value, desired, calls, garbled>>

WriteAccount(t) ==
    /\ pc[t] = "waccount"
    /\ AcquireAccounting(t, target[t])
    /\ Goto(t, "idle") /\ Aim(t, Null)
    /\ UNCHANGED <<word, reads, value, desired, calls, garbled>>

-----------------------------------------------------------------------------
(* n00b_rw_read_lock.                                                      *)

\* CAS(&lock->futex, 0, 1): the lock was free.
ReadFast(t, l) ==
    /\ NewCall(t)
    /\ word[l] = 0
    /\ SetWord(l, 1)
    /\ SetRecord(t, l, 1)
    /\ UNCHANGED <<acctVars, pc, target, value, desired, garbled>>

\* The writer reads: one more level of writing.
ReadAsWriter(t, l) ==
    /\ NewCall(t)
    /\ word[l] # 0 /\ data[l].nesting < MaxNesting
    /\ Renest(t, l)
    /\ UNCHANGED <<word, reads, pc, target, value, desired, garbled>>

\* A reader reads again: one more level in its record.
ReadNested(t, l) ==
    /\ NewCall(t)
    /\ word[l] # 0 /\ ~Owns(t, l)
    /\ Reading(t, l) /\ reads[t][l] < MaxNesting
    /\ SetRecord(t, l, reads[t][l] + 1)
    /\ UNCHANGED <<acctVars, word, pc, target, value, desired, garbled>>

ReadSlow(t, l) ==
    /\ NewCall(t)
    /\ word[l] # 0 /\ ~Owns(t, l) /\ ~Reading(t, l)
    /\ Goto(t, "rread") /\ Aim(t, l)
    /\ UNCHANGED <<acctVars, word, reads, value, desired, garbled>>

\* value = atomic_read(&lock->futex), and the assertion on the count in it.
ReadRead(t) ==
    /\ pc[t] = "rread"
    /\ value' = [value EXCEPT ![t] = word[target[t]]]
    /\ fatal' = IF ReaderCount(word[target[t]]) > Cardinality(Threads)
                THEN "assert" ELSE fatal
    /\ Goto(t, "rloop")
    /\ UNCHANGED <<data, nextLock, prevLock, exclusive,
                   word, reads, target, desired, calls, garbled>>

\* The loop's body.  In the writer's case it waits, reads the word again and
\* says "continue"; in a do-while loop that goes on to the loop's condition,
\* the CAS, with `desired' as it was: unset, or from an earlier round.
ReadLoop(t) ==
    /\ pc[t] = "rloop"
    /\ \/ /\ HasW(value[t])
          /\ value' = [value EXCEPT ![t] = word[target[t]]]
          /\ UNCHANGED desired
       \/ /\ ~HasW(value[t])
          /\ desired' = [desired EXCEPT ![t] = Plus1(value[t])]
          /\ UNCHANGED value
    /\ Goto(t, "rcas")
    /\ UNCHANGED <<acctVars, word, reads, target, calls, garbled>>

\* The loop's condition, a CAS from `value' to `desired'.
ReadCasWins(t, new) ==
    LET l == target[t] IN
    /\ pc[t] = "rcas"
    /\ word[l] = value[t]
    /\ SetWord(l, new)
    /\ garbled' = [garbled EXCEPT ![l] = @ \/ HasW(value[t]) \/ new # value[t] + 1]
    /\ SetRecord(t, l, 1)
    /\ Goto(t, "idle") /\ Aim(t, Null)
    /\ value' = [value EXCEPT ![t] = 0]
    /\ desired' = [desired EXCEPT ![t] = Unset]
    /\ UNCHANGED <<acctVars, calls>>

ReadCasLoses(t) ==
    /\ pc[t] = "rcas"
    /\ word[target[t]] # value[t]
    /\ value' = [value EXCEPT ![t] = word[target[t]]]
    /\ Goto(t, "rloop")
    /\ UNCHANGED <<acctVars, word, reads, target, desired, calls, garbled>>

\* What an unset variable holds is anybody's guess.
ReadCas(t) ==
    \/ \E new \in (IF desired[t] = Unset THEN Words ELSE {desired[t]}) :
          ReadCasWins(t, new)
    \/ ReadCasLoses(t)

-----------------------------------------------------------------------------
(* n00b_rw_unlock.  A call by a thread that neither owns nor reads the     *)
(* lock returns at once.                                                   *)

UnlockWriteNested(t, l) ==
    /\ pc[t] = "idle"
    /\ Owns(t, l) /\ ~LastLevel(l)
    /\ Unnest(t, l)
    /\ UNCHANGED rwVars

UnlockWrite(t, l) ==
    /\ pc[t] = "idle"
    /\ Owns(t, l) /\ LastLevel(l)
    /\ UnlinkHeld(t, l)
    /\ Goto(t, "wclear") /\ Aim(t, l)
    /\ UNCHANGED <<word, reads, value, desired, calls, garbled>>

\* atomic_fetch_and(&lock->futex, ~N00B_RW_W_LOCK)
ClearW(t) ==
    /\ pc[t] = "wclear"
    /\ SetWord(target[t], ReaderCount(word[target[t]]))
    /\ Goto(t, "idle") /\ Aim(t, Null)
    /\ UNCHANGED <<acctVars, reads, value, desired, calls, garbled>>

UnlockReadNested(t, l) ==
    /\ pc[t] = "idle"
    /\ ~Owns(t, l) /\ reads[t][l] > 1
    /\ SetRecord(t, l, reads[t][l] - 1)
    /\ UNCHANGED <<acctVars, word, pc, target, value, desired, calls, garbled>>

\* The record goes first, then the count in the word.
UnlockRead(t, l) ==
    /\ pc[t] = "idle"
    /\ ~Owns(t, l) /\ reads[t][l] = 1
    /\ SetRecord(t, l, 0)
    /\ Goto(t, "rdec") /\ Aim(t, l)
    /\ UNCHANGED <<acctVars, word, value, desired, calls, garbled>>

\* The loop that CASes the word from what it read to one less.
DropReader(t) ==
    /\ pc[t] = "rdec"
    /\ SetWord(target[t], Minus1(word[target[t]]))
    /\ Goto(t, "idle") /\ Aim(t, Null)
    /\ UNCHANGED <<acctVars, reads, value, desired, calls, garbled>>

-----------------------------------------------------------------------------
Call(t, l) ==
    \/ WriteNested(t, l) \/ WriteBlocked(t, l) \/ WriteClaim(t, l)
    \/ ReadFast(t, l) \/ ReadAsWriter(t, l) \/ ReadNested(t, l) \/ ReadSlow(t, l)

Release(t, l) ==
    \/ UnlockWriteNested(t, l) \/ UnlockWrite(t, l)
    \/ UnlockReadNested(t, l) \/ UnlockRead(t, l)

Inner(t) ==
    \/ WritePoll(t) \/ WriteGrab(t) \/ Drain(t) \/ WriteAccount(t)
    \/ ReadRead(t) \/ ReadLoop(t) \/ ReadCas(t)
    \/ ClearW(t) \/ DropReader(t)

Running == fatal = "none"

Step(t) == Inner(t) \/ \E l \in Locks : Call(t, l) \/ Release(t, l)

Next == Running /\ \E t \in Threads : Step(t)

Spec == Init /\ [][Next]_vars

\* A bound for TLC: a state in which a lock's word is garbled is checked, but
\* not followed any further.
Ungarbled == \A l \in Locks : ~garbled[l]

(***************************************************************************)
(* Fairness: every thread that is inside a call keeps being scheduled, and *)
(* every thread that holds a lock and is not inside a call gives it back.  *)
(* Nothing is assumed of the order in which CASes and fetch-ors win.       *)
(***************************************************************************)
FairSpec ==
    /\ Spec
    /\ \A t \in Threads :
          /\ WF_vars(Running /\ Inner(t))
          /\ WF_vars(Running /\ \E l \in Locks : Release(t, l))

-----------------------------------------------------------------------------
(***************************************************************************)
(* Properties.  Those that speak of a lock's word hold for as long as no   *)
(* reader has stored a stray `desired' in it.                              *)
(***************************************************************************)

\* t holds l's writer bit, from claiming it to clearing it.
HoldsBit(t, l) ==
    \/ Owns(t, l)
    \/ pc[t] \in {"drain", "waccount", "wclear"} /\ target[t] = l

\* t is one of the readers the word counts.
Counted(t, l) == Reading(t, l) \/ (pc[t] = "rdec" /\ target[t] = l)

Readers(l) == {t \in Threads : Counted(t, l)}

\* The writer bit has at most one holder, and is set exactly while it has
\* one; the rest of the word counts the threads with a read record, to the
\* step in which n00b_rw_unlock gives the count back.
WordAgrees ==
    \A l \in Locks : ~garbled[l] =>
        /\ \A t, u \in Threads : HoldsBit(t, l) /\ HoldsBit(u, l) => t = u
        /\ word[l] = Cardinality(Readers(l)) +
                     (IF \E t \in Threads : HoldsBit(t, l) THEN WBit ELSE 0)

\* While a thread owns the lock for writing nobody else reads it; it may
\* itself have been a reader that upgraded.
WriterExcludesReaders ==
    \A l \in Locks : ~garbled[l] =>
        \A t, u \in Threads : Owns(t, l) /\ Counted(u, l) => t = u

\* A writer that has claimed the bit gets the lock once the readers have
\* gone, unless one of them is itself waiting inside a call (to upgrade, or
\* for another lock) or the word is garbled: new readers cannot overtake it.
WriterServed ==
    \A t \in Threads, l \in Locks :
        (pc[t] = "drain" /\ target[t] = l) ~>
            \/ Owns(t, l) \/ garbled[l] \/ ~Running
            \/ \E u \in Threads \ {t} : Reading(u, l) /\ pc[u] \in {"wclosed", "drain", "rread", "rloop", "rcas"}

\* "The W_LOCK bit doesn't prevent existing readers from reading, it
\* prevents new readers from adding themselves" (rwlock.nc:66-67): a reader
\* that has entered by the slow path is not there beside the writer.
BitKeepsReadersOut ==
    \A l \in Locks : \A t, u \in Threads : Owns(t, l) /\ Counted(u, l) => t = u
=============================================================================
