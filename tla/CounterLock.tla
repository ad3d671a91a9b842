---------------------------- MODULE CounterLock ----------------------------
(***************************************************************************)
(* allocateCounter (src/state/counter.ts): the file-backed counter behind  *)
(* VM names, NFT ids and plan ids, shared by the monitor and by command    *)
(* line programs that may run at the same time.  One action per system     *)
(* call, since two processes interleave between any two of them.           *)
(***************************************************************************)
EXTENDS Integers, FiniteSets, Sequences

CONSTANTS
  Procs,         \* processes that allocate from one counter file
  Free, Stale,   \* no lock file; the lock file of a process that died
  MAX_RETRIES,
  MaxAllocs,     \* bound: allocations started by all of them
  MaxFaults      \* bound: crashes and failed reads and writes

ASSUME CounterAssumption ==
  /\ {Free, Stale} \cap Procs = {}
  /\ Free # Stale
  /\ MAX_RETRIES \in Nat \ {0}
  /\ MaxAllocs \in Nat
  /\ MaxFaults \in Nat

VARIABLES
  lock,      \* the sibling .lock file: Free, Stale, or who created it
  file,      \* the number the counter file holds, 0 if it holds none
  pc,        \* where each process is
  tries,     \* i
  current,
  allocs,    \* allocations started
  faults,
  \* for the properties only:
  issued,    \* every value returned, in order
  race,      \* a lock was taken from a live holder or done without: not yet,
             \* and somebody is still at work since, or all have left since
  lost       \* the number could not be read, or was emptied and not written

vars == <<lock, file, pc, tries, current, allocs, faults, issued, race, lost>>

Critical   == {"read", "truncate", "write", "release"}
Steps      == {"idle", "try", "sleep", "unlink", "reopen"} \cup Critical
InCritical == {p \in Procs : pc[p] \in Critical}

Init ==
  /\ lock = Free
  /\ file = 0
  /\ pc = [p \in Procs |-> "idle"]
  /\ tries = [p \in Procs |-> 0]
  /\ current = [p \in Procs |-> 0]
  /\ allocs = 0
  /\ faults = 0
  /\ issued = <<>>
  /\ race = "none"
  /\ lost = FALSE

Goto(p, step) == pc' = [pc EXCEPT ![p] = step]

\* The call ends, and its locals with it; a race is over when the last one at
\* work leaves.
Leave(p) ==
  /\ Goto(p, "idle")
  /\ tries' = [tries EXCEPT ![p] = 0]
  /\ current' = [current EXCEPT ![p] = 0]
  /\ race' = IF race = "on" /\ InCritical \subseteq {p} THEN "over" ELSE race

Start(p) ==
  /\ pc[p] = "idle"
  /\ allocs < MaxAllocs
  /\ allocs' = allocs + 1
  /\ Goto(p, "try")
  /\ UNCHANGED <<lock, file, tries, current, faults, issued, race, lost>>

-----------------------------------------------------------------------------
\* Mutant: the lock file is opened without O_EXCL.
AcquireShared(p) ==
  /\ pc[p] = "try"
  /\ lock' = p
  /\ Goto(p, "read")
  /\ UNCHANGED <<file, tries, current, allocs, faults, issued, race, lost>>

\* openSync(O_CREAT | O_EXCL) creates the lock file.
Acquire(p) ==
  /\ pc[p] = "try"
  /\ lock = Free
  /\ lock' = p
  /\ Goto(p, "read")
  /\ UNCHANGED <<file, tries, current, allocs, faults, issued, race, lost>>

\* Mutants: a waiter never loses patience; it makes one attempt too many.
AttemptFailsForever(p) ==
  /\ pc[p] = "try"
  /\ lock # Free
  /\ Goto(p, "sleep")
  /\ UNCHANGED <<lock, file, tries, current, allocs, faults, issued, race, lost>>

AttemptFailsOneMore(p) ==
  /\ pc[p] = "try"
  /\ lock # Free
  /\ tries' = [tries EXCEPT ![p] = @ + 1]
  /\ Goto(p, IF tries[p] = MAX_RETRIES THEN "unlink" ELSE "sleep")
  /\ UNCHANGED <<lock, file, current, allocs, faults, issued, race, lost>>

\* It exists: sleep, or after the last attempt take the lock by force.
AttemptFails(p) ==
  /\ pc[p] = "try"
  /\ lock # Free
  /\ tries' = [tries EXCEPT ![p] = @ + 1]
  /\ Goto(p, IF tries[p] = MAX_RETRIES - 1 THEN "unlink" ELSE "sleep")
  /\ UNCHANGED <<lock, file, current, allocs, faults, issued, race, lost>>

\* RETRY_INTERVAL_MS later, whatever the others have done meanwhile.
Wake(p) ==
  /\ pc[p] = "sleep"
  /\ Goto(p, "try")
  /\ UNCHANGED <<lock, file, tries, current, allocs, faults, issued, race, lost>>

\* Nothing is known of the holder: it may be at work.
ForceUnlink(p) ==
  /\ pc[p] = "unlink"
  /\ lock' = Free
  /\ race' = IF lock \in Procs THEN "on" ELSE race
  /\ Goto(p, "reopen")
  /\ UNCHANGED <<file, tries, current, allocs, faults, issued, lost>>

\* Another process may have been faster: give up the lock and go on without.
ForceOpen(p) ==
  /\ pc[p] = "reopen"
  /\ lock' = IF lock = Free THEN p ELSE lock
  /\ race' = IF lock = Free THEN race ELSE "on"
  /\ Goto(p, "read")
  /\ UNCHANGED <<file, tries, current, allocs, faults, issued, lost>>

-----------------------------------------------------------------------------
\* Mutant: the lock file is unlinked once the number is read.
ReadAndUnlock(p) ==
  /\ pc[p] = "read"
  /\ current' = [current EXCEPT ![p] = IF file > 0 THEN file ELSE 1]
  /\ lock' = Free
  /\ Goto(p, "truncate")
  /\ UNCHANGED <<file, tries, allocs, faults, issued, race, lost>>

\* A missing or empty file counts as 1, and so does one that cannot be read.
Read(p) ==
  /\ pc[p] = "read"
  /\ current' = [current EXCEPT ![p] = IF file > 0 THEN file ELSE 1]
  /\ Goto(p, "truncate")
  /\ UNCHANGED <<lock, file, tries, allocs, faults, issued, race, lost>>

ReadFails(p) ==
  /\ pc[p] = "read"
  /\ faults < MaxFaults
  /\ faults' = faults + 1
  /\ current' = [current EXCEPT ![p] = 1]
  /\ lost' = TRUE
  /\ Goto(p, "truncate")
  /\ UNCHANGED <<lock, file, tries, allocs, issued, race>>

\* writeFileSync empties the file when it opens it, then writes the digits.
Truncate(p) ==
  /\ pc[p] = "truncate"
  /\ file' = 0
  /\ Goto(p, "write")
  /\ UNCHANGED <<lock, tries, current, allocs, faults, issued, race, lost>>

Write(p) ==
  /\ pc[p] = "write"
  /\ file' = current[p] + 1
  /\ Goto(p, "release")
  /\ UNCHANGED <<lock, tries, current, allocs, faults, issued, race, lost>>

\* The open or the write throws: finally unlinks, and nothing is returned.
WriteFails(p) ==
  /\ pc[p] \in {"truncate", "write"}
  /\ faults < MaxFaults
  /\ faults' = faults + 1
  /\ lock' = Free
  /\ lost' = (lost \/ pc[p] = "write")
  /\ Leave(p)
  /\ UNCHANGED <<file, allocs, issued>>

\* finally unlinks the lock file, whoever created it; the caller gets the id.
Release(p) ==
  /\ pc[p] = "release"
  /\ lock' = Free
  /\ issued' = Append(issued, current[p])
  /\ Leave(p)
  /\ UNCHANGED <<file, allocs, faults, lost>>

\* The process dies: its lock file and what it wrote stay.
Crash(p) ==
  /\ pc[p] # "idle"
  /\ faults < MaxFaults
  /\ faults' = faults + 1
  /\ lock' = IF lock = p THEN Stale ELSE lock
  /\ lost' = (lost \/ pc[p] = "write")
  /\ Leave(p)
  /\ UNCHANGED <<file, allocs, issued>>

Advance(p) ==
  \/ Acquire(p)
  \/ AttemptFails(p)
  \/ Wake(p)
  \/ ForceUnlink(p)
  \/ ForceOpen(p)
  \/ Read(p)
  \/ Truncate(p)
  \/ Write(p)
  \/ Release(p)

Next ==
  \E p \in Procs :
    \/ Start(p)
    \/ Advance(p)
    \/ ReadFails(p)
    \/ WriteFails(p)
    \/ Crash(p)

Spec == Init /\ [][Next]_vars

\* A running process goes on; nobody has to start an allocation.
FairSpec == Spec /\ \A p \in Procs : WF_vars(Advance(p))

-----------------------------------------------------------------------------
\* The files and every process hold values of their kinds.
TypeOK ==
  /\ lock \in Procs \cup {Free, Stale}
  /\ file \in Nat
  /\ pc \in [Procs -> Steps]
  /\ tries \in [Procs -> 0..MAX_RETRIES]
  /\ current \in [Procs -> Nat]
  /\ allocs \in 0..MaxAllocs
  /\ faults \in 0..MaxFaults
  /\ issued \in Seq(Nat \ {0})
  /\ race \in {"none", "on", "over"}
  /\ lost \in BOOLEAN

(***************************************************************************)
(* "accepts the small race-on-recovery" (counter.ts:9): two processes are  *)
(* between the open and the unlink only once a waiter has taken the lock   *)
(* of a live holder or gone on without one, and when the last of those at  *)
(* work has left, the lock excludes again, however many of them unlinked   *)
(* each other's lock files.  Crashes and failures alone never break it.    *)
(***************************************************************************)
Exclusive == race # "on" => Cardinality(InCritical) <= 1

(***************************************************************************)
(* The values handed out strictly increase, so no VM name, token id or     *)
(* plan id is used twice, unless there was a race or the number was lost:  *)
(* a crash anywhere but between the truncation and the write, and the      *)
(* takeover of the lock it leaves, keep the order.                         *)
(***************************************************************************)
IncreasingUnlessRace ==
  race = "none" /\ ~ lost =>
    \A i, j \in DOMAIN issued : i < j => issued[i] < issued[j]

(***************************************************************************)
(* counter.ts:7-10: a crashed holder never deadlocks the others: every     *)
(* allocation comes to an end.                                             *)
(***************************************************************************)
AllocationEnds == \A p \in Procs : pc[p] # "idle" ~> pc[p] = "idle"

=============================================================================
