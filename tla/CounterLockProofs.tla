-------------------------- MODULE CounterLockProofs --------------------------
(***************************************************************************)
(* Theorems about CounterLock, for any set of processes, any number of     *)
(* retries, allocations and faults: what the forced takeover of the lock   *)
(* may break, and what it leaves intact.                                   *)
(***************************************************************************)
EXTENDS CounterLock, FiniteSetTheorems, TLAPS

-----------------------------------------------------------------------------
\* A process that goes on trying has attempts left, and one that has read the
\* counter holds a number that may be handed out.
AttemptInv ==
  \A p \in Procs :
    /\ pc[p] = "idle" => tries[p] = 0
    /\ pc[p] \in {"try", "sleep"} => tries[p] < MAX_RETRIES
    /\ pc[p] \in {"truncate", "write", "release"} => current[p] > 0

\* The files and every process keep values of their kinds.
THEOREM TypeCorrect == Spec => [](TypeOK /\ AttemptInv)
<1> USE CounterAssumption
<1>1. Init => TypeOK /\ AttemptInv
  <2> SUFFICES ASSUME Init PROVE TypeOK /\ AttemptInv
    OBVIOUS
  <2>1. AttemptInv
    BY DEF Init, AttemptInv
  <2>2. lost \in BOOLEAN
    BY DEF Init
  <2>3. issued \in Seq(Nat \ {0})
    BY DEF Init
  <2> QED
    BY <2>1, <2>2, <2>3 DEF Init, TypeOK, Steps, Critical
<1>2. TypeOK /\ AttemptInv /\ [Next]_vars => TypeOK' /\ AttemptInv'
  <2> SUFFICES ASSUME TypeOK, AttemptInv, [Next]_vars PROVE TypeOK' /\ AttemptInv'
    OBVIOUS
  <2> USE DEF TypeOK, AttemptInv, Goto, Leave, Steps, Critical
  <2>1. ASSUME NEW p \in Procs, Start(p) PROVE TypeOK' /\ AttemptInv'
    BY <2>1 DEF Start
  <2>2. ASSUME NEW p \in Procs, Acquire(p) PROVE TypeOK' /\ AttemptInv'
    BY <2>2 DEF Acquire
  <2>3. ASSUME NEW p \in Procs, AttemptFails(p) PROVE TypeOK' /\ AttemptInv'
    <3>1. tries[p] < MAX_RETRIES /\ tries[p] \in Nat
      BY <2>3 DEF AttemptFails
    <3>2. /\ tries' = [tries EXCEPT ![p] = tries[p] + 1]
          /\ tries[p] + 1 \in 0..MAX_RETRIES
      BY <2>3, <3>1 DEF AttemptFails
    <3>3. /\ pc'[p] \in {"unlink", "sleep"}
          /\ \A q \in Procs : q # p => pc'[q] = pc[q] /\ tries'[q] = tries[q]
      BY <2>3 DEF AttemptFails
    <3>5. tries[p] # MAX_RETRIES - 1 => tries'[p] < MAX_RETRIES
      <4>1. tries'[p] = tries[p] + 1
        BY <3>2
      <4>2. \A n \in Nat : n < MAX_RETRIES /\ n # MAX_RETRIES - 1 => n + 1 < MAX_RETRIES
        OBVIOUS
      <4> QED
        BY <3>1, <4>1, <4>2
    <3>6. pc'[p] = "sleep" => tries'[p] < MAX_RETRIES
      BY <2>3, <3>5 DEF AttemptFails
    <3>4. TypeOK'
      BY <2>3, <3>2 DEF AttemptFails
    <3> QED
      BY <2>3, <3>3, <3>4, <3>6 DEF AttemptFails
  <2>4. ASSUME NEW p \in Procs, Wake(p) PROVE TypeOK' /\ AttemptInv'
    BY <2>4 DEF Wake
  <2>5. ASSUME NEW p \in Procs, ForceUnlink(p) PROVE TypeOK' /\ AttemptInv'
    BY <2>5 DEF ForceUnlink
  <2>6. ASSUME NEW p \in Procs, ForceOpen(p) PROVE TypeOK' /\ AttemptInv'
    BY <2>6 DEF ForceOpen
  <2>7. ASSUME NEW p \in Procs, Read(p) PROVE TypeOK' /\ AttemptInv'
    BY <2>7 DEF Read
  <2>8. ASSUME NEW p \in Procs, Truncate(p) PROVE TypeOK' /\ AttemptInv'
    BY <2>8 DEF Truncate
  <2>9. ASSUME NEW p \in Procs, Write(p) PROVE TypeOK' /\ AttemptInv'
    BY <2>9 DEF Write
  <2>10. ASSUME NEW p \in Procs, Release(p) PROVE TypeOK' /\ AttemptInv'
    <3>1. current[p] \in Nat \ {0}
      BY <2>10 DEF Release
    <3>2. issued' \in Seq(Nat \ {0})
      BY <2>10, <3>1 DEF Release
    <3> QED
      BY <2>10, <3>2 DEF Release
  <2>11. ASSUME NEW p \in Procs, ReadFails(p) PROVE TypeOK' /\ AttemptInv'
    BY <2>11 DEF ReadFails
  <2>12. ASSUME NEW p \in Procs, WriteFails(p) PROVE TypeOK' /\ AttemptInv'
    BY <2>12 DEF WriteFails
  <2>13. ASSUME NEW p \in Procs, Crash(p) PROVE TypeOK' /\ AttemptInv'
    BY <2>13 DEF Crash
  <2>14. CASE UNCHANGED vars
    BY <2>14 DEF vars
  <2> QED
    BY <2>1, <2>2, <2>3, <2>4, <2>5, <2>6, <2>7, <2>8, <2>9, <2>10, <2>11, <2>12,
       <2>13, <2>14 DEF Next, Advance
<1> QED
  BY <1>1, <1>2, PTL DEF Spec

\* The property of the run: every variable holds a value of its kind.
THEOREM TypeOKAlways == Spec => []TypeOK
BY TypeCorrect, PTL
-----------------------------------------------------------------------------
(* Mutual exclusion. *)

\* Whoever the lock file is of is at work.  The converse is what a takeover
\* breaks: who is at work holds the lock file, unless there is a race.
LockInv ==
  /\ \A p \in Procs : lock = p => pc[p] \in Critical
  /\ race # "on" => \A p \in Procs : pc[p] \in Critical => lock = p

\* The last one of a race leaves nobody at work and no lock file of its own, so
\* the next one to create the lock file is alone again.
LEMMA LeaveStep ==
  ASSUME TypeOK, LockInv, NEW p \in Procs, Leave(p), lock' \notin Procs,
         lock' # lock => lock = p \/ pc[p] \in Critical
  PROVE  LockInv'
<1> USE DEF TypeOK, Goto
<1>1. pc'[p] = "idle" /\ \A q \in Procs : q # p => pc'[q] = pc[q]
  BY DEF Leave
<1>2. ASSUME race' # "on", NEW q \in Procs, pc'[q] \in Critical PROVE FALSE
  <2>1. q # p /\ pc[q] \in Critical
    BY <1>1, <1>2 DEF Critical
  <2>2. CASE race = "on"
    BY <1>2, <2>1, <2>2 DEF Leave, InCritical
  <2>3. CASE race # "on"
    <3>1. lock = q
      BY <2>1, <2>3 DEF LockInv
    <3>2. lock' # lock
      BY <3>1
    <3> QED
      BY <2>1, <2>3, <3>1, <3>2 DEF LockInv
  <2> QED
    BY <2>2, <2>3
<1> QED
  BY <1>2 DEF LockInv

LEMMA LockKept == TypeOK /\ LockInv /\ [Next]_vars => LockInv'
<1> SUFFICES ASSUME TypeOK, LockInv, [Next]_vars PROVE LockInv'
  OBVIOUS
<1> USE CounterAssumption DEF TypeOK, Goto
<1>1. ASSUME NEW p \in Procs, Start(p) \/ AttemptFails(p) \/ Wake(p) PROVE LockInv'
  <2>1. /\ UNCHANGED <<lock, race>>
        /\ \A q \in Procs : pc'[q] \in Critical <=> pc[q] \in Critical
    BY <1>1 DEF Start, AttemptFails, Wake, Critical
  <2> QED
    BY <2>1 DEF LockInv
<1>2. ASSUME NEW p \in Procs, Read(p) \/ ReadFails(p) \/ Truncate(p) \/ Write(p)
      PROVE  LockInv'
  <2>1. /\ UNCHANGED <<lock, race>>
        /\ \A q \in Procs : pc'[q] \in Critical <=> pc[q] \in Critical
    BY <1>2 DEF Read, ReadFails, Truncate, Write, Critical
  <2> QED
    BY <2>1 DEF LockInv
<1>3. ASSUME NEW p \in Procs, Acquire(p) PROVE LockInv'
  <2>1. /\ lock = Free /\ lock' = p /\ race' = race /\ pc'[p] \in Critical
        /\ \A q \in Procs : q # p => pc'[q] = pc[q]
    BY <1>3 DEF Acquire, Critical
  <2> QED
    BY <2>1 DEF LockInv
<1>4. ASSUME NEW p \in Procs, ForceUnlink(p) PROVE LockInv'
  <2>1. /\ lock' = Free /\ pc'[p] \notin Critical
        /\ race' = IF lock \in Procs THEN "on" ELSE race
        /\ \A q \in Procs : q # p => pc'[q] = pc[q]
    BY <1>4 DEF ForceUnlink, Critical
  <2> QED
    BY <2>1 DEF LockInv
<1>5. ASSUME NEW p \in Procs, ForceOpen(p) PROVE LockInv'
  <2>1. /\ pc'[p] \in Critical
        /\ \A q \in Procs : q # p => pc'[q] = pc[q]
    BY <1>5 DEF ForceOpen, Critical
  <2>2. CASE lock = Free
    <3>1. lock' = p /\ race' = race
      BY <1>5, <2>2 DEF ForceOpen
    <3> QED
      BY <2>1, <2>2, <3>1 DEF LockInv
  <2>3. CASE lock # Free
    <3>1. lock' = lock /\ race' = "on"
      BY <1>5, <2>3 DEF ForceOpen
    <3> QED
      BY <2>1, <3>1 DEF LockInv
  <2> QED
    BY <2>2, <2>3
<1>6. ASSUME NEW p \in Procs, WriteFails(p) \/ Release(p) PROVE LockInv'
  <2>1. Leave(p) /\ lock' = Free /\ pc[p] \in Critical
    BY <1>6 DEF WriteFails, Release, Critical
  <2> QED
    BY <2>1, LeaveStep
<1>7. ASSUME NEW p \in Procs, Crash(p) PROVE LockInv'
  <2>1. Leave(p) /\ lock' = (IF lock = p THEN Stale ELSE lock)
    BY <1>7 DEF Crash
  <2>2. CASE lock' \notin Procs
    BY <2>1, <2>2, LeaveStep
  <2>3. CASE lock' \in Procs
    <3>1. /\ lock' = lock /\ lock # p
          /\ pc'[p] = "idle" /\ \A q \in Procs : q # p => pc'[q] = pc[q]
      BY <2>1, <2>3 DEF Leave
    <3>2. pc[lock] \in Critical /\ lock \in Procs
      BY <2>3, <3>1 DEF LockInv
    <3>3. race' = race
      BY <2>1, <3>1, <3>2 DEF Leave, InCritical
    <3> QED
      BY <3>1, <3>3 DEF LockInv, Critical
  <2> QED
    BY <2>2, <2>3
<1>8. CASE UNCHANGED vars
  BY <1>8 DEF vars, LockInv
<1> QED
  BY <1>1, <1>2, <1>3, <1>4, <1>5, <1>6, <1>7, <1>8 DEF Next, Advance

LEMMA LockIsSound == Spec => []LockInv
<1>1. Init => LockInv
  BY CounterAssumption DEF Init, LockInv, Critical
<1> QED
  BY <1>1, LockKept, TypeCorrect, PTL DEF Spec

\* Two processes are between the open and the unlink of allocateCounter only
\* in the wake of a takeover, and not any more once those at work have left.
THEOREM ExclusiveAlways == Spec => []Exclusive
<1>1. LockInv => Exclusive
  <2> SUFFICES ASSUME LockInv, race # "on" PROVE Cardinality(InCritical) <= 1
    BY DEF Exclusive
  <2>1. InCritical \in SUBSET {lock}
    BY DEF LockInv, InCritical
  <2>2. IsFiniteSet({lock}) /\ Cardinality({lock}) = 1
    BY FS_Singleton
  <2>3. IsFiniteSet(InCritical) /\ Cardinality(InCritical) <= Cardinality({lock})
    BY <2>1, <2>2, FS_Subset
  <2> QED
    BY <2>2, <2>3
<1> QED
  BY <1>1, LockIsSound, PTL
-----------------------------------------------------------------------------
(* The values handed out. *)

Undisturbed == race = "none" /\ ~ lost
Writing(p)  == pc[p] \in {"truncate", "write", "release"}
Number      == IF file > 0 THEN file ELSE 1

\* What was issued is less than the number being written, and where nobody
\* writes less than the number in the file.  The file holds the number read
\* until it is truncated and its successor once it is written, which is what a
\* process that dies there leaves behind.
ValueInv ==
  Undisturbed =>
    /\ \A p \in Procs : /\ pc[p] = "truncate" => current[p] = Number
                        /\ pc[p] = "release" => file = current[p] + 1
    /\ \A i \in DOMAIN issued :
         /\ \A p \in Procs : Writing(p) => issued[i] < current[p]
         /\ (\A p \in Procs : ~ Writing(p)) => issued[i] < Number

\* A race or a lost number is never forgotten.
LEMMA DisturbedStays ==
  ASSUME TypeOK, [Next]_vars, Undisturbed' PROVE Undisturbed
<1>1. ASSUME NEW p \in Procs, Leave(p), race' = "none" PROVE race = "none"
  BY <1>1 DEF Leave
<1> QED
  BY <1>1 DEF TypeOK, Undisturbed, Next, Advance, Start, Acquire, AttemptFails, Wake,
     ForceUnlink, ForceOpen, Read, ReadFails, Truncate, Write, WriteFails, Release,
     Crash, vars

\* One step keeps it, and keeps the values in order.
LEMMA ValuesKept ==
  ASSUME TypeOK, AttemptInv, LockInv, ValueInv, IncreasingUnlessRace,
         NEW p \in Procs, Undisturbed, Undisturbed',
         Start(p) \/ Advance(p) \/ WriteFails(p) \/ Crash(p)
  PROVE  ValueInv' /\ IncreasingUnlessRace'
<1> USE DEF TypeOK, Goto
<1>1. \A q \in Procs : Writing(q) => lock = q
  BY DEF LockInv, Undisturbed, Writing, Critical
<1>2. CASE \/ Start(p) \/ Acquire(p) \/ AttemptFails(p) \/ Wake(p)
           \/ ForceUnlink(p) \/ ForceOpen(p)
  <2>1. /\ UNCHANGED <<file, current, issued>>
        /\ \A q \in Procs : /\ Writing(q)' <=> Writing(q)
                            /\ pc'[q] = "truncate" <=> pc[q] = "truncate"
                            /\ pc'[q] = "release" <=> pc[q] = "release"
    BY <1>2 DEF Start, Acquire, AttemptFails, Wake, ForceUnlink, ForceOpen, Writing
  <2> QED
    BY <2>1 DEF ValueInv, IncreasingUnlessRace, Undisturbed, Number
<1>3. CASE Read(p)
  <2>1. \A q \in Procs : q # p => ~ Writing(q)
    BY <1>3 DEF Read, LockInv, Undisturbed, Writing, Critical
  <2>2. /\ UNCHANGED <<file, issued>> /\ Number' = Number /\ ~ Writing(p)
        /\ pc'[p] = "truncate" /\ current'[p] = Number
        /\ \A q \in Procs : q # p => pc'[q] = pc[q]
    BY <1>3 DEF Read, Writing, Number
  <2>3. Writing(p)' /\ \A q \in Procs : q # p => ~ Writing(q)'
    BY <2>1, <2>2 DEF Writing
  <2>4. \A q \in Procs : pc'[q] # "release" /\ (pc'[q] = "truncate" => q = p)
    BY <2>1, <2>2 DEF Writing
  <2>5. \A i \in DOMAIN issued : issued[i] < Number
    BY <2>1, <2>2 DEF ValueInv
  <2>6. ValueInv'
    BY <2>2, <2>3, <2>4, <2>5 DEF ValueInv
  <2> QED
    BY <2>2, <2>6 DEF IncreasingUnlessRace, Undisturbed
<1>4. CASE Truncate(p) \/ Write(p)
  <2>1. /\ UNCHANGED <<current, issued>> /\ Writing(p)
        /\ pc'[p] \in {"write", "release"}
        /\ pc'[p] = "release" => file' = current[p] + 1
        /\ \A q \in Procs : q # p => pc'[q] = pc[q]
    BY <1>4 DEF Truncate, Write, Writing
  <2>2. \A q \in Procs : q # p => ~ Writing(q)
    BY <1>1, <2>1
  <2>3. Writing(p)' /\ pc'[p] # "truncate"
    BY <2>1 DEF Writing
  <2>4. \A q \in Procs : q # p => /\ ~ Writing(q)' /\ pc'[q] # "release"
                                  /\ pc'[q] # "truncate"
    BY <2>1, <2>2 DEF Writing
  <2>5. ValueInv'
    <3>1. \A i \in DOMAIN issued : issued[i] < current[p]
      BY <2>1 DEF ValueInv
    <3> QED
      BY <2>1, <2>3, <2>4, <3>1 DEF ValueInv
  <2> QED
    BY <2>1, <2>5 DEF IncreasingUnlessRace, Undisturbed
<1>5. CASE WriteFails(p) \/ Crash(p)
  <2>1. /\ UNCHANGED <<file, issued>> /\ Number' = Number /\ pc'[p] = "idle"
        /\ pc[p] # "write"
        /\ \A q \in Procs : q # p => pc'[q] = pc[q] /\ current'[q] = current[q]
    BY <1>5 DEF WriteFails, Crash, Leave, Number, Undisturbed
  <2>2. \A i \in DOMAIN issued : Writing(p) => issued[i] < Number
    <3> SUFFICES ASSUME NEW i \in DOMAIN issued, Writing(p) PROVE issued[i] < Number
      OBVIOUS
    <3>1. issued[i] < current[p] /\ issued[i] \in Nat /\ current[p] \in Nat
      BY DEF ValueInv
    <3>2. CASE pc[p] = "truncate"
      BY <3>1, <3>2 DEF ValueInv
    <3>3. CASE pc[p] = "release"
      BY <3>1, <3>3 DEF ValueInv, Number
    <3> QED
      BY <2>1, <3>2, <3>3 DEF Writing
  <2>3. \A q \in Procs : q # p => (Writing(q)' <=> Writing(q))
    BY <2>1 DEF Writing
  <2>4. ~ Writing(p)'
    BY <2>1 DEF Writing
  <2>5. \A i \in DOMAIN issued :
          (\A q \in Procs : ~ Writing(q)') => issued[i] < Number
    BY <2>2, <2>3 DEF ValueInv
  <2>6. ValueInv'
    BY <2>1, <2>3, <2>4, <2>5 DEF ValueInv, Writing
  <2> QED
    BY <2>1, <2>6 DEF IncreasingUnlessRace, Undisturbed
<1>6. CASE Release(p)
  <2>1. /\ UNCHANGED file /\ Number' = Number /\ Writing(p)
        /\ pc[p] = "release" /\ pc'[p] = "idle"
        /\ issued' = Append(issued, current[p])
        /\ \A q \in Procs : q # p => pc'[q] = pc[q]
    BY <1>6 DEF Release, Leave, Writing, Number
  <2>2. \A q \in Procs : q # p => ~ Writing(q)
    BY <1>1, <2>1
  <2>3. \A q \in Procs : ~ Writing(q)' /\ pc'[q] # "release" /\ pc'[q] # "truncate"
    BY <2>1, <2>2 DEF Writing
  <2>4. Number = current[p] + 1 /\ current[p] \in Nat
    BY <2>1 DEF ValueInv, Number
  <2>5. /\ Len(issued) \in Nat /\ DOMAIN issued = 1..Len(issued)
        /\ DOMAIN issued' = 1..(Len(issued) + 1)
        /\ issued'[Len(issued) + 1] = current[p]
        /\ \A i \in DOMAIN issued : issued'[i] = issued[i] /\ issued[i] \in Nat
    BY <2>1
  <2>6. \A i \in DOMAIN issued : issued[i] < current[p]
    BY <2>1 DEF ValueInv
  <2>7. \A i \in DOMAIN issued' : issued'[i] < Number
    BY <2>4, <2>5, <2>6
  <2>8. ValueInv'
    BY <2>1, <2>3, <2>7 DEF ValueInv
  <2>9. IncreasingUnlessRace'
    <3>1. \A i, j \in DOMAIN issued : i < j => issued[i] < issued[j]
      BY DEF IncreasingUnlessRace, Undisturbed
    <3> SUFFICES ASSUME NEW i \in DOMAIN issued', NEW j \in DOMAIN issued', i < j
                 PROVE  issued'[i] < issued'[j]
      BY DEF IncreasingUnlessRace
    <3>2. i \in DOMAIN issued
      BY <2>5
    <3>3. CASE j \in DOMAIN issued
      BY <2>5, <3>1, <3>2, <3>3
    <3>4. CASE j = Len(issued) + 1
      BY <2>5, <2>6, <3>2, <3>4
    <3> QED
      BY <2>5, <3>3, <3>4
  <2> QED
    BY <2>8, <2>9
<1> QED
  BY <1>2, <1>3, <1>4, <1>5, <1>6 DEF Advance

\* allocateCounter hands out ever larger numbers: no VM name, token id or plan
\* id comes twice, unless a lock was taken from a live holder, the number could
\* not be read, or a write was cut short.
THEOREM IncreasingAlways == Spec => []IncreasingUnlessRace
<1>1. Init => ValueInv /\ IncreasingUnlessRace
  BY DEF Init, ValueInv, IncreasingUnlessRace
<1>2. TypeOK /\ AttemptInv /\ LockInv /\ ValueInv /\ IncreasingUnlessRace /\ [Next]_vars
        => ValueInv' /\ IncreasingUnlessRace'
  <2> SUFFICES ASSUME TypeOK, AttemptInv, LockInv, ValueInv, IncreasingUnlessRace,
                      [Next]_vars
               PROVE  ValueInv' /\ IncreasingUnlessRace'
    OBVIOUS
  <2>1. CASE ~ Undisturbed'
    BY <2>1 DEF ValueInv, IncreasingUnlessRace, Undisturbed
  <2>2. CASE Undisturbed'
    <3>1. Undisturbed
      BY <2>2, DisturbedStays
    <3>2. CASE UNCHANGED vars
      BY <3>2 DEF vars, ValueInv, IncreasingUnlessRace, Writing, Number, Undisturbed
    <3>3. ASSUME NEW p \in Procs,
                 Start(p) \/ Advance(p) \/ ReadFails(p) \/ WriteFails(p) \/ Crash(p)
          PROVE  ValueInv' /\ IncreasingUnlessRace'
      <4>1. ~ ReadFails(p)
        BY <2>2 DEF ReadFails, Undisturbed
      <4> QED
        BY <2>2, <3>1, <3>3, <4>1, ValuesKept
    <3> QED
      BY <3>2, <3>3 DEF Next
  <2> QED
    BY <2>1, <2>2
<1> QED
  BY <1>1, <1>2, TypeCorrect, LockIsSound, PTL DEF Spec
=============================================================================
