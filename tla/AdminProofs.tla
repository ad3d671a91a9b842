---------------------------- MODULE AdminProofs -----------------------------
(***************************************************************************)
(* Proofs about admin commands.  AdminCommands: its types, and that        *)
(* commands run in the order of their nonces, each at most once.  Knock:   *)
(* its types, that every open rule has somebody to close it, and that a    *)
(* login narrows the rules.                                                *)
(***************************************************************************)
EXTENDS AdminCommands, Knock, SequenceTheorems, TLAPS

\* Pruning and marking keep a store's kind.
LEMMA KeptType ==
  ASSUME store \in Stores PROVE Kept \subseteq store.seen
BY DEF Kept, Stores

LEMMA SavedType ==
  ASSUME NEW new \in Stores, disk \in Stores, faults \in 0..MaxFaults, Save(new)
  PROVE  /\ store' \in Stores
         /\ disk' \in Stores
         /\ faults' \in 0..MaxFaults
BY AdminAssumption DEF Save, Fault, AdminAssumption

LEMMA MarkedType ==
  ASSUME store \in Stores, NEW nonce \in Nonce PROVE Marked(nonce) \in Stores
BY DEF Marked, Stores

\* A scan's list names transactions on the chain.
LEMMA ListType ==
  ASSUME chain \in Seq(Nonce)
  PROVE  [i \in 1..Newest(COUNT) |-> Len(chain) + 1 - i] \in Seq(1..Len(chain))
<1>1. Newest(COUNT) \in Nat /\ Newest(COUNT) <= Len(chain)
  BY AdminAssumption DEF Newest, AdminAssumption
<1>2. \A i \in 1..Newest(COUNT) : Len(chain) + 1 - i \in 1..Len(chain)
  BY <1>1
<1> QED
  BY <1>1, <1>2

\* The type invariant of AdminCommands, for every bound.
THEOREM TypeCorrect == Spec => []TypeOK
<1> USE AdminAssumption DEF AdminAssumption
<1>1. Init => TypeOK
  <2> SUFFICES ASSUME Init PROVE TypeOK
    OBVIOUS
  <2>1. chain \in Seq(Nonce) /\ executed \in Seq(Nonce) /\ queue \in Seq(1..Len(chain))
    BY DEF Init
  <2>2. store \in Stores /\ disk \in Stores
    BY DEF Init, EmptyStore, Stores, Nonce
  <2>3. running \in Nonce /\ crashes \in 0..MaxCrashes /\ faults \in 0..MaxFaults
    BY DEF Init, Nonce
  <2>4. loaded \in BOOLEAN
    BY DEF Init
  <2> QED
    BY <2>1, <2>2, <2>3, <2>4 DEF TypeOK
<1>2. TypeOK /\ [Next]_vars => TypeOK'
  <2> SUFFICES ASSUME TypeOK, [Next]_vars PROVE TypeOK'
    OBVIOUS
  <2> USE DEF TypeOK
  <2>1. ASSUME NEW nonce \in Nonce, Send(nonce) PROVE TypeOK'
    <3>1. chain' \in Seq(Nonce) /\ Len(chain') = Len(chain) + 1
      BY <2>1 DEF Send
    <3>2. queue \in Seq(1..Len(chain'))
      BY <3>1
    <3> QED
      BY <2>1, <3>1, <3>2 DEF Send
  <2>2. CASE LoadNonces
    BY <2>2 DEF LoadNonces, Fault, EmptyStore, Stores, Nonce
  <2>3. CASE StartScan
    <3>1. queue' \in Seq(1..Len(chain))
      BY <2>3, ListType DEF StartScan
    <3>2. [store EXCEPT !.seen = Kept] \in Stores
      BY KeptType DEF Stores
    <3>3. store' \in Stores /\ disk' \in Stores /\ faults' \in 0..MaxFaults
      BY <2>3, <3>2, SavedType DEF StartScan, PruneOldNonces
    <3> QED
      BY <2>3, <3>1, <3>3 DEF StartScan
  <2>4. CASE SkipTransaction
    BY <2>4 DEF SkipTransaction
  <2>5. CASE AcceptTransaction
    <3>1. chain[Head(queue)] \in Nonce
      BY <2>5 DEF AcceptTransaction
    <3>2. store' \in Stores /\ disk' \in Stores /\ faults' \in 0..MaxFaults
      BY <2>5, <3>1, MarkedType, SavedType DEF AcceptTransaction
    <3> QED
      BY <2>5, <3>1, <3>2 DEF AcceptTransaction
  <2>6. CASE Dispatch
    BY <2>6 DEF Dispatch, Nonce
  <2>7. CASE Crash
    <3>1. queue' \in Seq(1..Len(chain'))
      BY <2>7 DEF Crash
    <3>2. store' \in Stores /\ disk' \in Stores
      BY <2>7 DEF Crash, EmptyStore, Stores, Nonce
    <3>3. running' \in Nonce /\ crashes' \in 0..MaxCrashes /\ faults' \in 0..MaxFaults
      BY <2>7 DEF Crash, Nonce
    <3>4. loaded' \in BOOLEAN
      BY <2>7 DEF Crash
    <3> QED
      BY <2>7, <3>1, <3>2, <3>3, <3>4 DEF Crash
  <2>8. CASE UNCHANGED vars
    BY <2>8 DEF vars
  <2> QED
    BY <2>1, <2>2, <2>3, <2>4, <2>5, <2>6, <2>7, <2>8 DEF Next
<1> QED
  BY <1>1, <1>2, PTL DEF Spec

-----------------------------------------------------------------------------
\* Memory and disk agree on the highest nonce, the command being awaited is
\* newer than all that have run, and none of them is above the mark.
OrderInv ==
  faults = 0 =>
    /\ loaded => store.lastSeen = disk.lastSeen
    /\ ~loaded => running = 0 /\ queue = <<>>
    /\ running <= disk.lastSeen
    /\ \A i \in DOMAIN executed :
         /\ executed[i] <= disk.lastSeen
         /\ running # 0 => executed[i] < running
    /\ \A i, j \in DOMAIN executed : i < j => executed[i] < executed[j]

\* A saved store is on disk, unless writing it is a fault.
LEMMA SavedIsOnDisk ==
  ASSUME NEW new, faults \in Nat, Save(new), faults' = 0
  PROVE  faults = 0 /\ store' = new /\ disk' = new
BY DEF Save, Fault

\* OrderInv is inductive.
THEOREM OrderIsKept == Spec => []OrderInv
<1> USE AdminAssumption DEF AdminAssumption
<1>1. Init => OrderInv
  BY DEF Init, OrderInv, EmptyStore
<1>2. TypeOK /\ OrderInv /\ [Next]_vars => OrderInv'
  <2> SUFFICES ASSUME TypeOK, OrderInv, [Next]_vars, faults' = 0 PROVE OrderInv'
    BY DEF OrderInv
  <2> USE DEF OrderInv, TypeOK
  <2>1. ASSUME NEW nonce \in Nonce, Send(nonce) PROVE OrderInv'
    BY <2>1 DEF Send
  <2>2. CASE LoadNonces
    BY <2>2 DEF LoadNonces, Fault
  <2>3. CASE StartScan
    <3>1. /\ store'.lastSeen = store.lastSeen
          /\ disk'.lastSeen = store.lastSeen \/ disk' = disk
          /\ faults = 0
      BY <2>3, SavedIsOnDisk DEF StartScan, PruneOldNonces, Stores
    <3> QED
      BY <2>3, <3>1 DEF StartScan
  <2>4. CASE SkipTransaction
    BY <2>4 DEF SkipTransaction
  <2>5. CASE AcceptTransaction
    <3> DEFINE nonce == chain[Head(queue)]
    <3>1. nonce \in Nonce /\ nonce > store.lastSeen
      BY <2>5 DEF AcceptTransaction, IsNonceUsed, Nonce, Stores
    <3>2. faults = 0 /\ store' = Marked(nonce) /\ disk' = Marked(nonce)
      BY <2>5, SavedIsOnDisk DEF AcceptTransaction
    <3>3. store'.lastSeen = nonce /\ disk'.lastSeen = nonce
      BY <3>1, <3>2 DEF Marked
    <3>4. loaded
      BY <2>5, <3>2 DEF AcceptTransaction
    <3>5. \A i \in DOMAIN executed : executed[i] < nonce
      BY <3>1, <3>2, <3>4 DEF Stores, Nonce
    <3> QED
      BY <2>5, <3>1, <3>2, <3>3, <3>4, <3>5 DEF AcceptTransaction, Nonce
  <2>6. CASE Dispatch
    <3>1. Len(executed') = Len(executed) + 1 /\ executed' \in Seq(Nonce)
      BY <2>6 DEF Dispatch
    <3>2. \A i \in DOMAIN executed' :
            executed'[i] = IF i = Len(executed) + 1 THEN running ELSE executed[i]
      BY <2>6 DEF Dispatch
    <3>3. \A i \in DOMAIN executed' :
            i \in DOMAIN executed \/ i = Len(executed) + 1
      BY <3>1
    <3> QED
      BY <2>6, <3>1, <3>2, <3>3 DEF Dispatch, Nonce, Stores
  <2>7. CASE Crash
    BY <2>7 DEF Crash, Stores, Nonce
  <2>8. CASE UNCHANGED vars
    BY <2>8 DEF vars
  <2> QED
    BY <2>1, <2>2, <2>3, <2>4, <2>5, <2>6, <2>7, <2>8 DEF Next
<1> QED
  BY <1>1, <1>2, TypeCorrect, PTL DEF Spec

\* Commands run in the order of their nonces, none of them twice: whatever
\* is copied on chain, scanned again or pruned, and however often the monitor
\* restarts, as long as the nonce file is neither lost nor left unwritten.
THEOREM RunsInOrderAlways == Spec => []RunsInOrder
<1>1. OrderInv => RunsInOrder
  BY DEF OrderInv, RunsInOrder
<1> QED
  BY <1>1, OrderIsKept, PTL

\* A nonce is on disk before its command is dispatched: no crash can make
\* the command run again.
THEOREM MarkedBeforeRunAlways == Spec => []MarkedBeforeRun
<1>1. OrderInv => MarkedBeforeRun
  BY DEF OrderInv, MarkedBeforeRun
<1> QED
  BY <1>1, OrderIsKept, PTL

-----------------------------------------------------------------------------
(***************************************************************************)
(* Knock.  While the root agent answers and nothing was restarted or       *)
(* raced, a rule is owned: by the knock whose current filter it carries,   *)
(* as long as no function has taken its port, or by the function that      *)
(* opened it.                                                              *)
(***************************************************************************)
Clean == failures = 0 /\ restarts = 0 /\ raced = {}

\* The only function of its knock that is under way.
Alone(t) == tasks[t] = 1 /\ \A u \in InFlight : u.tx = t.tx => u = t

Current(knock) == IF knock.loginSource # None THEN knock.loginSource ELSE knock.source

\* A function under way that has taken the port from the rules of knock k.
TakesFrom(t, k, port) ==
  /\ t.tx = k
  /\ \/ t.loop \in {"narrow", "close", "shutdown"} /\ port \notin t.left
     \/ t.loop = "reopen"

OwnedByKnock(k, rule) ==
  /\ Current(knocks[k]) = rule[2]
  /\ \A t \in InFlight : ~TakesFrom(t, k, rule[1])

OwnedByTask(t, rule) ==
  \/ t.loop = "open" /\ t.source = rule[2]
  \/ t.loop = "reopen" /\ t.ip = rule[2]

Owned(rule) ==
  \/ \E k \in DOMAIN knocks : OwnedByKnock(k, rule)
  \/ \E t \in InFlight : OwnedByTask(t, rule)

\* What a function relies on: its knock is tracked, or not yet, and nothing
\* else changes it; a knock that is being closed neither polls nor watches.
TaskInv(t) ==
  /\ t.loop # "undo"
  /\ t.loop \in {"open", "narrow", "reopen"} => Alone(t)
  /\ t.loop = "open" => t.tx \notin DOMAIN knocks
  /\ t.loop \in {"narrow", "reopen"} =>
       /\ t.tx \in DOMAIN knocks
       /\ knocks[t.tx].loginSource = None
       /\ knocks[t.tx].source = t.source
  /\ t.loop \in {"close", "shutdown"} /\ t.tx \in DOMAIN knocks =>
       /\ ~knocks[t.tx].polling /\ ~knocks[t.tx].tailing
       /\ t.source = Current(knocks[t.tx])

OwnersHold ==
  /\ \A t \in InFlight : TaskInv(t)
  /\ \A rule \in rules : Owned(rule)

OwnersInv == Clean => OwnersHold

\* A transition is to an address somebody logged in from; a knock opens its
\* ports for the filter of the command.
Proper(t) ==
  /\ t.loop \in {"narrow", "reopen"} => t.ip \in Ips
  /\ t.loop = "open" => t.source \in Sources

SentInv == \A t \in InFlight : t.tx \in sent /\ Proper(t)

-----------------------------------------------------------------------------
\* One copy of an element replaced by those of a set.
LEMMA BagReplace ==
  ASSUME NEW B, IsABag(B), NEW t \in DOMAIN B, NEW new,
         NEW R, R = (B (-) SetToBag({t})) (+) SetToBag(new)
  PROVE  /\ IsABag(R)
         /\ DOMAIN R \subseteq DOMAIN B \cup new
         /\ (DOMAIN B \ {t}) \cup new \subseteq DOMAIN R
         /\ B[t] = 1 /\ t \notin new => t \notin DOMAIN R
         /\ \A x \in DOMAIN B : x # t /\ x \notin new => R[x] = B[x]
         /\ \A x \in new : x \notin DOMAIN B => R[x] = 1
<1> DEFINE less == [e \in DOMAIN B |-> IF e \in {t} THEN B[e] - 1 ELSE B[e]]
           M == [e \in {d \in DOMAIN B : less[d] > 0} |-> less[e]]
<1>1. B (-) SetToBag({t}) = M
  BY DEF (-), SetToBag
<1>2. \A e \in DOMAIN B : B[e] \in Nat /\ B[e] > 0
  BY DEF IsABag
<1>3. /\ DOMAIN M \subseteq DOMAIN B
      /\ \A e \in DOMAIN B : e # t => e \in DOMAIN M /\ M[e] = B[e]
      /\ B[t] = 1 => t \notin DOMAIN M
      /\ \A e \in DOMAIN M : M[e] \in Nat /\ M[e] > 0
  BY <1>2
<1> HIDE DEF M
<1>4. R = [e \in DOMAIN M \cup new |-> (IF e \in DOMAIN M THEN M[e] ELSE 0)
                                       + (IF e \in new THEN 1 ELSE 0)]
  BY <1>1 DEF (+), SetToBag
<1>5. DOMAIN R = DOMAIN M \cup new /\ R = [e \in DOMAIN R |-> R[e]]
  BY <1>4
<1>6. ASSUME NEW e \in DOMAIN M \cup new
      PROVE  /\ R[e] \in Nat /\ R[e] > 0
             /\ e \notin new => R[e] = M[e]
             /\ e \notin DOMAIN M => R[e] = 1
  <2>1. R[e] = (IF e \in DOMAIN M THEN M[e] ELSE 0) + (IF e \in new THEN 1 ELSE 0)
    BY <1>4
  <2>2. CASE e \in DOMAIN M
    <3>1. M[e] \in Nat /\ M[e] > 0
      BY <1>3, <2>2
    <3> QED
      BY <2>1, <2>2, <3>1
  <2>3. CASE e \notin DOMAIN M
    BY <2>1, <2>3
  <2> QED
    BY <2>2, <2>3
<1>7. IsABag(R)
  BY <1>5, <1>6 DEF IsABag
<1>8. ASSUME NEW x \in DOMAIN B, x # t, x \notin new PROVE R[x] = B[x]
  BY <1>3, <1>6, <1>8
<1>9. ASSUME NEW x \in new, x \notin DOMAIN B PROVE R[x] = 1
  BY <1>3, <1>6, <1>9
<1> QED
  BY <1>3, <1>5, <1>7, <1>8, <1>9

\* The functions under way after one began, or took a step.
LEMMA Began ==
  ASSUME KnockTypeOK, NEW t, tasks' = Add(t)
  PROVE  /\ IsABag(tasks')
         /\ InFlight' = InFlight \cup {t}
         /\ \A u \in InFlight : u # t => tasks'[u] = tasks[u]
         /\ t \notin InFlight => tasks'[t] = 1
<1> DEFINE B == tasks
           R == tasks'
<1>1. IsABag(B)
  BY DEF KnockTypeOK
<1>2. R = B (+) SetToBag({t})
  BY DEF Add
<1>3. InFlight = DOMAIN B /\ InFlight' = DOMAIN R
  BY DEF InFlight, BagToSet
<1> HIDE DEF B, R
<1>4. R = [e \in DOMAIN B \cup {t} |-> (IF e \in DOMAIN B THEN B[e] ELSE 0)
                                       + (IF e \in {t} THEN 1 ELSE 0)]
  BY <1>2 DEF (+), SetToBag
<1>5. \A e \in DOMAIN B : B[e] \in Nat /\ B[e] > 0
  BY <1>1 DEF IsABag
<1>6. DOMAIN R = DOMAIN B \cup {t} /\ R = [e \in DOMAIN R |-> R[e]]
  BY <1>4
<1>7. ASSUME NEW e \in DOMAIN B \cup {t}
      PROVE  /\ R[e] \in Nat /\ R[e] > 0
             /\ e \in DOMAIN B /\ e # t => R[e] = B[e]
             /\ e \notin DOMAIN B => R[e] = 1
  <2>1. R[e] = (IF e \in DOMAIN B THEN B[e] ELSE 0) + (IF e \in {t} THEN 1 ELSE 0)
    BY <1>4
  <2>2. CASE e \in DOMAIN B
    <3>1. B[e] \in Nat /\ B[e] > 0
      BY <1>5, <2>2
    <3> QED
      BY <2>1, <2>2, <3>1
  <2>3. CASE e \notin DOMAIN B
    BY <2>1, <2>3
  <2> QED
    BY <2>2, <2>3
<1>8. IsABag(R)
  BY <1>6, <1>7 DEF IsABag
<1> QED
  BY <1>3, <1>6, <1>7, <1>8 DEF B, R

LEMMA Went ==
  ASSUME KnockTypeOK, NEW t \in InFlight, NEW new, tasks' = Replace(t, new)
  PROVE  /\ IsABag(tasks')
         /\ InFlight' \subseteq InFlight \cup new
         /\ (InFlight \ {t}) \cup new \subseteq InFlight'
         /\ tasks[t] = 1 /\ t \notin new => t \notin InFlight'
         /\ \A u \in InFlight : u # t /\ u \notin new => tasks'[u] = tasks[u]
         /\ \A u \in new : u \notin InFlight => tasks'[u] = 1
<1>1. IsABag(tasks) /\ t \in DOMAIN tasks
  BY DEF KnockTypeOK, InFlight, BagToSet
<1>2. tasks' = (tasks (-) SetToBag({t})) (+) SetToBag(new)
  BY DEF Replace
<1> QED
  BY <1>1, <1>2, BagReplace DEF InFlight, BagToSet

LEMMA LoopIsTask ==
  ASSUME NEW name \in Loops, NEW k \in Knocks,
         NEW source \in Sources \cup Ips, NEW ip \in Ips \cup {None}
  PROVE  /\ Loop(name, k, source, ip) \in Task
         /\ Loop(name, k, source, ip).loop = name
         /\ Loop(name, k, source, ip).tx = k
         /\ Loop(name, k, source, ip).source = source
         /\ Loop(name, k, source, ip).ip = ip
         /\ Loop(name, k, source, ip).left = Ports
BY DEF Loop, Task, Loops

\* closeKnock, to its first call.
LEMMA CloseBegins ==
  ASSUME KnockTypeOK, NEW k \in DOMAIN knocks, NEW caller \in {"close", "shutdown"},
         Close(k, caller)
  PROVE  /\ DOMAIN knocks' = DOMAIN knocks
         /\ \A j \in DOMAIN knocks : j # k => knocks'[j] = knocks[j]
         /\ knocks'[k] \in ActiveKnock
         /\ knocks'[k].source = knocks[k].source
         /\ knocks'[k].loginSource = knocks[k].loginSource
         /\ ~knocks'[k].polling /\ ~knocks'[k].tailing
         /\ \E t \in Task : /\ t.loop = caller /\ t.tx = k /\ t.left = Ports
                            /\ t.source = Current(knocks[k])
                            /\ tasks' = Add(t)
<1> DEFINE knock == knocks[k]
           quiet == [[[knock EXCEPT !.timer = FALSE] EXCEPT !.polling = FALSE]
                       EXCEPT !.tailing = FALSE]
           t == Loop(caller, k, Current(knock), None)
<1>1. knock \in ActiveKnock /\ k \in Knocks
  BY DEF KnockTypeOK
<1>2. knocks' = [j \in DOMAIN knocks |-> IF j = k THEN quiet ELSE knocks[j]]
  BY DEF Close
<1>3. tasks' = Add(t)
  BY DEF Close, Current
<1> HIDE DEF knock
<1>4. /\ quiet \in ActiveKnock
      /\ quiet.source = knock.source /\ quiet.loginSource = knock.loginSource
      /\ ~quiet.polling /\ ~quiet.tailing
  BY <1>1 DEF ActiveKnock
<1>5. Current(knock) \in Sources \cup Ips
  BY <1>1 DEF ActiveKnock, Current
<1>6. t \in Task /\ t.loop = caller /\ t.tx = k /\ t.left = Ports /\ t.source = Current(knock)
  BY <1>1, <1>5, LoopIsTask DEF Loops
<1> HIDE DEF t, quiet
<1>7. /\ DOMAIN knocks' = DOMAIN knocks
      /\ knocks'[k] = quiet
      /\ \A j \in DOMAIN knocks : j # k => knocks'[j] = knocks[j]
  BY <1>2
<1> QED
  BY <1>3, <1>4, <1>6, <1>7 DEF knock

\* transitionToPostLogin, to its first call.
LEMMA TransitionBegins ==
  ASSUME KnockTypeOK, NEW k \in DOMAIN knocks, NEW ip \in Ips, Transition(k, ip)
  PROVE  \/ knocks[k].loginSource # None /\ UNCHANGED tasks
         \/ /\ knocks[k].loginSource = None
            /\ \E t \in Task : /\ t.loop = "narrow" /\ t.tx = k /\ t.left = Ports
                               /\ t.source = knocks[k].source /\ t.ip = ip
                               /\ tasks' = Add(t)
<1>1. knocks[k] \in ActiveKnock /\ k \in Knocks
  BY DEF KnockTypeOK
<1>2. knocks[k].source \in Sources \cup Ips
  BY <1>1 DEF ActiveKnock
<1> DEFINE t == Loop("narrow", k, knocks[k].source, ip)
<1>3. t \in Task /\ t.loop = "narrow" /\ t.tx = k /\ t.left = Ports
      /\ t.source = knocks[k].source /\ t.ip = ip
  BY <1>1, <1>2, LoopIsTask DEF Loops
<1>4. knocks[k].loginSource = None => tasks' = Add(t)
  BY DEF Transition
<1>5. knocks[k].loginSource # None => UNCHANGED tasks
  BY DEF Transition
<1> QED
  BY <1>3, <1>4, <1>5

-----------------------------------------------------------------------------
\* Knocks are tracked, and functions called, for commands that were sent.
KnocksInv == KnockTypeOK /\ SentInv

LEMMA Counters ==
  ASSUME KnockTypeOK
  PROVE  /\ sessions < MaxSessions => sessions + 1 \in 0..MaxSessions
         /\ failures < MaxFailures => failures + 1 \in 0..MaxFailures
         /\ restarts < MaxRestarts => restarts + 1 \in 0..MaxRestarts
<1>1. MaxSessions \in Nat /\ MaxFailures \in Nat /\ MaxRestarts \in Nat
  BY KnockAssumption
<1> QED
  BY <1>1 DEF KnockTypeOK

LEMMA KnocksInit == KnockInit => KnocksInv
<1> SUFFICES ASSUME KnockInit PROVE KnocksInv
  OBVIOUS
<1>1. MaxSessions \in Nat /\ MaxFailures \in Nat /\ MaxRestarts \in Nat
  BY KnockAssumption
<1>2. IsABag(tasks) /\ InFlight = {}
  BY DEF KnockInit, EmptyBag, SetToBag, IsABag, InFlight, BagToSet
<1>3. DOMAIN knocks = {}
  BY DEF KnockInit, EmptyMap
<1>4. /\ sent = {} /\ rules = {} /\ file = None /\ stopping = FALSE /\ raced = {}
      /\ sessions = 0 /\ failures = 0 /\ restarts = 0
  BY DEF KnockInit
<1>5. sessions \in 0..MaxSessions /\ failures \in 0..MaxFailures /\ restarts \in 0..MaxRestarts
  BY <1>1, <1>4
<1> QED
  BY <1>2, <1>3, <1>4, <1>5 DEF KnocksInv, KnockTypeOK, SentInv, KnockInit

\* A function's step, when it goes on for the same knock.
LEMMA GoesOn ==
  ASSUME KnocksInv, NEW t \in InFlight, NEW new \in SUBSET Task,
         \A u \in new : u.tx = t.tx /\ Proper(u), tasks' = Replace(t, new), sent' = sent
  PROVE  IsABag(tasks') /\ InFlight' \subseteq Task /\ SentInv'
<1>1. IsABag(tasks') /\ InFlight' \subseteq InFlight \cup new
  BY Went DEF KnocksInv
<1>2. InFlight \subseteq Task /\ \A u \in InFlight : u.tx \in sent /\ Proper(u)
  BY DEF KnocksInv, KnockTypeOK, SentInv
<1> QED
  BY <1>1, <1>2 DEF SentInv

\* A function more, of a knock that was sent.
LEMMA Begins ==
  ASSUME KnocksInv, NEW t \in Task, t.tx \in sent', Proper(t), sent \subseteq sent', tasks' = Add(t)
  PROVE  IsABag(tasks') /\ InFlight' \subseteq Task /\ SentInv'
<1>1. IsABag(tasks') /\ InFlight' = InFlight \cup {t}
  BY Began DEF KnocksInv
<1>2. InFlight \subseteq Task /\ \A u \in InFlight : u.tx \in sent /\ Proper(u)
  BY DEF KnocksInv, KnockTypeOK, SentInv
<1> QED
  BY <1>1, <1>2 DEF SentInv

LEMMA SameTasks ==
  ASSUME KnocksInv, UNCHANGED tasks, sent \subseteq sent'
  PROVE  IsABag(tasks') /\ InFlight' \subseteq Task /\ SentInv'
BY DEF KnocksInv, KnockTypeOK, SentInv, InFlight

\* A call to the root agent.
LEMMA RuleTypes ==
  ASSUME KnocksInv, NEW t \in InFlight, NEW port \in t.left
  PROVE  /\ t \in Task /\ port \in Ports
         /\ Rule(t, port) \in Ports \X (Sources \cup Ips)
<1>1. t \in Task /\ (t.loop = "reopen" => t.ip \in Ips)
  BY DEF KnocksInv, KnockTypeOK, SentInv, Proper
<1> QED
  BY <1>1 DEF Task, Loops, Rule

\* A loop over the ports that has one port less to go.
LEMMA OnePortLess ==
  ASSUME NEW t \in Task, NEW port \in t.left,
         NEW u, u = [t EXCEPT !.left = t.left \ {port}]
  PROVE  /\ u \in Task
         /\ u.tx = t.tx /\ u.loop = t.loop /\ u.ip = t.ip /\ u.source = t.source
         /\ u.left = t.left \ {port} /\ u # t
         /\ Proper(t) => Proper(u)
<1>1. /\ u \in Task
      /\ u.tx = t.tx /\ u.loop = t.loop /\ u.ip = t.ip /\ u.source = t.source
      /\ u.left = t.left \ {port}
  BY DEF Task, Loops
<1>2. u # t
  BY <1>1
<1> QED
  BY <1>1, <1>2 DEF Proper

\* The end of transitionToPostLogin.
LEMMA LoginRecorded ==
  ASSUME KnocksInv, NEW t \in InFlight, RecordLogin(t)
  PROVE  /\ DOMAIN knocks' = DOMAIN knocks
         /\ \A k \in DOMAIN knocks : k # t.tx => knocks'[k] = knocks[k]
         /\ t.tx \in DOMAIN knocks =>
              /\ knocks'[t.tx].source = knocks[t.tx].source
              /\ knocks'[t.tx].loginSource = t.ip
              /\ knocks'[t.tx].polling = knocks[t.tx].polling
              /\ ~knocks'[t.tx].tailing
         /\ \A k \in DOMAIN knocks' : knocks'[k] \in ActiveKnock
<1>1. t \in Task /\ t.loop = "reopen" /\ t.ip \in Ips
  BY DEF KnocksInv, KnockTypeOK, SentInv, Proper, RecordLogin
<1>2. \A k \in DOMAIN knocks : knocks[k] \in ActiveKnock
  BY DEF KnocksInv, KnockTypeOK
<1>3. CASE t.tx \notin DOMAIN knocks
  BY <1>2, <1>3 DEF RecordLogin
<1>4. CASE t.tx \in DOMAIN knocks
  <2> DEFINE knock == knocks[t.tx]
             narrowed == [[[knock EXCEPT !.timer = FALSE] EXCEPT !.loginSource = t.ip]
                            EXCEPT !.tailing = FALSE]
  <2>1. knocks' = [k \in DOMAIN knocks |-> IF k = t.tx THEN narrowed ELSE knocks[k]]
    BY <1>4 DEF RecordLogin
  <2>2. knock \in ActiveKnock
    BY <1>2, <1>4
  <2>3. /\ narrowed \in ActiveKnock
        /\ narrowed.source = knock.source /\ narrowed.loginSource = t.ip
        /\ narrowed.polling = knock.polling /\ ~narrowed.tailing
    <3> HIDE DEF knock
    <3> QED
      BY <1>1, <2>2 DEF ActiveKnock
  <2> HIDE DEF narrowed
  <2> QED
    BY <1>2, <1>4, <2>1, <2>3
<1> QED
  BY <1>3, <1>4

LEMMA KnocksStep == KnocksInv /\ [KnockNext]_knockVars => KnocksInv'
<1> SUFFICES ASSUME KnocksInv, [KnockNext]_knockVars PROVE KnocksInv'
  OBVIOUS
<1>0. KnockTypeOK /\ SentInv
  BY DEF KnocksInv
<1>1. ASSUME NEW t \in InFlight, AgentAnswers(t) PROVE KnocksInv'
  <2>1. PICK port \in t.left :
          /\ rules' = RulesAfter(t, port)
          /\ tasks' = Replace(t, {[t EXCEPT !.left = t.left \ {port}]})
    BY <1>1 DEF AgentAnswers
  <2>2. /\ t \in Task /\ port \in Ports /\ Proper(t)
        /\ Rule(t, port) \in Ports \X (Sources \cup Ips)
    BY <1>0, RuleTypes DEF SentInv
  <2> DEFINE u == [t EXCEPT !.left = t.left \ {port}]
  <2>3. tasks' = Replace(t, {u})
    BY <2>1
  <2>4. u \in Task /\ u.tx = t.tx /\ Proper(u)
    BY <2>2, OnePortLess
  <2> HIDE DEF u
  <2>5. IsABag(tasks') /\ InFlight' \subseteq Task /\ SentInv'
    <3>1. sent' = sent
      BY <1>1 DEF AgentAnswers
    <3> QED
      BY <2>3, <2>4, <3>1, GoesOn
  <2>6. rules' \subseteq Ports \X (Sources \cup Ips)
    BY <1>0, <2>1, <2>2 DEF RulesAfter, KnockTypeOK
  <2> QED
    BY <1>0, <1>1, <2>5, <2>6 DEF KnocksInv, KnockTypeOK, AgentAnswers
<1>2. ASSUME NEW t \in InFlight, AgentFails(t) PROVE KnocksInv'
  <2>1. PICK port \in t.left :
          /\ rules' \in {rules, RulesAfter(t, port)}
          /\ tasks' = Replace(t,
               IF t.loop = "open" THEN {Loop("undo", t.tx, t.source, None)}
               ELSE IF t.loop = "reopen" THEN {}
               ELSE {[t EXCEPT !.left = t.left \ {port}]})
    BY <1>2 DEF AgentFails
  <2>2. /\ t \in Task /\ port \in Ports /\ Proper(t)
        /\ Rule(t, port) \in Ports \X (Sources \cup Ips)
    BY <1>0, RuleTypes DEF SentInv
  <2>3. t.tx \in Knocks /\ t.source \in Sources \cup Ips
    BY <2>2 DEF Task, Loops
  <2> DEFINE u == [t EXCEPT !.left = t.left \ {port}]
             undo == Loop("undo", t.tx, t.source, None)
             new == IF t.loop = "open" THEN {undo} ELSE IF t.loop = "reopen" THEN {} ELSE {u}
  <2>4. tasks' = Replace(t, new)
    BY <2>1
  <2>5. u \in Task /\ u.tx = t.tx /\ Proper(u)
    BY <2>2, OnePortLess
  <2>6. undo \in Task /\ undo.tx = t.tx /\ Proper(undo)
    BY <2>3, LoopIsTask DEF Loops, Proper
  <2> HIDE DEF u, undo
  <2>7. new \in SUBSET Task /\ \A v \in new : v.tx = t.tx /\ Proper(v)
    BY <2>5, <2>6
  <2> HIDE DEF new
  <2>8. IsABag(tasks') /\ InFlight' \subseteq Task /\ SentInv'
    BY <1>2, <2>4, <2>7, GoesOn DEF AgentFails
  <2>9. rules' \subseteq Ports \X (Sources \cup Ips)
    BY <1>0, <2>1, <2>2 DEF RulesAfter, KnockTypeOK
  <2>10. failures' \in 0..MaxFailures
    BY <1>0, <1>2, Counters DEF AgentFails
  <2> QED
    BY <1>0, <1>2, <2>8, <2>9, <2>10 DEF KnocksInv, KnockTypeOK, AgentFails
<1>3. ASSUME NEW k \in Knocks, NEW source \in Sources, ExecuteKnock(k, source)
      PROVE  KnocksInv'
  <2> DEFINE t == Loop("open", k, source, None)
  <2>1. tasks' = Add(t) /\ sent' = sent \cup {k}
    BY <1>3 DEF ExecuteKnock
  <2>2. t \in Task /\ t.tx = k /\ Proper(t)
    BY LoopIsTask DEF Loops, Proper
  <2> HIDE DEF t
  <2>3. IsABag(tasks') /\ InFlight' \subseteq Task /\ SentInv'
    BY <2>1, <2>2, Begins
  <2> QED
    BY <1>0, <1>3, <2>1, <2>3 DEF KnocksInv, KnockTypeOK, ExecuteKnock
<1>4. ASSUME NEW t \in InFlight, TrackKnock(t) PROVE KnocksInv'
  <2>1. PICK tailing \in BOOLEAN :
          knocks' = [k \in DOMAIN knocks \cup {t.tx} |->
            IF k # t.tx THEN knocks[k]
            ELSE [source |-> t.source, loginSource |-> None,
                  timer |-> TRUE, polling |-> TRUE, tailing |-> tailing]]
    BY <1>4 DEF TrackKnock
  <2>2. t \in Task /\ t.tx \in sent /\ t.loop = "open"
    BY <1>0, <1>4 DEF KnockTypeOK, SentInv, TrackKnock
  <2>3. t.source \in Sources
    BY <1>0, <2>2 DEF SentInv, Proper
  <2>4. [source |-> t.source, loginSource |-> None,
         timer |-> TRUE, polling |-> TRUE, tailing |-> tailing] \in ActiveKnock
    BY <2>3 DEF ActiveKnock
  <2> DEFINE tracked == [source |-> t.source, loginSource |-> None,
                         timer |-> TRUE, polling |-> TRUE, tailing |-> tailing]
  <2>5. /\ DOMAIN knocks' \subseteq sent
        /\ \A k \in DOMAIN knocks' : knocks'[k] \in ActiveKnock
    <3> HIDE DEF tracked
    <3>1. knocks' = [k \in DOMAIN knocks \cup {t.tx} |-> IF k # t.tx THEN knocks[k] ELSE tracked]
      BY <2>1 DEF tracked
    <3>2. tracked \in ActiveKnock
      BY <2>4 DEF tracked
    <3> QED
      BY <1>0, <2>2, <3>1, <3>2 DEF KnockTypeOK
  <2>6. UNCHANGED <<sent, stuck, rules, stopping, sessions, failures, restarts, raced>>
        /\ file' = None
    BY <1>4 DEF TrackKnock
  <2>7. tasks' = Replace(t, {})
    BY <1>4 DEF TrackKnock
  <2>8. IsABag(tasks') /\ InFlight' \subseteq Task /\ SentInv'
    BY <2>6, <2>7, GoesOn
  <2> QED
    BY <1>0, <2>5, <2>6, <2>8 DEF KnocksInv, KnockTypeOK
<1>5. ASSUME NEW t \in InFlight, UndoEnds(t) PROVE KnocksInv'
  <2>1. tasks' = Replace(t, {}) /\ sent' = sent
    BY <1>5 DEF UndoEnds
  <2>2. IsABag(tasks') /\ InFlight' \subseteq Task /\ SentInv'
    BY <2>1, GoesOn
  <2> QED
    BY <1>0, <1>5, <2>2 DEF KnocksInv, KnockTypeOK, UndoEnds
<1>6. ASSUME NEW t \in InFlight, ReopenPorts(t) PROVE KnocksInv'
  <2> DEFINE u == Loop("reopen", t.tx, t.source, t.ip)
  <2>1. tasks' = Replace(t, {u}) /\ sent' = sent
    BY <1>6 DEF ReopenPorts
  <2>2. t \in Task /\ t.loop = "narrow" /\ Proper(t)
    BY <1>0, <1>6 DEF KnockTypeOK, SentInv, ReopenPorts
  <2>3. u \in Task /\ u.tx = t.tx /\ Proper(u)
    <3>1. t.tx \in Knocks /\ t.source \in Sources \cup Ips /\ t.ip \in Ips
      BY <2>2 DEF Task, Loops, Proper
    <3>2. u \in Task /\ u.tx = t.tx /\ u.loop = "reopen" /\ u.ip = t.ip
      BY <3>1, LoopIsTask DEF Loops
    <3> QED
      BY <3>1, <3>2 DEF Proper
  <2> HIDE DEF u
  <2>4. IsABag(tasks') /\ InFlight' \subseteq Task /\ SentInv'
    BY <2>1, <2>3, GoesOn
  <2> QED
    BY <1>0, <1>6, <2>4 DEF KnocksInv, KnockTypeOK, ReopenPorts
<1>7. ASSUME NEW t \in InFlight, RecordLogin(t) PROVE KnocksInv'
  <2>1. tasks' = Replace(t, {}) /\ sent' = sent
    BY <1>7 DEF RecordLogin
  <2>2. IsABag(tasks') /\ InFlight' \subseteq Task /\ SentInv'
    BY <2>1, GoesOn
  <2>3. /\ DOMAIN knocks' = DOMAIN knocks
        /\ \A k \in DOMAIN knocks' : knocks'[k] \in ActiveKnock
    BY <1>0, <1>7, LoginRecorded DEF KnocksInv
  <2> QED
    BY <1>0, <1>7, <2>2, <2>3 DEF KnocksInv, KnockTypeOK, RecordLogin
<1>8. ASSUME NEW t \in InFlight, CloseEnds(t) PROVE KnocksInv'
  <2>1. tasks' = Replace(t, {}) /\ sent' = sent
    BY <1>8 DEF CloseEnds
  <2>2. IsABag(tasks') /\ InFlight' \subseteq Task /\ SentInv'
    BY <2>1, GoesOn
  <2>3. /\ DOMAIN knocks' \subseteq DOMAIN knocks
        /\ \A k \in DOMAIN knocks' : knocks'[k] \in ActiveKnock
    BY <1>0, <1>8 DEF CloseEnds, KnockTypeOK
  <2> QED
    BY <1>0, <1>8, <2>2, <2>3 DEF KnocksInv, KnockTypeOK, CloseEnds
<1>9. ASSUME NEW k \in DOMAIN knocks, NEW caller \in {"close", "shutdown"}, Close(k, caller),
             UNCHANGED <<sent, stuck, rules, file, failures, restarts, sessions, stopping>>
      PROVE  KnocksInv'
  <2>1. /\ DOMAIN knocks' = DOMAIN knocks
        /\ \A j \in DOMAIN knocks : j # k => knocks'[j] = knocks[j]
        /\ knocks'[k] \in ActiveKnock
    BY <1>0, <1>9, CloseBegins
  <2>2. PICK t \in Task : t.loop = caller /\ t.tx = k /\ tasks' = Add(t)
    BY <1>0, <1>9, CloseBegins
  <2>3. t.tx \in sent' /\ sent \subseteq sent' /\ Proper(t)
    BY <1>0, <1>9, <2>2 DEF KnockTypeOK, Proper
  <2>4. IsABag(tasks') /\ InFlight' \subseteq Task /\ SentInv'
    BY <2>2, <2>3, Begins
  <2>5. raced' \subseteq sent
    BY <1>0, <1>9 DEF KnockTypeOK, Close
  <2> QED
    BY <1>0, <1>9, <2>1, <2>4, <2>5 DEF KnocksInv, KnockTypeOK
<1>10. ASSUME NEW k \in DOMAIN knocks, NEW ip \in Ips, Transition(k, ip),
              UNCHANGED <<sent, knocks, stuck, rules, failures, restarts, stopping>>,
              sessions' \in 0..MaxSessions, file' \in ActiveFile \cup {None}
      PROVE  KnocksInv'
  <2>1. IsABag(tasks') /\ InFlight' \subseteq Task /\ SentInv'
    <3>1. CASE UNCHANGED tasks
      BY <1>10, <3>1, SameTasks
    <3>2. ASSUME NEW t \in Task, t.loop = "narrow", t.tx = k, t.ip = ip, tasks' = Add(t)
          PROVE  IsABag(tasks') /\ InFlight' \subseteq Task /\ SentInv'
      <4>1. t.tx \in sent' /\ sent \subseteq sent' /\ Proper(t)
        BY <1>0, <1>10, <3>2 DEF KnockTypeOK, Proper
      <4> QED
        BY <3>2, <4>1, Begins
    <3> QED
      BY <1>0, <1>10, <3>1, <3>2, TransitionBegins
  <2>2. raced' \subseteq sent
    BY <1>0, <1>10 DEF KnockTypeOK, Transition
  <2> QED
    BY <1>0, <1>10, <2>1, <2>2 DEF KnocksInv, KnockTypeOK
<1>11. ASSUME NEW k \in Knocks, HeartbeatTransition(k) PROVE KnocksInv'
  <2>1. file \in ActiveFile /\ file.ip \in Ips
    BY <1>0, <1>11 DEF KnockTypeOK, HeartbeatTransition, ActiveFile
  <2> QED
    BY <1>0, <1>10, <1>11, <2>1 DEF HeartbeatTransition, KnockTypeOK
<1>12. ASSUME NEW k \in Knocks, NEW ip \in Ips, LoginDetected(k, ip) PROVE KnocksInv'
  <2>1. file' \in ActiveFile
    BY <1>12 DEF LoginDetected, ActiveFile
  <2>2. sessions' \in 0..MaxSessions
    BY <1>0, <1>12, Counters DEF LoginDetected
  <2> QED
    BY <1>10, <1>12, <2>1, <2>2 DEF LoginDetected
<1>13. ASSUME NEW ip \in Ips, SessionWrites(ip) PROVE KnocksInv'
  <2>1. file' \in ActiveFile /\ sent' = sent /\ tasks' = tasks
    BY <1>13 DEF SessionWrites, ActiveFile
  <2>2. sessions' \in 0..MaxSessions
    BY <1>0, <1>13, Counters DEF SessionWrites
  <2>3. IsABag(tasks') /\ InFlight' \subseteq Task /\ SentInv'
    BY <2>1, SameTasks
  <2> QED
    BY <1>0, <1>13, <2>1, <2>2, <2>3 DEF KnocksInv, KnockTypeOK, SessionWrites
<1>14. ASSUME SessionFallsSilent PROVE KnocksInv'
  <2>1. file \in ActiveFile /\ file' \in ActiveFile
    BY <1>0, <1>14 DEF KnockTypeOK, SessionFallsSilent, ActiveFile
  <2>2. IsABag(tasks') /\ InFlight' \subseteq Task /\ SentInv'
    BY <1>14, SameTasks DEF SessionFallsSilent
  <2> QED
    BY <1>0, <1>14, <2>1, <2>2 DEF KnocksInv, KnockTypeOK, SessionFallsSilent
<1>15. ASSUME SessionEnds \/ Shutdown \/ UNCHANGED knockVars PROVE KnocksInv'
  <2>1. UNCHANGED tasks /\ sent \subseteq sent'
    BY <1>15 DEF SessionEnds, Shutdown, knockVars
  <2>2. IsABag(tasks') /\ InFlight' \subseteq Task /\ SentInv'
    BY <2>1, SameTasks
  <2> QED
    BY <1>0, <1>15, <2>2 DEF KnocksInv, KnockTypeOK, SessionEnds, Shutdown, knockVars
<1>16. ASSUME Restart PROVE KnocksInv'
  <2>1. IsABag(tasks') /\ InFlight' = {} /\ DOMAIN knocks' = {}
    BY <1>16 DEF Restart, EmptyBag, SetToBag, IsABag, InFlight, BagToSet, EmptyMap
  <2>2. restarts' \in 0..MaxRestarts
    BY <1>0, <1>16, Counters DEF Restart
  <2> QED
    BY <1>0, <1>16, <2>1, <2>2 DEF KnocksInv, KnockTypeOK, SentInv, Restart
<1>17. ASSUME NEW k \in Knocks, TimeoutFires(k) \/ HeartbeatClose(k) \/ ShutdownClose(k)
       PROVE  KnocksInv'
  BY <1>9, <1>17 DEF TimeoutFires, HeartbeatClose, ShutdownClose
<1>18. ASSUME NEW t \in InFlight, AgentHangsUp(t) PROVE KnocksInv'
  <2>1. PICK port \in t.left : rules' \in {rules, RulesAfter(t, port)}
    BY <1>18 DEF AgentHangsUp
  <2>2. /\ t \in Task /\ port \in Ports
        /\ Rule(t, port) \in Ports \X (Sources \cup Ips)
    BY <1>0, RuleTypes DEF SentInv
  <2>3. IsABag(tasks') /\ InFlight' \subseteq Task /\ SentInv'
    BY <1>18, GoesOn DEF AgentHangsUp
  <2>4. rules' \subseteq Ports \X (Sources \cup Ips)
    BY <1>0, <2>1, <2>2 DEF RulesAfter, KnockTypeOK
  <2>5. failures' \in 0..MaxFailures
    BY <1>0, <1>18, Counters DEF AgentHangsUp
  <2>6. <<t.loop, t.tx>> \in Loops \X Knocks
    BY <2>2 DEF Task, Loops
  <2>7. stuck' \subseteq Loops \X Knocks
    BY <1>0, <1>18, <2>6 DEF AgentHangsUp, KnockTypeOK
  <2> QED
    BY <1>0, <1>18, <2>3, <2>4, <2>5, <2>7 DEF KnocksInv, KnockTypeOK, AgentHangsUp
<1> QED
  BY <1>1, <1>2, <1>3, <1>4, <1>5, <1>6, <1>7, <1>8, <1>11, <1>12, <1>13, <1>14,
     <1>15, <1>16, <1>17, <1>18 DEF KnockNext, Return

-----------------------------------------------------------------------------
\* A function whose knock, and the knock's functions, stay as they are.
LEMMA TaskKept ==
  ASSUME NEW u \in InFlight, TaskInv(u), tasks'[u] = tasks[u],
         \A v \in InFlight' : v.tx = u.tx => v \in InFlight,
         u.tx \in DOMAIN knocks' <=> u.tx \in DOMAIN knocks,
         u.tx \in DOMAIN knocks => knocks'[u.tx] = knocks[u.tx]
  PROVE  TaskInv(u)'
<1>1. Alone(u) => Alone(u)'
  BY DEF Alone
<1> QED
  BY <1>1 DEF TaskInv, Current

\* A function that closes rules, of a knock that is as it was or gone.
LEMMA CloserKept ==
  ASSUME NEW u, u.loop \in {"close", "shutdown"}, TaskInv(u),
         u.tx \in DOMAIN knocks' => /\ u.tx \in DOMAIN knocks
                                    /\ Current(knocks'[u.tx]) = Current(knocks[u.tx])
                                    /\ ~knocks'[u.tx].polling /\ ~knocks'[u.tx].tailing
  PROVE  TaskInv(u)'
BY DEF TaskInv

\* What is not alone is closing rules.
LEMMA LoneOrCloser ==
  ASSUME KnockTypeOK, NEW u \in InFlight, TaskInv(u)
  PROVE  \/ u.loop \in {"open", "narrow", "reopen"} /\ Alone(u)
         \/ u.loop \in {"close", "shutdown"}
<1>1. u.loop \in {"open", "undo", "narrow", "reopen", "close", "shutdown"}
  BY DEF KnockTypeOK, Task, Loops
<1> QED
  BY <1>1 DEF TaskInv

LEMMA RuleIsPair ==
  ASSUME KnockTypeOK, NEW rule \in rules
  PROVE  rule = <<rule[1], rule[2]>> /\ rule[1] \in Ports
BY DEF KnockTypeOK

\* A call to the root agent that succeeds.
LEMMA OwnersAnswered ==
  ASSUME KnocksInv, OwnersHold, NEW t \in InFlight, AgentAnswers(t)
  PROVE  OwnersHold'
<1>0. KnockTypeOK /\ SentInv /\ \A v \in InFlight : v \in Task /\ TaskInv(v)
  BY DEF KnocksInv, KnockTypeOK, OwnersHold
<1>1. PICK port \in t.left :
        /\ rules' = RulesAfter(t, port)
        /\ tasks' = Replace(t, {[t EXCEPT !.left = t.left \ {port}]})
  BY DEF AgentAnswers
<1>2. t \in Task /\ port \in Ports /\ TaskInv(t)
  BY <1>0, RuleTypes
<1> DEFINE u == [t EXCEPT !.left = t.left \ {port}]
<1>3. tasks' = Replace(t, {u})
  BY <1>1
<1>4. /\ u.tx = t.tx /\ u.loop = t.loop /\ u.ip = t.ip /\ u.source = t.source
      /\ u.left = t.left \ {port} /\ u # t
  BY <1>2, OnePortLess
<1>5. UNCHANGED knocks
  BY DEF AgentAnswers
<1> HIDE DEF u
<1>6. /\ InFlight' \subseteq InFlight \cup {u}
      /\ (InFlight \ {t}) \cup {u} \subseteq InFlight'
      /\ tasks[t] = 1 => t \notin InFlight'
      /\ \A v \in InFlight : v # t /\ v # u => tasks'[v] = tasks[v]
      /\ u \notin InFlight => tasks'[u] = 1
  BY <1>0, <1>3, <1>4, Went
<1>7. TaskInv(u)'
  <2>1. CASE t.loop \in {"open", "narrow", "reopen"}
    <3>1. Alone(t)
      BY <1>2, <2>1 DEF TaskInv
    <3>2. u \notin InFlight /\ tasks'[u] = 1
      BY <1>4, <1>6, <3>1 DEF Alone
    <3>3. \A v \in InFlight' : v.tx = u.tx => v = u
      BY <1>4, <1>6, <3>1 DEF Alone
    <3>4. Alone(u)'
      BY <3>2, <3>3 DEF Alone
    <3> QED
      BY <1>2, <1>4, <1>5, <2>1, <3>4 DEF TaskInv
  <2>2. CASE t.loop \in {"close", "shutdown"}
    BY <1>2, <1>4, <1>5, <2>2 DEF TaskInv
  <2> QED
    BY <1>0, <1>2, <2>1, <2>2, LoneOrCloser
<1>8. ASSUME NEW v \in InFlight', v # u PROVE TaskInv(v)'
  <2>1. v \in InFlight /\ TaskInv(v)
    BY <1>0, <1>6, <1>8
  <2>2. ASSUME v.loop \in {"open", "narrow", "reopen"}, Alone(v) PROVE TaskInv(v)'
    <3>1. v # t
      BY <1>6, <2>2 DEF Alone
    <3>2. v.tx # t.tx
      BY <2>2, <3>1 DEF Alone
    <3>3. tasks'[v] = tasks[v] /\ \A w \in InFlight' : w.tx = v.tx => w \in InFlight
      BY <1>4, <1>6, <1>8, <2>1, <3>1, <3>2
    <3> QED
      BY <1>5, <2>1, <3>3, TaskKept
  <2>3. ASSUME v.loop \in {"close", "shutdown"} PROVE TaskInv(v)'
    BY <1>5, <2>1, <2>3 DEF TaskInv
  <2> QED
    BY <1>0, <2>1, <2>2, <2>3, LoneOrCloser
<1>9. ASSUME NEW rule \in rules, rule \in rules', NEW k \in DOMAIN knocks, OwnedByKnock(k, rule)
      PROVE  OwnedByKnock(k, rule)'
  <2>1. Current(knocks'[k]) = rule[2]
    BY <1>5, <1>9 DEF OwnedByKnock
  <2>2. \A v \in InFlight : ~TakesFrom(v, k, rule[1])
    BY <1>9 DEF OwnedByKnock
  <2>3. ~TakesFrom(u, k, rule[1])
    <3> SUFFICES ASSUME TakesFrom(u, k, rule[1]) PROVE FALSE
      OBVIOUS
    <3>1. /\ u.tx = k /\ t.tx = k
          /\ t.loop \in {"narrow", "close", "shutdown"}
          /\ rule[1] \in t.left /\ rule[1] \notin u.left
      BY <1>4, <2>2 DEF TakesFrom
    <3>2. rule[1] = port
      BY <1>4, <3>1
    <3>3. Current(knocks[k]) = t.source
      BY <1>2, <3>1 DEF TaskInv, Current
    <3>4. rule = <<port, t.source>>
      BY <1>0, <1>9, <3>2, <3>3, RuleIsPair DEF OwnedByKnock
    <3>5. rules' = rules \ {<<port, t.source>>}
      BY <1>1, <3>1 DEF RulesAfter, Opens, Rule
    <3> QED
      BY <1>9, <3>4, <3>5
  <2>4. \A v \in InFlight' : ~TakesFrom(v, k, rule[1])
    BY <1>6, <2>2, <2>3
  <2> QED
    BY <2>1, <2>4 DEF OwnedByKnock, TakesFrom
<1>10. ASSUME NEW rule, NEW v \in InFlight, OwnedByTask(v, rule)
       PROVE  \E w \in InFlight' : OwnedByTask(w, rule)
  <2>1. CASE v = t
    BY <1>4, <1>6, <1>10, <2>1 DEF OwnedByTask
  <2>2. CASE v # t
    BY <1>6, <1>10, <2>2
  <2> QED
    BY <2>1, <2>2
<1>11. ASSUME NEW rule \in rules' PROVE Owned(rule)'
  <2>1. ASSUME rule \notin rules PROVE OwnedByTask(u, rule)
    <3>1. Opens(t) /\ rule = Rule(t, port)
      BY <1>1, <1>11, <2>1 DEF RulesAfter
    <3> QED
      BY <1>4, <3>1 DEF Opens, Rule, OwnedByTask
  <2>2. CASE rule \notin rules
    BY <1>6, <2>1, <2>2 DEF Owned, OwnedByTask
  <2>3. CASE rule \in rules
    <3>1. \/ \E k \in DOMAIN knocks : OwnedByKnock(k, rule)
          \/ \E v \in InFlight : OwnedByTask(v, rule)
      BY <2>3 DEF OwnersHold, Owned
    <3>2. ASSUME NEW k \in DOMAIN knocks, OwnedByKnock(k, rule) PROVE Owned(rule)'
      <4>1. OwnedByKnock(k, rule)' /\ k \in DOMAIN knocks'
        BY <1>5, <1>9, <1>11, <2>3, <3>2
      <4> QED
        BY <4>1 DEF Owned
    <3>3. ASSUME NEW v \in InFlight, OwnedByTask(v, rule) PROVE Owned(rule)'
      BY <1>10, <3>3 DEF Owned, OwnedByTask
    <3> QED
      BY <3>1, <3>2, <3>3
  <2> QED
    BY <2>2, <2>3
<1> QED
  BY <1>7, <1>8, <1>11 DEF OwnersHold

\* What is owned stays owned by knocks that keep their rules.
LEMMA OwnerKept ==
  ASSUME NEW rule, NEW k \in DOMAIN knocks, OwnedByKnock(k, rule),
         k \in DOMAIN knocks', Current(knocks'[k]) = Current(knocks[k]),
         \A v \in InFlight' : v \in InFlight \/ ~TakesFrom(v, k, rule[1])
  PROVE  Owned(rule)'
<1>1. OwnedByKnock(k, rule)'
  BY DEF OwnedByKnock, TakesFrom
<1> QED
  BY <1>1 DEF Owned

LEMMA TaskOwnerKept ==
  ASSUME NEW rule, NEW v \in InFlight', OwnedByTask(v, rule)
  PROVE  Owned(rule)'
BY DEF Owned, OwnedByTask

\* A lone function that ends: the others belong to other knocks.
LEMMA LoneEnds ==
  ASSUME KnocksInv, OwnersHold, NEW t \in InFlight, Alone(t), tasks' = Replace(t, {})
  PROVE  /\ InFlight' = InFlight \ {t}
         /\ \A v \in InFlight' : v.tx # t.tx /\ tasks'[v] = tasks[v] /\ TaskInv(v)
<1>1. /\ InFlight' \subseteq InFlight \cup {}
      /\ (InFlight \ {t}) \cup {} \subseteq InFlight'
      /\ tasks[t] = 1 /\ t \notin {} => t \notin InFlight'
      /\ \A u \in InFlight : u # t /\ u \notin {} => tasks'[u] = tasks[u]
  BY Went DEF KnocksInv
<1>2. tasks[t] = 1 /\ \A u \in InFlight : u.tx = t.tx => u = t
  BY DEF Alone
<1>3. InFlight' = InFlight \ {t} /\ \A v \in InFlight' : v.tx # t.tx /\ tasks'[v] = tasks[v]
  BY <1>1, <1>2
<1>4. \A v \in InFlight : TaskInv(v)
  BY DEF OwnersHold
<1> QED
  BY <1>3, <1>4

\* The ports are open: the knock takes its rules over.
LEMMA OwnersTracked ==
  ASSUME KnocksInv, OwnersHold, NEW t \in InFlight, TrackKnock(t)
  PROVE  OwnersHold'
<1>0. TaskInv(t) /\ t.loop = "open" /\ tasks' = Replace(t, {}) /\ UNCHANGED rules
  BY DEF OwnersHold, TrackKnock
<1>1. Alone(t) /\ t.tx \notin DOMAIN knocks
  BY <1>0 DEF TaskInv
<1>2. /\ InFlight' = InFlight \ {t}
      /\ \A v \in InFlight' : v.tx # t.tx /\ tasks'[v] = tasks[v] /\ TaskInv(v)
  BY <1>0, <1>1, LoneEnds
<1>3. /\ DOMAIN knocks' = DOMAIN knocks \cup {t.tx}
      /\ \A k \in DOMAIN knocks : k # t.tx => knocks'[k] = knocks[k]
      /\ knocks'[t.tx].source = t.source /\ knocks'[t.tx].loginSource = None
  <2>1. PICK tailing \in BOOLEAN :
          knocks' = [k \in DOMAIN knocks \cup {t.tx} |->
            IF k # t.tx THEN knocks[k]
            ELSE [source |-> t.source, loginSource |-> None,
                  timer |-> TRUE, polling |-> TRUE, tailing |-> tailing]]
    BY DEF TrackKnock
  <2> QED
    BY <2>1
<1>4. ASSUME NEW v \in InFlight' PROVE TaskInv(v)'
  BY <1>2, <1>3, TaskKept
<1>5. ASSUME NEW rule \in rules PROVE Owned(rule)'
  <2>1. \/ \E k \in DOMAIN knocks : OwnedByKnock(k, rule)
        \/ \E v \in InFlight : OwnedByTask(v, rule)
    BY DEF OwnersHold, Owned
  <2>2. ASSUME NEW k \in DOMAIN knocks, OwnedByKnock(k, rule) PROVE Owned(rule)'
    BY <1>1, <1>2, <1>3, <2>2, OwnerKept
  <2>3. ASSUME OwnedByTask(t, rule) PROVE Owned(rule)'
    <3>1. Current(knocks'[t.tx]) = rule[2]
      BY <1>0, <1>3, <2>3 DEF Current, OwnedByTask
    <3>2. OwnedByKnock(t.tx, rule)'
      BY <1>2, <3>1 DEF OwnedByKnock, TakesFrom
    <3> QED
      BY <1>3, <3>2 DEF Owned
  <2>4. ASSUME NEW v \in InFlight, OwnedByTask(v, rule), v # t PROVE Owned(rule)'
    BY <1>2, <2>4, TaskOwnerKept
  <2> QED
    BY <2>1, <2>2, <2>3, <2>4
<1> QED
  BY <1>0, <1>4, <1>5 DEF OwnersHold

\* The old rules are gone: the second loop starts.
LEMMA OwnersReopening ==
  ASSUME KnocksInv, OwnersHold, NEW t \in InFlight, ReopenPorts(t)
  PROVE  OwnersHold'
<1> DEFINE u == Loop("reopen", t.tx, t.source, t.ip)
<1>0. /\ TaskInv(t) /\ t.loop = "narrow" /\ t.left = {} /\ tasks' = Replace(t, {u})
      /\ UNCHANGED <<rules, knocks>>
  BY DEF OwnersHold, ReopenPorts
<1>1. Alone(t) /\ \A v \in InFlight : v.tx = t.tx => v = t
  BY <1>0 DEF TaskInv, Alone
<1>2. u.loop = "reopen" /\ u.tx = t.tx /\ u.source = t.source /\ u.ip = t.ip
  BY DEF Loop
<1> HIDE DEF u
<1>3. u # t /\ u \notin InFlight
  BY <1>0, <1>1, <1>2
<1>4. /\ InFlight' \subseteq InFlight \cup {u}
      /\ (InFlight \ {t}) \cup {u} \subseteq InFlight'
      /\ tasks[t] = 1 => t \notin InFlight'
      /\ \A v \in InFlight : v # t /\ v # u => tasks'[v] = tasks[v]
      /\ u \notin InFlight => tasks'[u] = 1
  BY <1>0, <1>3, Went DEF KnocksInv
<1>5. InFlight' = (InFlight \ {t}) \cup {u} /\ tasks'[u] = 1
  BY <1>1, <1>3, <1>4 DEF Alone
<1>6. TaskInv(u)'
  <2>1. Alone(u)'
    BY <1>1, <1>2, <1>5 DEF Alone
  <2> QED
    BY <1>0, <1>2, <2>1 DEF TaskInv
<1>7. ASSUME NEW v \in InFlight', v # u PROVE TaskInv(v)'
  <2>1. v \in InFlight /\ v # t /\ TaskInv(v)
    BY <1>5, <1>7 DEF OwnersHold
  <2>2. v.tx # t.tx
    BY <1>1, <2>1
  <2>3. tasks'[v] = tasks[v] /\ \A w \in InFlight' : w.tx = v.tx => w \in InFlight
    BY <1>2, <1>4, <1>5, <1>7, <2>1, <2>2
  <2> QED
    BY <1>0, <2>1, <2>3, TaskKept
<1>8. ASSUME NEW rule \in rules PROVE Owned(rule)'
  <2>1. \/ \E k \in DOMAIN knocks : OwnedByKnock(k, rule)
        \/ \E v \in InFlight : OwnedByTask(v, rule)
    BY DEF OwnersHold, Owned
  <2>2. ASSUME NEW k \in DOMAIN knocks, OwnedByKnock(k, rule) PROVE Owned(rule)'
    <3>1. k # t.tx
      BY <1>0, <2>2 DEF OwnedByKnock, TakesFrom
    <3>2. ~TakesFrom(u, k, rule[1])
      BY <1>2, <3>1 DEF TakesFrom
    <3> QED
      BY <1>0, <1>5, <2>2, <3>2, OwnerKept
  <2>3. ASSUME NEW v \in InFlight, OwnedByTask(v, rule) PROVE Owned(rule)'
    <3>1. v # t
      BY <1>0, <2>3 DEF OwnedByTask
    <3> QED
      BY <1>5, <2>3, <3>1, TaskOwnerKept
  <2> QED
    BY <2>1, <2>2, <2>3
<1> QED
  BY <1>0, <1>6, <1>7, <1>8 DEF OwnersHold

\* The ports are open for the login: the knock takes those rules over.
LEMMA OwnersRecorded ==
  ASSUME KnocksInv, OwnersHold, NEW t \in InFlight, RecordLogin(t)
  PROVE  OwnersHold'
<1>0. TaskInv(t) /\ t.loop = "reopen" /\ tasks' = Replace(t, {}) /\ UNCHANGED rules
  BY DEF OwnersHold, RecordLogin
<1>1. Alone(t) /\ t.tx \in DOMAIN knocks
  BY <1>0 DEF TaskInv
<1>2. /\ InFlight' = InFlight \ {t}
      /\ \A v \in InFlight' : v.tx # t.tx /\ tasks'[v] = tasks[v] /\ TaskInv(v)
  BY <1>0, <1>1, LoneEnds
<1>3. /\ DOMAIN knocks' = DOMAIN knocks
      /\ \A k \in DOMAIN knocks : k # t.tx => knocks'[k] = knocks[k]
      /\ knocks'[t.tx].loginSource = t.ip
  BY <1>1, LoginRecorded
<1>4. ASSUME NEW v \in InFlight' PROVE TaskInv(v)'
  BY <1>2, <1>3, TaskKept
<1>5. t.ip # None
  BY <1>0, KnockAssumption DEF KnocksInv, SentInv, Proper
<1>6. ASSUME NEW rule \in rules PROVE Owned(rule)'
  <2>1. \/ \E k \in DOMAIN knocks : OwnedByKnock(k, rule)
        \/ \E v \in InFlight : OwnedByTask(v, rule)
    BY DEF OwnersHold, Owned
  <2>2. ASSUME NEW k \in DOMAIN knocks, OwnedByKnock(k, rule) PROVE Owned(rule)'
    <3>1. k # t.tx
      BY <1>0, <2>2 DEF OwnedByKnock, TakesFrom
    <3> QED
      BY <1>2, <1>3, <2>2, <3>1, OwnerKept
  <2>3. ASSUME OwnedByTask(t, rule) PROVE Owned(rule)'
    <3>1. Current(knocks'[t.tx]) = rule[2]
      BY <1>0, <1>3, <1>5, <2>3 DEF Current, OwnedByTask
    <3>2. OwnedByKnock(t.tx, rule)'
      BY <1>2, <3>1 DEF OwnedByKnock, TakesFrom
    <3> QED
      BY <1>1, <1>3, <3>2 DEF Owned
  <2>4. ASSUME NEW v \in InFlight, OwnedByTask(v, rule), v # t PROVE Owned(rule)'
    BY <1>2, <2>4, TaskOwnerKept
  <2> QED
    BY <2>1, <2>2, <2>3, <2>4
<1> QED
  BY <1>0, <1>4, <1>6 DEF OwnersHold

\* A knock is deleted once all its rules are closed.
LEMMA OwnersClosed ==
  ASSUME KnocksInv, OwnersHold, NEW t \in InFlight, CloseEnds(t)
  PROVE  OwnersHold'
<1>0. /\ t.loop \in {"close", "shutdown"} /\ t.left = {} /\ tasks' = Replace(t, {})
      /\ UNCHANGED rules
      /\ DOMAIN knocks' = DOMAIN knocks \ {t.tx}
      /\ \A k \in DOMAIN knocks' : knocks'[k] = knocks[k]
  BY DEF CloseEnds
<1>1. /\ InFlight' \subseteq InFlight /\ InFlight \ {t} \subseteq InFlight'
      /\ \A v \in InFlight : v # t => tasks'[v] = tasks[v]
  BY <1>0, Went DEF KnocksInv
<1>2. ASSUME NEW v \in InFlight' PROVE TaskInv(v)'
  <2>1. v \in InFlight /\ TaskInv(v)
    BY <1>1, <1>2 DEF OwnersHold
  <2>2. ASSUME v.loop \in {"open", "narrow", "reopen"}, Alone(v) PROVE TaskInv(v)'
    <3>1. v # t
      BY <1>0, <2>2
    <3>2. v.tx # t.tx
      BY <2>2, <3>1 DEF Alone
    <3>3. /\ v.tx \in DOMAIN knocks' <=> v.tx \in DOMAIN knocks
          /\ v.tx \in DOMAIN knocks => knocks'[v.tx] = knocks[v.tx]
      BY <1>0, <3>2
    <3>4. tasks'[v] = tasks[v] /\ \A w \in InFlight' : w.tx = v.tx => w \in InFlight
      BY <1>1, <2>1, <3>1
    <3> QED
      BY <2>1, <3>3, <3>4, TaskKept
  <2>3. ASSUME v.loop \in {"close", "shutdown"} PROVE TaskInv(v)'
    <3>1. v.tx \in DOMAIN knocks' => v.tx \in DOMAIN knocks /\ knocks'[v.tx] = knocks[v.tx]
      BY <1>0
    <3> QED
      BY <2>1, <2>3, <3>1 DEF TaskInv, Current
  <2> QED
    BY <2>1, <2>2, <2>3, LoneOrCloser DEF KnocksInv
<1>3. ASSUME NEW rule \in rules PROVE Owned(rule)'
  <2>1. \/ \E k \in DOMAIN knocks : OwnedByKnock(k, rule)
        \/ \E v \in InFlight : OwnedByTask(v, rule)
    BY DEF OwnersHold, Owned
  <2>2. ASSUME NEW k \in DOMAIN knocks, OwnedByKnock(k, rule) PROVE Owned(rule)'
    <3>1. k # t.tx
      BY <1>0, <2>2 DEF OwnedByKnock, TakesFrom
    <3>2. k \in DOMAIN knocks' /\ knocks'[k] = knocks[k]
      BY <1>0, <3>1
    <3> QED
      BY <1>1, <2>2, <3>2, OwnerKept
  <2>3. ASSUME NEW v \in InFlight, OwnedByTask(v, rule) PROVE Owned(rule)'
    <3>1. v \in InFlight'
      BY <1>0, <1>1, <2>3 DEF OwnedByTask
    <3> QED
      BY <2>3, <3>1, TaskOwnerKept
  <2> QED
    BY <2>1, <2>2, <2>3
<1> QED
  BY <1>0, <1>2, <1>3 DEF OwnersHold

\* A function begins that has not taken any port yet.
LEMMA OwnersOfMore ==
  ASSUME KnocksInv, OwnersHold, NEW t, tasks' = Add(t), UNCHANGED rules,
         t.loop \in {"open", "narrow", "close", "shutdown"}, t.left = Ports,
         DOMAIN knocks' = DOMAIN knocks,
         \A k \in DOMAIN knocks : Current(knocks'[k]) = Current(knocks[k]),
         NEW rule \in rules
  PROVE  Owned(rule)'
<1>1. InFlight' = InFlight \cup {t}
  BY Began DEF KnocksInv
<1>2. \A k : ~TakesFrom(t, k, rule[1])
  BY RuleIsPair DEF KnocksInv, TakesFrom
<1>3. \/ \E k \in DOMAIN knocks : OwnedByKnock(k, rule)
      \/ \E v \in InFlight : OwnedByTask(v, rule)
  BY DEF OwnersHold, Owned
<1>4. ASSUME NEW k \in DOMAIN knocks, OwnedByKnock(k, rule) PROVE Owned(rule)'
  BY <1>1, <1>2, <1>4, OwnerKept
<1>5. ASSUME NEW v \in InFlight, OwnedByTask(v, rule) PROVE Owned(rule)'
  BY <1>1, <1>5, TaskOwnerKept
<1> QED
  BY <1>3, <1>4, <1>5

\* A function begins that is the only one of its knock.
LEMMA LoneBegins ==
  ASSUME KnocksInv, OwnersHold, NEW t, tasks' = Add(t), UNCHANGED knocks,
         \A v \in InFlight : v.tx # t.tx
  PROVE  Alone(t)' /\ \A v \in InFlight : TaskInv(v)'
<1>1. /\ InFlight' = InFlight \cup {t}
      /\ \A v \in InFlight : v # t => tasks'[v] = tasks[v]
      /\ t \notin InFlight => tasks'[t] = 1
  BY Began DEF KnocksInv
<1>2. Alone(t)'
  BY <1>1 DEF Alone
<1>3. ASSUME NEW v \in InFlight PROVE TaskInv(v)'
  <2>1. TaskInv(v) /\ v.tx # t.tx
    BY DEF OwnersHold
  <2>2. tasks'[v] = tasks[v] /\ \A w \in InFlight' : w.tx = v.tx => w \in InFlight
    BY <1>1, <2>1
  <2> QED
    BY <2>1, <2>2, TaskKept
<1> QED
  BY <1>2, <1>3

LEMMA OwnersExecuted ==
  ASSUME KnocksInv, OwnersHold, NEW k \in Knocks, NEW source \in Sources,
         ExecuteKnock(k, source)
  PROVE  OwnersHold'
<1> DEFINE t == Loop("open", k, source, None)
<1>0. tasks' = Add(t) /\ k \notin sent /\ UNCHANGED <<knocks, rules>>
  BY DEF ExecuteKnock
<1>1. t.loop = "open" /\ t.tx = k /\ t.source = source /\ t.left = Ports
  BY DEF Loop
<1> HIDE DEF t
<1>2. k \notin DOMAIN knocks /\ \A v \in InFlight : v.tx # k
  BY <1>0 DEF KnocksInv, KnockTypeOK, SentInv
<1>3. Alone(t)' /\ \A v \in InFlight : TaskInv(v)'
  BY <1>0, <1>1, <1>2, LoneBegins
<1>4. TaskInv(t)'
  BY <1>0, <1>1, <1>2, <1>3 DEF TaskInv
<1>5. InFlight' = InFlight \cup {t}
  BY <1>0, Began DEF KnocksInv
<1>6. \A rule \in rules : Owned(rule)'
  BY <1>0, <1>1, OwnersOfMore
<1> QED
  BY <1>0, <1>3, <1>4, <1>5, <1>6 DEF OwnersHold

\* Polling or watching the log, a knock is not being closed.
LEMMA OwnersTransition ==
  ASSUME KnocksInv, OwnersHold, NEW k \in DOMAIN knocks, NEW ip \in Ips,
         Transition(k, ip), UNCHANGED <<knocks, rules>>, raced' = {},
         knocks[k].polling \/ knocks[k].tailing
  PROVE  OwnersHold'
<1>1. CASE UNCHANGED tasks
  BY <1>1 DEF OwnersHold, TaskInv, Alone, Owned, OwnedByKnock, OwnedByTask, TakesFrom,
              Current, InFlight
<1>2. ASSUME NEW t \in Task, knocks[k].loginSource = None,
             t.loop = "narrow", t.tx = k, t.left = Ports,
             t.source = knocks[k].source, t.ip = ip, tasks' = Add(t)
      PROVE  OwnersHold'
  <2>1. \A v \in InFlight : v.tx # k
    <3> SUFFICES ASSUME NEW v \in InFlight, v.tx = k PROVE FALSE
      OBVIOUS
    <3>1. TaskInv(v)
      BY DEF OwnersHold
    <3>2. v.loop \notin {"narrow", "reopen"}
      BY <1>2 DEF Transition, Transitioning
    <3>3. CASE v.loop = "open"
      BY <3>1, <3>3 DEF TaskInv
    <3>4. CASE v.loop \in {"close", "shutdown"}
      BY <3>1, <3>4 DEF TaskInv
    <3> QED
      BY <3>1, <3>2, <3>3, <3>4, LoneOrCloser DEF KnocksInv
  <2>2. Alone(t)' /\ \A v \in InFlight : TaskInv(v)'
    BY <1>2, <2>1, LoneBegins
  <2>3. TaskInv(t)'
    BY <1>2, <2>2 DEF TaskInv
  <2>4. InFlight' = InFlight \cup {t}
    BY <1>2, Began DEF KnocksInv
  <2>5. \A rule \in rules : Owned(rule)'
    BY <1>2, OwnersOfMore
  <2> QED
    BY <2>2, <2>3, <2>4, <2>5 DEF OwnersHold
<1> QED
  BY <1>1, <1>2, TransitionBegins DEF KnocksInv

\* closeKnock starts on a knock that nothing else is opening or narrowing.
LEMMA OwnersClosing ==
  ASSUME KnocksInv, OwnersHold, NEW k \in DOMAIN knocks, NEW caller \in {"close", "shutdown"},
         Close(k, caller), UNCHANGED rules, raced' = {}
  PROVE  OwnersHold'
<1>1. /\ DOMAIN knocks' = DOMAIN knocks
      /\ \A j \in DOMAIN knocks : j # k => knocks'[j] = knocks[j]
      /\ Current(knocks'[k]) = Current(knocks[k])
      /\ ~knocks'[k].polling /\ ~knocks'[k].tailing
  BY CloseBegins DEF KnocksInv, Current
<1>2. PICK t \in Task : /\ t.loop = caller /\ t.tx = k /\ t.left = Ports
                        /\ t.source = Current(knocks[k])
                        /\ tasks' = Add(t)
  BY CloseBegins DEF KnocksInv
<1>3. /\ InFlight' = InFlight \cup {t}
      /\ \A v \in InFlight : v # t => tasks'[v] = tasks[v]
  BY <1>2, Began DEF KnocksInv
<1>4. TaskInv(t)'
  BY <1>1, <1>2 DEF TaskInv
<1>5. ASSUME NEW v \in InFlight PROVE TaskInv(v)'
  <2>1. TaskInv(v)
    BY DEF OwnersHold
  <2>2. ASSUME v.loop \in {"open", "narrow", "reopen"} PROVE TaskInv(v)'
    <3>1. v.loop \in {"narrow", "reopen"} => v.tx # k
      BY DEF Close, Transitioning
    <3>2. v.tx # k
      BY <2>1, <2>2, <3>1 DEF TaskInv
    <3>3. tasks'[v] = tasks[v] /\ \A w \in InFlight' : w.tx = v.tx => w \in InFlight
      BY <1>2, <1>3, <2>2, <3>2
    <3> QED
      BY <1>1, <2>1, <3>2, <3>3, TaskKept
  <2>3. ASSUME v.loop \in {"close", "shutdown"} PROVE TaskInv(v)'
    <3>1. v.tx \in DOMAIN knocks => TaskInv(v) /\ ~knocks'[v.tx].polling /\ ~knocks'[v.tx].tailing
      BY <1>1, <2>1, <2>3 DEF TaskInv
    <3> QED
      BY <1>1, <2>1, <2>3, <3>1, CloserKept
  <2> QED
    BY <2>1, <2>2, <2>3, LoneOrCloser DEF KnocksInv
<1>6. \A rule \in rules : Owned(rule)'
  BY <1>1, <1>2, OwnersOfMore
<1> QED
  BY <1>3, <1>4, <1>5, <1>6 DEF OwnersHold

-----------------------------------------------------------------------------
LEMMA OwnersInit == KnockInit => OwnersInv
<1> SUFFICES ASSUME KnockInit PROVE OwnersInv
  OBVIOUS
<1>1. InFlight = {} /\ rules = {}
  BY DEF KnockInit, EmptyBag, SetToBag, InFlight, BagToSet
<1> QED
  BY <1>1 DEF OwnersInv, OwnersHold

LEMMA Ranges == KnockTypeOK => failures \in Nat /\ restarts \in Nat
<1>1. MaxFailures \in Nat /\ MaxRestarts \in Nat
  BY KnockAssumption
<1> QED
  BY <1>1 DEF KnockTypeOK

\* Nothing undoes a failure, a restart or a race.
LEMMA CleanBefore ==
  ASSUME KnocksInv, [KnockNext]_knockVars, Clean'
  PROVE  /\ Clean
         /\ \A t \in InFlight : ~AgentFails(t) /\ ~AgentHangsUp(t)
         /\ ~Restart
<1>1. failures \in Nat /\ restarts \in Nat
  BY Ranges DEF KnocksInv
<1>2. \A t \in InFlight : ~AgentFails(t) /\ ~AgentHangsUp(t)
  BY <1>1 DEF AgentFails, AgentHangsUp, Clean
<1>3. ~Restart
  BY <1>1 DEF Restart, Clean
<1>4. ASSUME NEW k \in Knocks PROVE
      /\ TimeoutFires(k) \/ HeartbeatClose(k) \/ ShutdownClose(k) => Clean
      /\ HeartbeatTransition(k) => Clean
      /\ \A ip \in Ips : LoginDetected(k, ip) => Clean
      /\ \A source \in Sources : ExecuteKnock(k, source) => Clean
  <2>1. \A caller : Close(k, caller) => raced \subseteq raced'
    BY DEF Close
  <2>2. \A ip : Transition(k, ip) => raced \subseteq raced'
    BY DEF Transition
  <2>3. TimeoutFires(k) \/ HeartbeatClose(k) \/ ShutdownClose(k) => Clean
    BY <2>1 DEF TimeoutFires, HeartbeatClose, ShutdownClose, Clean
  <2>4. HeartbeatTransition(k) => Clean
    BY <2>2 DEF HeartbeatTransition, Clean
  <2>5. \A ip \in Ips : LoginDetected(k, ip) => Clean
    BY <2>2 DEF LoginDetected, Clean
  <2>6. \A source \in Sources : ExecuteKnock(k, source) => Clean
    BY DEF ExecuteKnock, Clean
  <2> QED
    BY <2>3, <2>4, <2>5, <2>6
<1>5. ASSUME NEW t \in InFlight, Return(t) PROVE Clean
  BY <1>5 DEF Return, AgentAnswers, TrackKnock, UndoEnds, ReopenPorts, RecordLogin, CloseEnds, Clean
<1>6. \A ip \in Ips : SessionWrites(ip) => Clean
  BY DEF SessionWrites, Clean
<1>7. SessionFallsSilent \/ SessionEnds \/ Shutdown \/ UNCHANGED knockVars => Clean
  BY DEF SessionFallsSilent, SessionEnds, Shutdown, knockVars, Clean
<1> QED
  BY <1>2, <1>3, <1>4, <1>5, <1>6, <1>7 DEF KnockNext

LEMMA OwnersStep == KnocksInv /\ OwnersInv /\ [KnockNext]_knockVars => OwnersInv'
<1> SUFFICES ASSUME KnocksInv, OwnersInv, [KnockNext]_knockVars, Clean'
             PROVE  OwnersHold'
  BY DEF OwnersInv
<1>1. Clean /\ ~Restart /\ \A t \in InFlight : ~AgentFails(t) /\ ~AgentHangsUp(t)
  BY CleanBefore
<1>2. OwnersHold
  BY <1>1 DEF OwnersInv
<1>3. raced' = {}
  BY DEF Clean
<1>4. ASSUME NEW t \in InFlight, Return(t) PROVE OwnersHold'
  <2>1. ~UndoEnds(t)
    BY <1>2 DEF OwnersHold, TaskInv, UndoEnds
  <2> QED
    BY <1>2, <1>4, <2>1, OwnersAnswered, OwnersTracked, OwnersReopening, OwnersRecorded,
       OwnersClosed DEF Return
<1>5. ASSUME NEW k \in Knocks, NEW source \in Sources, ExecuteKnock(k, source)
      PROVE  OwnersHold'
  BY <1>2, <1>5, OwnersExecuted
<1>6. ASSUME NEW k \in Knocks, TimeoutFires(k) \/ HeartbeatClose(k) PROVE OwnersHold'
  BY <1>2, <1>3, <1>6, OwnersClosing DEF TimeoutFires, HeartbeatClose
<1>7. ASSUME NEW k \in Knocks, ShutdownClose(k) PROVE OwnersHold'
  BY <1>2, <1>3, <1>7, OwnersClosing DEF ShutdownClose
<1>8. ASSUME NEW k \in Knocks, HeartbeatTransition(k) PROVE OwnersHold'
  <2>1. file.ip \in Ips
    BY <1>8 DEF KnocksInv, KnockTypeOK, HeartbeatTransition, ActiveFile
  <2> QED
    BY <1>2, <1>3, <1>8, <2>1, OwnersTransition DEF HeartbeatTransition
<1>9. ASSUME NEW k \in Knocks, NEW ip \in Ips, LoginDetected(k, ip) PROVE OwnersHold'
  BY <1>2, <1>3, <1>9, OwnersTransition DEF LoginDetected
<1>10. ASSUME UNCHANGED <<knocks, tasks, rules>> PROVE OwnersHold'
  BY <1>2, <1>10 DEF OwnersHold, TaskInv, Alone, Owned, OwnedByKnock, OwnedByTask,
                     TakesFrom, Current, InFlight
<1>11. ASSUME \/ \E ip \in Ips : SessionWrites(ip)
              \/ SessionFallsSilent \/ SessionEnds \/ Shutdown \/ UNCHANGED knockVars
       PROVE  UNCHANGED <<knocks, tasks, rules>>
  BY <1>11 DEF SessionWrites, SessionFallsSilent, SessionEnds, Shutdown, knockVars
<1> QED
  BY <1>1, <1>4, <1>5, <1>6, <1>7, <1>8, <1>9, <1>10, <1>11 DEF KnockNext

\* Every rule that is open has somebody to close it, and none of the first
\* phase is left after the login.
LEMMA OwnersImply ==
  KnocksInv /\ OwnersInv => RulesAccountedFor /\ NarrowedAfterLogin
<1> SUFFICES ASSUME KnocksInv, OwnersInv PROVE RulesAccountedFor /\ NarrowedAfterLogin
  OBVIOUS
<1>1. CASE ~Clean
  <2>1. failures \in Nat /\ restarts \in Nat
    BY Ranges DEF KnocksInv
  <2>2. failures > 0 \/ restarts > 0 \/ raced # {}
    BY <1>1, <2>1 DEF Clean
  <2> QED
    BY <2>2 DEF RulesAccountedFor, NarrowedAfterLogin
<1>2. CASE Clean
  <2>1. ASSUME NEW rule \in rules
        PROVE  \/ \E k \in DOMAIN knocks : Current(knocks[k]) = rule[2]
               \/ \E t \in InFlight : OwnedByTask(t, rule)
    BY <1>2 DEF OwnersInv, OwnersHold, Owned, OwnedByKnock
  <2>2. ASSUME NEW rule \in rules PROVE AccountedFor(rule)
    BY <2>1 DEF AccountedFor, Current, OwnedByTask
  <2>3. ASSUME NEW k \in DOMAIN knocks,
               knocks[k].loginSource \notin {None, knocks[k].source},
               NEW port \in Ports, <<port, knocks[k].source>> \in rules
        PROVE  \/ \E other \in DOMAIN knocks \ {k} :
                    knocks[k].source \in {knocks[other].source, knocks[other].loginSource}
               \/ \E t \in InFlight : t.tx # k /\ knocks[k].source \in {t.source, t.ip}
    <3>1. \/ \E j \in DOMAIN knocks : Current(knocks[j]) = knocks[k].source
          \/ \E t \in InFlight : OwnedByTask(t, <<port, knocks[k].source>>)
      BY <2>1, <2>3
    <3>2. ASSUME NEW j \in DOMAIN knocks, Current(knocks[j]) = knocks[k].source
          PROVE  j # k /\ knocks[k].source \in {knocks[j].source, knocks[j].loginSource}
      BY <2>3, <3>2 DEF Current
    <3>3. ASSUME NEW t \in InFlight, OwnedByTask(t, <<port, knocks[k].source>>)
          PROVE  t.tx # k /\ knocks[k].source \in {t.source, t.ip}
      <4>1. TaskInv(t)
        BY <1>2 DEF OwnersInv, OwnersHold
      <4> QED
        BY <2>3, <3>3, <4>1 DEF TaskInv, OwnedByTask
    <3> QED
      BY <3>1, <3>2, <3>3
  <2> QED
    BY <2>2, <2>3 DEF RulesAccountedFor, NarrowedAfterLogin
<1> QED
  BY <1>1, <1>2

\* The map, the functions under way, the rules and the active file keep
\* their kinds, and only knocks of commands that were sent are tracked.
THEOREM KnockTypeCorrect == KnockSpec => []KnockTypeOK
<1>1. KnocksInv => KnockTypeOK
  BY DEF KnocksInv
<1> QED
  BY <1>1, KnocksInit, KnocksStep, PTL DEF KnockSpec

\* Every rule has an owner until a call fails, the monitor restarts or a
\* knock is closed or narrowed during a transition.
THEOREM OwnersAlways == KnockSpec => [](KnocksInv /\ OwnersInv)
BY KnocksInit, OwnersInit, KnocksStep, OwnersStep, PTL DEF KnockSpec

\* No rule of the root agent is forgotten, however calls, logins, timeouts
\* and closes of different knocks interleave.
THEOREM RulesAccountedForAlways == KnockSpec => []RulesAccountedFor
<1>1. KnocksInv /\ OwnersInv => RulesAccountedFor
  BY OwnersImply
<1> QED
  BY <1>1, OwnersAlways, PTL

\* After a login the first rules of a knock are gone, unless another knock
\* has them, too, as its filter or as the address of its login.
THEOREM NarrowedAfterLoginAlways == KnockSpec => []NarrowedAfterLogin
<1>1. KnocksInv /\ OwnersInv => NarrowedAfterLogin
  BY OwnersImply
<1> QED
  BY <1>1, OwnersAlways, PTL

=============================================================================
