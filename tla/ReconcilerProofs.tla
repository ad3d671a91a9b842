-------------------------- MODULE ReconcilerProofs --------------------------
(***************************************************************************)
(* That gecos_synced can be trusted, for any number of VMs and wallets and *)
(* any number of transfers, failures and crashes.                          *)
(***************************************************************************)
EXTENDS Reconciler, TLAPS

HandlerSteps == {"mint", "firstPush", "firstNet", "firstGecos", "mark"}
OwnerSteps == {"owner", "gecos", "synced"}

\* What the step the monitor is at may rely on.
StepInv ==
  /\ turn.step \in HandlerSteps \cup OwnerSteps \cup {"net"} => turn.vm \in Vms
  /\ turn.step \in HandlerSteps \cup OwnerSteps => turn.seen \in Wallets
  /\ turn.step \in HandlerSteps => entry[turn.vm].owner = KeyHash(turn.seen)
  /\ At("gecos") =>
       \/ turn.vm \in lost
       \/ entry[turn.vm].owner = turn.seen /\ ~entry[turn.vm].synced
  /\ At("synced") =>
       \/ turn.vm \in lost
       \/ entry[turn.vm].owner = turn.seen /\ gecos[turn.vm] = turn.seen

Inv == TypeOK /\ StepInv /\ SyncedMeansGecos

-----------------------------------------------------------------------------
LEMMA InitInv == Init => Inv
BY ReconcilerAssumption
DEF Init, Inv, TypeOK, StepInv, SyncedMeansGecos, At, Idle, Turn, NoEntry, Entry,
    HandlerSteps, OwnerSteps

LEMMA FaultFacts ==
  ASSUME TypeOK, Fault \/ UNCHANGED faults
  PROVE  faults' \in 0..MaxFaults
BY ReconcilerAssumption DEF TypeOK, Fault

\* A write of an entry: its type, and that no other entry changes.
LEMMA RecordsFacts ==
  ASSUME TypeOK, NEW v \in Vms, NEW e \in Entry, Records(v, e),
         e.status = "none" \/ e.owner # None
  PROVE  /\ entry' \in [Vms -> Entry]
         /\ \A u \in Vms : entry'[u].status = "none" \/ entry'[u].owner # None
         /\ \A u \in Vms : u # v => entry'[u] = entry[u]
         /\ entry'[v] \in {e, entry[v]}
         /\ entry' # entry => entry'[v] = e
         /\ faults' \in 0..MaxFaults
<1>1. CASE entry' = [entry EXCEPT ![v] = e] /\ UNCHANGED faults
  BY <1>1 DEF TypeOK
<1>2. CASE Fault /\ UNCHANGED entry
  BY <1>2, FaultFacts DEF TypeOK
<1> QED
  BY <1>1, <1>2 DEF Records

\* What a new type-correct state has to show.
LEMMA TurnFacts ==
  ASSUME TypeOK
  PROVE  /\ Idle \in Turn
         /\ turn.step \in {"idle", "mint", "firstPush", "firstNet", "firstGecos", "mark",
                           "pass", "owner", "gecos", "synced", "net"}
         /\ \A step \in {"idle", "mint", "firstPush", "firstNet", "firstGecos", "mark",
                         "pass", "owner", "gecos", "synced", "net"} :
              GoesTo(step) =>
                /\ turn' \in Turn
                /\ turn'.step = step /\ turn'.vm = turn.vm /\ turn'.seen = turn.seen
BY DEF TypeOK, Turn, Idle, GoesTo

LEMMA HandlerInv == Inv /\ Handler => Inv'
<1> SUFFICES ASSUME Inv, Handler PROVE Inv'
  OBVIOUS
<1> USE TurnFacts DEF HandlerSteps, OwnerSteps
<1>1. TypeOK /\ StepInv /\ SyncedMeansGecos
  BY DEF Inv
<1>2. CASE Mint
  <2>1. TypeOK'
    BY <1>1, <1>2 DEF Mint, TypeOK, StepInv, At
  <2> QED
    BY <1>1, <1>2, <2>1 DEF Mint, Inv, StepInv, SyncedMeansGecos, At
<1>3. CASE MintEnds
  <2>1. faults' \in 0..MaxFaults
    BY <1>1, <1>3, FaultFacts DEF MintEnds
  <2>2. TypeOK'
    BY <1>1, <1>3, <2>1 DEF MintEnds, TypeOK, StepInv, At
  <2> QED
    BY <1>1, <1>3, <2>2 DEF MintEnds, Inv, StepInv, SyncedMeansGecos, At, Idle
<1>4. CASE FirstPush
  <2>1. turn.vm \in Vms /\ config \in [Vms -> BOOLEAN]
    BY <1>1, <1>4 DEF FirstPush, StepInv, At, TypeOK
  <2>2. config' \in [Vms -> BOOLEAN] /\ faults' \in 0..MaxFaults
    BY <1>1, <1>4, <2>1, FaultFacts DEF FirstPush, Works, Fails, TypeOK
  <2>3. TypeOK'
    BY <1>1, <1>4, <2>2 DEF FirstPush, TypeOK
  <2> QED
    BY <1>1, <1>4, <2>3 DEF FirstPush, Inv, StepInv, SyncedMeansGecos, At
<1>5. CASE FirstNet \/ MarkNftMinted
  <2>1. turn.vm \in Vms
    BY <1>1, <1>5 DEF FirstNet, MarkNftMinted, StepInv, At
  <2>2. PICK e \in Entry :
          /\ Records(turn.vm, e)
          /\ e.status = entry[turn.vm].status
          /\ e.owner = entry[turn.vm].owner /\ e.synced = entry[turn.vm].synced
    <3>1. entry[turn.vm] \in Entry
      BY <1>1, <2>1 DEF TypeOK
    <3>2. CASE FirstNet
      <4>1. [entry[turn.vm] EXCEPT !.net = TRUE] \in Entry
        BY <3>1 DEF Entry
      <4> QED
        BY <3>1, <3>2, <4>1 DEF FirstNet, Entry
    <3>3. CASE MarkNftMinted
      <4>1. [entry[turn.vm] EXCEPT !.token = TRUE] \in Entry
        BY <3>1 DEF Entry
      <4> QED
        BY <3>1, <3>3, <4>1 DEF MarkNftMinted, Entry
    <3> QED
      BY <1>5, <3>2, <3>3
  <2>3. /\ entry' \in [Vms -> Entry]
        /\ \A u \in Vms : entry'[u].status = "none" \/ entry'[u].owner # None
        /\ \A u \in Vms : entry'[u].owner = entry[u].owner /\ entry'[u].synced = entry[u].synced
        /\ faults' \in 0..MaxFaults
    <3>1. e.status = "none" \/ e.owner # None
      BY <1>1, <2>1, <2>2 DEF TypeOK
    <3> QED
      BY <1>1, <2>1, <2>2, <3>1, RecordsFacts
  <2>4. turn' = Idle \/ (GoesTo("firstGecos") /\ At("firstNet"))
    BY <1>5 DEF FirstNet, MarkNftMinted
  <2>5. TypeOK'
    BY <1>1, <1>5, <2>3, <2>4 DEF FirstNet, MarkNftMinted, TypeOK
  <2> QED
    BY <1>1, <1>5, <2>1, <2>3, <2>4, <2>5
    DEF FirstNet, MarkNftMinted, Inv, StepInv, SyncedMeansGecos, At, Idle
<1>6. CASE FirstGecos
  <2>1. turn.vm \in Vms /\ turn.seen \in Wallets /\ entry[turn.vm].owner = KeyHash(turn.seen)
    BY <1>1, <1>6 DEF FirstGecos, StepInv, At
  <2>2. KeyHash(turn.seen) \in KeyHashes
    BY <2>1 DEF KeyHashes
  <2>3. gecos \in [Vms -> Wallets \cup KeyHashes \cup {None}]
    BY <1>1 DEF TypeOK
  <2>4. /\ gecos' \in [Vms -> Wallets \cup KeyHashes \cup {None}]
        /\ \A u \in Vms : u # turn.vm => gecos'[u] = gecos[u]
        /\ faults' \in 0..MaxFaults
    BY <1>1, <1>6, <2>1, <2>2, <2>3, FaultFacts DEF FirstGecos, Works, Fails, TypeOK
  <2>5. TypeOK'
    BY <1>1, <1>6, <2>4 DEF FirstGecos, TypeOK
  <2>6. entry[turn.vm].owner \notin Wallets
    BY <2>1, <2>2, ReconcilerAssumption
  <2>7. SyncedMeansGecos'
    BY <1>1, <1>6, <2>4, <2>6 DEF FirstGecos, SyncedMeansGecos
  <2> QED
    BY <1>1, <1>6, <2>1, <2>5, <2>7 DEF FirstGecos, Inv, StepInv, At
<1> QED
  BY <1>2, <1>3, <1>4, <1>5, <1>6 DEF Handler

LEMMA PassInv == Inv /\ Pass => Inv'
<1> SUFFICES ASSUME Inv, Pass PROVE Inv'
  OBVIOUS
<1> USE TurnFacts DEF HandlerSteps, OwnerSteps
<1>1. TypeOK /\ StepInv /\ SyncedMeansGecos
  BY DEF Inv
<1>2. CASE StartPass
  <2>1. turn'.step = "pass" /\ turn' \in Turn
    BY <1>2 DEF StartPass, Listed, Turn, Idle
  <2> QED
    BY <1>1, <1>2, <2>1 DEF StartPass, Inv, TypeOK, StepInv, SyncedMeansGecos, At
<1>3. ASSUME NEW v \in Vms, CheckHolder(v)
      PROVE  Inv'
  <2>1. PICK seen \in {holder[v], None} :
          /\ Holds(v, seen)
          /\ turn' = [turn EXCEPT !.step = StepFor(v, seen), !.vm = v, !.seen = seen,
                                  !.owners = @ \ {v}]
    BY <1>3 DEF CheckHolder
  <2>2. seen \in Wallets \cup {None} /\ faults' \in 0..MaxFaults
    BY <1>1, <2>1, FaultFacts DEF Holds, TypeOK
  <2>3. StepFor(v, seen) \in {"pass", "owner", "gecos"}
    BY DEF StepFor
  <2>4. /\ turn' \in Turn
        /\ turn'.step = StepFor(v, seen) /\ turn'.vm = v /\ turn'.seen = seen
    BY <1>1, <2>1, <2>2, <2>3 DEF TypeOK, Turn
  <2>5. StepFor(v, seen) # "pass" => seen \in Wallets
    BY <2>2 DEF StepFor
  <2>6. StepFor(v, seen) = "gecos" => entry[v].owner = seen /\ ~entry[v].synced
    BY DEF StepFor
  <2>7. TypeOK'
    BY <1>1, <1>3, <2>2, <2>4 DEF CheckHolder, TypeOK
  <2> QED
    BY <1>1, <1>3, <2>3, <2>4, <2>5, <2>6, <2>7
    DEF CheckHolder, Inv, StepInv, SyncedMeansGecos, At
<1>4. CASE UpdateOwner
  <2>1. turn.vm \in Vms /\ turn.seen \in Wallets
    BY <1>1, <1>4 DEF UpdateOwner, StepInv, At
  <2> DEFINE e == NewOwner(entry[turn.vm], turn.seen)
  <2>2. e \in Entry /\ e.owner = turn.seen /\ ~e.synced /\ Records(turn.vm, e)
    <3>1. entry[turn.vm] \in Entry
      BY <1>1, <2>1 DEF TypeOK
    <3> QED
      BY <1>4, <2>1, <3>1 DEF UpdateOwner, NewOwner, Entry
  <2>3. e.owner # None
    BY <2>1, <2>2, ReconcilerAssumption
  <2> HIDE DEF e
  <2>4. /\ entry' \in [Vms -> Entry]
        /\ \A u \in Vms : entry'[u].status = "none" \/ entry'[u].owner # None
        /\ \A u \in Vms : u # turn.vm => entry'[u] = entry[u]
        /\ entry' # entry => entry'[turn.vm] = e
        /\ faults' \in 0..MaxFaults
    BY <1>1, <2>1, <2>2, <2>3, RecordsFacts
  <2>5. GoesTo("gecos") /\ lost' = (IF entry' = entry THEN lost \cup {turn.vm} ELSE lost \ {turn.vm})
    BY <1>4 DEF UpdateOwner
  <2>6. TypeOK'
    BY <1>1, <1>4, <2>1, <2>4, <2>5 DEF UpdateOwner, TypeOK
  <2>7. SyncedMeansGecos'
    BY <1>1, <1>4, <2>2, <2>4, <2>5 DEF UpdateOwner, SyncedMeansGecos
  <2>8. StepInv'
    BY <1>1, <2>1, <2>2, <2>4, <2>5 DEF StepInv, At
  <2> QED
    BY <2>6, <2>7, <2>8 DEF Inv
<1>5. CASE UpdateGecos
  <2>1. /\ turn.vm \in Vms /\ turn.seen \in Wallets
        /\ \/ turn.vm \in lost
           \/ entry[turn.vm].owner = turn.seen /\ ~entry[turn.vm].synced
    BY <1>1, <1>5 DEF UpdateGecos, StepInv, At
  <2>2. gecos \in [Vms -> Wallets \cup KeyHashes \cup {None}]
    BY <1>1 DEF TypeOK
  <2>3. /\ gecos' \in [Vms -> Wallets \cup KeyHashes \cup {None}]
        /\ \A u \in Vms : u # turn.vm => gecos'[u] = gecos[u]
        /\ faults' \in 0..MaxFaults
        /\ \/ gecos'[turn.vm] = turn.seen /\ GoesTo("synced")
           \/ GoesTo("pass")
    BY <1>1, <1>5, <2>1, <2>2, FaultFacts DEF UpdateGecos, Works, Fails, TypeOK
  <2>4. TypeOK'
    BY <1>1, <1>5, <2>3 DEF UpdateGecos, TypeOK
  <2>5. SyncedMeansGecos'
    BY <1>1, <1>5, <2>1, <2>3 DEF UpdateGecos, SyncedMeansGecos
  <2>6. StepInv'
    BY <1>1, <1>5, <2>1, <2>3 DEF UpdateGecos, StepInv, At
  <2> QED
    BY <2>4, <2>5, <2>6 DEF Inv
<1>6. CASE MarkGecosSynced
  <2>1. /\ turn.vm \in Vms /\ turn.seen \in Wallets
        /\ \/ turn.vm \in lost
           \/ entry[turn.vm].owner = turn.seen /\ gecos[turn.vm] = turn.seen
    BY <1>1, <1>6 DEF MarkGecosSynced, StepInv, At
  <2> DEFINE e == [entry[turn.vm] EXCEPT !.synced = TRUE]
  <2>2. /\ e \in Entry /\ Records(turn.vm, e)
        /\ e.owner = entry[turn.vm].owner /\ e.status = entry[turn.vm].status
    <3>1. entry[turn.vm] \in Entry
      BY <1>1, <2>1 DEF TypeOK
    <3> QED
      BY <1>6, <3>1 DEF MarkGecosSynced, Entry
  <2>3. e.status = "none" \/ e.owner # None
    BY <1>1, <2>1, <2>2 DEF TypeOK
  <2> HIDE DEF e
  <2>4. /\ entry' \in [Vms -> Entry]
        /\ \A u \in Vms : entry'[u].status = "none" \/ entry'[u].owner # None
        /\ \A u \in Vms : u # turn.vm => entry'[u] = entry[u]
        /\ entry'[turn.vm].owner = entry[turn.vm].owner
        /\ faults' \in 0..MaxFaults
    BY <1>1, <2>1, <2>2, <2>3, RecordsFacts
  <2>5. TypeOK'
    BY <1>1, <1>6, <2>4 DEF MarkGecosSynced, TypeOK
  <2>6. SyncedMeansGecos'
    BY <1>1, <1>6, <2>1, <2>4 DEF MarkGecosSynced, SyncedMeansGecos
  <2>7. StepInv'
    BY <1>1, <1>6 DEF MarkGecosSynced, StepInv, At
  <2> QED
    BY <2>5, <2>6, <2>7 DEF Inv
<1>7. ASSUME NEW v \in Vms, PushConfig(v)
      PROVE  Inv'
  <2>1. PICK step \in {"net", "pass"} :
          /\ Works(v, config, TRUE) \/ Fails(v, config, TRUE)
          /\ turn' = [turn EXCEPT !.step = step, !.vm = v, !.nets = @ \ {v}]
    BY <1>7 DEF PushConfig
  <2>2. turn' \in Turn /\ turn'.step = step /\ turn'.vm = v
    BY <1>1, <2>1 DEF TypeOK, Turn
  <2>3. config' \in [Vms -> BOOLEAN] /\ faults' \in 0..MaxFaults
    BY <1>1, <2>1, FaultFacts DEF Works, Fails, TypeOK
  <2>4. TypeOK'
    BY <1>1, <1>7, <2>2, <2>3 DEF PushConfig, TypeOK
  <2> QED
    BY <1>1, <1>7, <2>2, <2>4 DEF PushConfig, Inv, StepInv, SyncedMeansGecos, At
<1>8. CASE SetNetworkConfigSynced
  <2>1. turn.vm \in Vms
    BY <1>1, <1>8 DEF SetNetworkConfigSynced, StepInv, At
  <2> DEFINE e == [entry[turn.vm] EXCEPT !.net = TRUE]
  <2>2. /\ e \in Entry /\ Records(turn.vm, e) /\ e.synced = entry[turn.vm].synced
        /\ e.owner = entry[turn.vm].owner /\ e.status = entry[turn.vm].status
    <3>1. entry[turn.vm] \in Entry
      BY <1>1, <2>1 DEF TypeOK
    <3> QED
      BY <1>8, <3>1 DEF SetNetworkConfigSynced, Entry
  <2>3. e.status = "none" \/ e.owner # None
    BY <1>1, <2>1, <2>2 DEF TypeOK
  <2> HIDE DEF e
  <2>4. /\ entry' \in [Vms -> Entry]
        /\ \A u \in Vms : entry'[u].status = "none" \/ entry'[u].owner # None
        /\ \A u \in Vms : entry'[u].owner = entry[u].owner /\ entry'[u].synced = entry[u].synced
        /\ faults' \in 0..MaxFaults
    BY <1>1, <2>1, <2>2, <2>3, RecordsFacts
  <2>5. TypeOK'
    BY <1>1, <1>8, <2>4 DEF SetNetworkConfigSynced, TypeOK
  <2> QED
    BY <1>1, <1>8, <2>4, <2>5 DEF SetNetworkConfigSynced, Inv, StepInv, SyncedMeansGecos, At
<1>9. CASE EndPass
  BY <1>1, <1>9 DEF EndPass, Inv, TypeOK, StepInv, SyncedMeansGecos, At, Idle
<1> QED
  BY <1>2, <1>3, <1>4, <1>5, <1>6, <1>7, <1>8, <1>9 DEF Pass

\* The provisioner, the wallets and a crash.
LEMMA OutsideInv ==
  ASSUME Inv,
         \/ Crash
         \/ \E v \in Vms :
              \/ Suspend(v) \/ Resume(v) \/ Destroy(v)
              \/ \E w \in Wallets : Create(v, w) \/ Transfer(v, w)
  PROVE  Inv'
<1> USE TurnFacts DEF HandlerSteps, OwnerSteps
<1>1. TypeOK /\ StepInv /\ SyncedMeansGecos
  BY DEF Inv
<1>2. CASE Crash
  <2>1. faults' \in 0..MaxFaults
    BY <1>1, <1>2, FaultFacts DEF Crash
  <2> QED
    BY <1>1, <1>2, <2>1 DEF Crash, Inv, TypeOK, StepInv, SyncedMeansGecos, At, Idle
<1>3. ASSUME NEW v \in Vms, Suspend(v) \/ Resume(v) \/ Destroy(v)
      PROVE  Inv'
  <2>1. faults' \in 0..MaxFaults
    BY <1>1, <1>3, FaultFacts DEF Suspend, Resume, Destroy
  <2>2. PICK status \in {"active", "suspended", "destroyed"} :
          entry' = [entry EXCEPT ![v].status = status]
    BY <1>3 DEF Suspend, Resume, Destroy
  <2>3. entry[v] \in Entry /\ entry[v].owner # None
    BY <1>1, <1>3 DEF TypeOK, Suspend, Resume, Destroy, Runs
  <2>4. /\ entry' \in [Vms -> Entry]
        /\ \A u \in Vms : entry'[u].owner = entry[u].owner /\ entry'[u].synced = entry[u].synced
        /\ \A u \in Vms : entry'[u].status = "none" => entry[u].status = "none"
    BY <1>1, <2>2, <2>3 DEF TypeOK, Entry
  <2>5. TypeOK'
    BY <1>1, <1>3, <2>1, <2>3, <2>4 DEF Suspend, Resume, Destroy, TypeOK
  <2> QED
    BY <1>1, <1>3, <2>4, <2>5
    DEF Suspend, Resume, Destroy, Inv, StepInv, SyncedMeansGecos, At
<1>4. ASSUME NEW v \in Vms, NEW w \in Wallets, Create(v, w)
      PROVE  Inv'
  <2> DEFINE e == [NoEntry EXCEPT !.status = "active", !.owner = CreatedOwner(w)]
  <2>1. e \in Entry /\ e.owner = KeyHash(w) /\ e.owner \in KeyHashes
    BY DEF NoEntry, Entry, CreatedOwner, KeyHashes
  <2>2. entry' = [entry EXCEPT ![v] = e]
    BY <1>4 DEF Create
  <2>3. e.owner # None /\ e.owner \notin Wallets
    BY <2>1, ReconcilerAssumption
  <2> HIDE DEF e
  <2>4. /\ turn' \in Turn
        /\ turn'.step = "mint" /\ turn'.vm = v /\ turn'.seen = w
    BY <1>4 DEF Create, Turn, Idle
  <2>5. TypeOK'
    BY <1>1, <1>4, <2>1, <2>2, <2>3, <2>4 DEF Create, TypeOK
  <2>6. SyncedMeansGecos'
    BY <1>1, <1>4, <2>2, <2>3 DEF Create, TypeOK, SyncedMeansGecos
  <2>7. StepInv'
    BY <1>1, <2>1, <2>2, <2>4 DEF TypeOK, StepInv, At
  <2> QED
    BY <2>5, <2>6, <2>7 DEF Inv
<1>5. ASSUME NEW v \in Vms, NEW w \in Wallets, Transfer(v, w)
      PROVE  Inv'
  <2>1. transfers' \in 0..MaxTransfers
    BY <1>1, <1>5, ReconcilerAssumption DEF Transfer, TypeOK
  <2>2. TypeOK'
    BY <1>1, <1>5, <2>1 DEF Transfer, TypeOK
  <2> QED
    BY <1>1, <1>5, <2>2 DEF Transfer, Inv, StepInv, SyncedMeansGecos, At
<1> QED
  BY <1>2, <1>3, <1>4, <1>5

LEMMA InvAlways == Spec => []Inv
<1>1. Inv /\ [Next]_vars => Inv'
  <2> SUFFICES ASSUME Inv, [Next]_vars PROVE Inv'
    OBVIOUS
  <2>1. CASE UNCHANGED vars
    BY <2>1 DEF vars, Inv, TypeOK, StepInv, SyncedMeansGecos, At
  <2> QED
    BY <2>1, HandlerInv, PassInv, OutsideInv DEF Next
<1> QED
  BY InitInv, <1>1, PTL DEF Spec

-----------------------------------------------------------------------------
(***************************************************************************)
(* Entries, guests and turns keep their types, and no VM loses its owner.  *)
(***************************************************************************)
THEOREM TypeCorrect == Spec => []TypeOK
BY InvAlways, PTL DEF Inv

(***************************************************************************)
(* Whatever fails and wherever the monitor dies, an entry that asks for no *)
(* retry names the address the guest lets in, unless the write of its last *)
(* transfer was lost.                                                      *)
(***************************************************************************)
THEOREM SyncedMeansGecosAlways == Spec => []SyncedMeansGecos
BY InvAlways, PTL DEF Inv
=============================================================================
