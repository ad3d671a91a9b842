----------------------------- MODULE Reconciler -----------------------------
(***************************************************************************)
(* Who may log in to a VM: the GECOS field of the guest follows the holder *)
(* of the VM's NFT.  The last steps of handleSubscriptionCreated           *)
(* (src/handlers/index.ts) set it the first time; runReconciliation        *)
(* (src/reconcile/index.ts) follows transfers and retries what failed, and *)
(* pushes the network configuration until the guest has it.  The poll loop *)
(* awaits each of them, so one runs at a time; the NFTs move meanwhile,    *)
(* and any call may fail or the monitor die between two calls.             *)
(***************************************************************************)
EXTENDS Naturals

CONSTANTS
  Vms, Wallets,
  MaxTransfers,      \* bound: transfers of NFTs between wallets
  MaxFaults,         \* bound: failed calls, crashes and suspensions
  None

VARIABLES
  entry,             \* vms.json
  gecos, config,     \* in the guest: the GECOS field; is the network configured?
  holder,            \* on chain: the wallet that holds the NFT of a VM
  turn,              \* what the monitor is doing
  lost,              \* history: VMs whose last change of owner was not written
  transfers, faults  \* counters for the bounds

vars == <<entry, gecos, config, holder, turn, lost, transfers, faults>>

\* datum.subscriber: the payment key hash of a wallet, not its address.
KeyHash(w) == [keyHash |-> w]
KeyHashes == {KeyHash(w) : w \in Wallets}

ASSUME ReconcilerAssumption ==
  /\ None \notin Vms \cup Wallets \cup KeyHashes
  /\ Wallets \cap KeyHashes = {}
  /\ MaxTransfers \in Nat
  /\ MaxFaults \in Nat

\* Fields that are absent read as listActiveVms reads them: synced is true.
Entry == [status : {"none", "active", "suspended", "destroyed"},
          owner  : Wallets \cup KeyHashes \cup {None},   \* None: no entry
          token  : BOOLEAN,     \* nft_token_id and nft_minted are set together
          synced : BOOLEAN,     \* gecos_synced
          net    : BOOLEAN]     \* network_config_synced
NoEntry == [status |-> "none", owner |-> None, token |-> FALSE, synced |-> TRUE, net |-> FALSE]

\* owners and nets: the VMs passes 1 and 3 still have to visit.
Turn == [step : {"idle", "mint", "firstPush", "firstNet", "firstGecos", "mark",
                 "pass", "owner", "gecos", "synced", "net"},
         vm : Vms \cup {None}, seen : Wallets \cup {None},
         owners : SUBSET Vms, nets : SUBSET Vms]
Idle == [step |-> "idle", vm |-> None, seen |-> None, owners |-> {}, nets |-> {}]

Init ==
  /\ entry = [v \in Vms |-> NoEntry]
  /\ gecos = [v \in Vms |-> None]
  /\ config = [v \in Vms |-> FALSE]
  /\ holder = [v \in Vms |-> None]
  /\ turn = Idle
  /\ lost = {}
  /\ transfers = 0
  /\ faults = 0

-----------------------------------------------------------------------------
Fault == faults < MaxFaults /\ faults' = faults + 1

At(step) == turn.step = step
GoesTo(step) == turn' = [turn EXCEPT !.step = step]

\* A write of vms.json that is made, or fails and is logged.
Records(v, e) ==
  \/ entry' = [entry EXCEPT ![v] = e] /\ UNCHANGED faults
  \/ Fault /\ UNCHANGED entry

Runs(v) == entry[v].status = "active"

\* A call of the guest: it works in a running VM, and fails, with effect or
\* without, in one that is stopped or by a fault.
Works(v, guest, value) ==
  Runs(v) /\ guest' = [guest EXCEPT ![v] = value] /\ UNCHANGED faults

Fails(v, guest, value) ==
  \/ ~Runs(v) /\ UNCHANGED <<guest, faults>>
  \/ Runs(v) /\ Fault /\ guest' \in {guest, [guest EXCEPT ![v] = value]}

(***************************************************************************)
(* handleSubscriptionCreated, from the created VM on                       *)
(***************************************************************************)
\* Mutant: the owner is recorded as the address the NFT is sent to.
OwnerAddress(w) == w

\* The owner that createArgs passes.
CreatedOwner(w) == KeyHash(w)

Create(v, w) ==
  /\ At("idle")
  /\ entry[v].status = "none"
  /\ entry' = [entry EXCEPT ![v] = [NoEntry EXCEPT !.status = "active", !.owner = CreatedOwner(w)]]
  /\ turn' = [Idle EXCEPT !.step = "mint", !.vm = v, !.seen = w]
  /\ UNCHANGED <<gecos, config, holder, lost, transfers, faults>>

Mint ==
  /\ At("mint")
  /\ holder' = [holder EXCEPT ![turn.vm] = turn.seen]
  /\ GoesTo("firstPush")
  /\ UNCHANGED <<entry, gecos, config, lost, transfers, faults>>

\* No summary, no host, or a mint that is not reported: the handler returns.
MintEnds ==
  /\ At("mint")
  /\ Fault
  /\ holder' \in {holder, [holder EXCEPT ![turn.vm] = turn.seen]}
  /\ turn' = Idle
  /\ UNCHANGED <<entry, gecos, config, lost, transfers>>

\* Mutant: the push is taken to have succeeded.
FirstPushAssumed ==
  /\ At("firstPush")
  /\ GoesTo("firstNet")
  /\ Works(turn.vm, config, TRUE) \/ Fails(turn.vm, config, TRUE)
  /\ UNCHANGED <<entry, gecos, holder, lost, transfers>>

\* A push that failed writes false, which is what the entry says already.
FirstPush ==
  /\ At("firstPush")
  /\ \/ Works(turn.vm, config, TRUE) /\ GoesTo("firstNet")
     \/ Fails(turn.vm, config, TRUE) /\ GoesTo("firstGecos")
  /\ UNCHANGED <<entry, gecos, holder, lost, transfers>>

FirstNet ==
  /\ At("firstNet")
  /\ Records(turn.vm, [entry[turn.vm] EXCEPT !.net = TRUE])
  /\ GoesTo("firstGecos")
  /\ UNCHANGED <<gecos, config, holder, lost, transfers>>

\* Four attempts; that all fail is nowhere recorded.
FirstGecos ==
  /\ At("firstGecos")
  /\ \/ Works(turn.vm, gecos, KeyHash(turn.seen))
     \/ Fails(turn.vm, gecos, KeyHash(turn.seen))
  /\ GoesTo("mark")
  /\ UNCHANGED <<entry, config, holder, lost, transfers>>

MarkNftMinted ==
  /\ At("mark")
  /\ Records(turn.vm, [entry[turn.vm] EXCEPT !.token = TRUE])
  /\ turn' = Idle
  /\ UNCHANGED <<gecos, config, holder, lost, transfers>>

(***************************************************************************)
(* runReconciliation.  Only this process writes owner and gecos_synced, so *)
(* what listActiveVms read at the start is what the entries still say.     *)
(***************************************************************************)
Listed == {v \in Vms : entry[v].status \in {"active", "suspended"}}

StartPass ==
  /\ At("idle")
  /\ Listed # {}
  /\ turn' = [Idle EXCEPT !.step = "pass",
                          !.owners = {v \in Listed : entry[v].token},
                          !.nets = {v \in Listed : ~entry[v].net}]
  /\ UNCHANGED <<entry, gecos, config, holder, lost, transfers, faults>>

\* Mutant: a holder that is not known is taken for a transfer.
StepForNull(v, seen) ==
  IF seen # entry[v].owner THEN "owner"
  ELSE IF ~entry[v].synced THEN "gecos" ELSE "pass"

\* findNftHolder: null if nobody holds it or the query fails.
Holds(v, seen) ==
  \/ seen = holder[v] /\ UNCHANGED faults
  \/ seen = None /\ Fault

StepFor(v, seen) ==
  IF seen = None THEN "pass"
  ELSE IF seen # entry[v].owner THEN "owner"
  ELSE IF ~entry[v].synced THEN "gecos" ELSE "pass"

CheckHolder(v) ==
  /\ At("pass")
  /\ v \in turn.owners
  /\ \E seen \in {holder[v], None} :
       /\ Holds(v, seen)
       /\ turn' = [turn EXCEPT !.step = StepFor(v, seen), !.vm = v, !.seen = seen,
                               !.owners = @ \ {v}]
  /\ UNCHANGED <<entry, gecos, config, holder, lost, transfers>>

\* Mutant: gecos_synced is left as it is.
NewOwnerSynced(e, w) == [e EXCEPT !.owner = w]

NewOwner(e, w) == [e EXCEPT !.owner = w, !.synced = FALSE]

\* updateOwnerInDb; whether it failed makes no difference to what follows.
UpdateOwner ==
  /\ At("owner")
  /\ Records(turn.vm, NewOwner(entry[turn.vm], turn.seen))
  /\ lost' = IF entry' = entry THEN lost \cup {turn.vm} ELSE lost \ {turn.vm}
  /\ GoesTo("gecos")
  /\ UNCHANGED <<gecos, config, holder, transfers>>

\* Mutant: an update that failed is not retried.
UpdateGecosOnce ==
  /\ At("gecos")
  /\ Works(turn.vm, gecos, turn.seen) \/ Fails(turn.vm, gecos, turn.seen)
  /\ GoesTo("synced")
  /\ UNCHANGED <<entry, config, holder, lost, transfers>>

UpdateGecos ==
  /\ At("gecos")
  /\ \/ Works(turn.vm, gecos, turn.seen) /\ GoesTo("synced")
     \/ Fails(turn.vm, gecos, turn.seen) /\ GoesTo("pass")
  /\ UNCHANGED <<entry, config, holder, lost, transfers>>

MarkGecosSynced ==
  /\ At("synced")
  /\ Records(turn.vm, [entry[turn.vm] EXCEPT !.synced = TRUE])
  /\ GoesTo("pass")
  /\ UNCHANGED <<gecos, config, holder, lost, transfers>>

\* Pass 3.
PushConfig(v) ==
  /\ At("pass")
  /\ turn.owners = {}
  /\ v \in turn.nets
  /\ \E step \in {"net", "pass"} :
       /\ IF step = "net" THEN Works(v, config, TRUE) ELSE Fails(v, config, TRUE)
       /\ turn' = [turn EXCEPT !.step = step, !.vm = v, !.nets = @ \ {v}]
  /\ UNCHANGED <<entry, gecos, holder, lost, transfers>>

SetNetworkConfigSynced ==
  /\ At("net")
  /\ Records(turn.vm, [entry[turn.vm] EXCEPT !.net = TRUE])
  /\ GoesTo("pass")
  /\ UNCHANGED <<gecos, config, holder, lost, transfers>>

EndPass ==
  /\ At("pass")
  /\ turn.owners = {} /\ turn.nets = {}
  /\ turn' = Idle
  /\ UNCHANGED <<entry, gecos, config, holder, lost, transfers, faults>>

-----------------------------------------------------------------------------
(***************************************************************************)
(* What happens meanwhile                                                  *)
(***************************************************************************)
Transfer(v, w) ==
  /\ transfers < MaxTransfers
  /\ holder[v] \notin {None, w}
  /\ holder' = [holder EXCEPT ![v] = w]
  /\ transfers' = transfers + 1
  /\ UNCHANGED <<entry, gecos, config, turn, lost, faults>>

\* The provisioner suspends a VM, resumes it, or destroys it.
Suspend(v) ==
  /\ Runs(v)
  /\ Fault
  /\ entry' = [entry EXCEPT ![v].status = "suspended"]
  /\ UNCHANGED <<gecos, config, holder, turn, lost, transfers>>

Resume(v) ==
  /\ entry[v].status = "suspended"
  /\ entry' = [entry EXCEPT ![v].status = "active"]
  /\ UNCHANGED <<gecos, config, holder, turn, lost, transfers, faults>>

Destroy(v) ==
  /\ entry[v].status \in {"active", "suspended"}
  /\ entry' = [entry EXCEPT ![v].status = "destroyed"]
  /\ UNCHANGED <<gecos, config, holder, turn, lost, transfers, faults>>

Crash ==
  /\ turn # Idle
  /\ Fault
  /\ turn' = Idle
  /\ UNCHANGED <<entry, gecos, config, holder, lost, transfers>>

Handler == Mint \/ MintEnds \/ FirstPush \/ FirstNet \/ FirstGecos \/ MarkNftMinted

Pass ==
  \/ StartPass \/ UpdateOwner \/ UpdateGecos \/ MarkGecosSynced
  \/ SetNetworkConfigSynced \/ EndPass
  \/ \E v \in Vms : CheckHolder(v) \/ PushConfig(v)

Next ==
  \/ Handler \/ Pass \/ Crash
  \/ \E v \in Vms :
       \/ Suspend(v) \/ Resume(v) \/ Destroy(v)
       \/ \E w \in Wallets : Create(v, w) \/ Transfer(v, w)

Spec == Init /\ [][Next]_vars

\* A pass starts every hour, and each of its calls has a timeout; the commands
\* of the handler that have none (runCommand) are assumed to end.
FairSpec == Spec /\ WF_vars(Handler) /\ WF_vars(Pass)

-----------------------------------------------------------------------------
\* Every variable holds values of its kind, and every VM has an owner.
TypeOK ==
  /\ entry \in [Vms -> Entry]
  /\ \A v \in Vms : entry[v].status = "none" \/ entry[v].owner # None
  /\ gecos \in [Vms -> Wallets \cup KeyHashes \cup {None}]
  /\ config \in [Vms -> BOOLEAN]
  /\ holder \in [Vms -> Wallets \cup {None}]
  /\ turn \in Turn
  /\ lost \subseteq Vms
  /\ transfers \in 0..MaxTransfers
  /\ faults \in 0..MaxFaults

(***************************************************************************)
(* gecos_synced can be trusted: an entry that names an address and does    *)
(* not ask for a retry is one whose guest lets that address in, and nobody *)
(* else, unless the write of the last transfer failed, which the           *)
(* reconciler only logs (reconcile/index.ts:231).                          *)
(***************************************************************************)
SyncedMeansGecos ==
  \A v \in Vms :
    entry[v].owner \in Wallets /\ entry[v].synced /\ v \notin lost =>
      gecos[v] = entry[v].owner

(***************************************************************************)
(* docs/reconciler.md: transfers reach the guest, and a GECOS write that   *)
(* failed, in the handler or in a pass, is retried until it succeeds; a    *)
(* guest whose first push of the network configuration failed, or was      *)
(* never made, gets it from a later pass.  Excluded is an owner write that *)
(* was lost before the NFT came back: the entry then matches the holder    *)
(* and the guest keeps the address between.                                *)
(***************************************************************************)
GuestIsBroughtUpToDate ==
  \A v \in Vms :
    /\ []<>(Runs(v) /\ entry[v].token /\ v \notin lost => gecos[v] = holder[v])
    /\ []<>(Runs(v) => config[v])
=============================================================================
