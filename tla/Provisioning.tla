---------------------------- MODULE Provisioning ----------------------------
(***************************************************************************)
(* The subscription handlers (src/handlers/index.ts) and the VM database   *)
(* they write, composed with the scanner that feeds them: one step of this *)
(* module is one awaited call of a handler, and the process may die        *)
(* between any two.  Without the handlers' detail it is BeaconScanner.     *)
(***************************************************************************)
EXTENDS Integers

CONSTANTS
  Beacons, Subscribers, Owner,
  VERIFY_INTERVAL, CONFIRM_INTERVAL, CONFIRM_COUNT,
  Renewals, MaxRef, MaxRestarts,
  DAY,               \* MS_PER_DAY, in the unit of the datum's expiry
  MaxVms,            \* bound: VM names allocated
  Delays,            \* bound: times at which a VM is made, after the signup
  None               \* no beacon

ASSUME ProvisioningAssumption ==
  /\ Owner \in [Beacons -> Subscribers]
  /\ VERIFY_INTERVAL \in Nat \ {0}
  /\ CONFIRM_INTERVAL \in Nat \ {0}
  /\ CONFIRM_COUNT \in Nat \ {0, 1}
  /\ Renewals \subseteq Nat
  /\ MaxRef \in Nat \ {0}
  /\ MaxRestarts \in Nat
  /\ DAY \in Nat \ {0}
  /\ Delays \subseteq Nat
  /\ MaxVms \in Nat
  /\ None \notin Beacons

VARIABLES utxo, minted, loaded, known, pending, sinceVerify, diff, restarts,
          sinceSeen, missed

VARIABLES
  vms,               \* vms.json: VM name -> entry
  nextVm,            \* the next-vm-id counter
  nfts,              \* VMs whose NFT is on chain
  job                \* the handler the poll loop awaits

\* The beacons loadKnownBeacons would restore.
Recorded == {vms[v].beacon : v \in DOMAIN vms} \ {None}

Scanner == INSTANCE BeaconScanner WITH recorded <- Recorded

provVars == <<vms, nextVm, nfts, job>>
pollVars == <<utxo, minted, loaded, known, pending, sinceVerify, restarts,
              sinceSeen, missed>>
vars == <<pollVars, diff, provVars>>

(***************************************************************************)
(* An entry: beacon and nft are what update-fields and markNftMinted wrote *)
(* into it (a token id, here whether there is one), expiry is the time     *)
(* create and extend-expiry have credited it up to.  History: the beacon   *)
(* it was created for, how late, and how often less than a day was made a  *)
(* day.                                                                    *)
(***************************************************************************)
Entry == [beacon  : Beacons \cup {None},
          nft     : BOOLEAN,
          expiry  : Nat,
          madeFor : Beacons,
          late    : Nat,
          raised  : Nat]

Idle == [step |-> "idle", vm |-> 0]

Init ==
  /\ vms = [v \in {} |-> v]
  /\ nextVm = 1
  /\ nfts = {}
  /\ job = Idle
  /\ Scanner!Init

-----------------------------------------------------------------------------
(***************************************************************************)
(* What the scanner, the chain and the clock do while the handlers wait.   *)
(***************************************************************************)
ChainStep ==
  /\ UNCHANGED provVars
  /\ \E b \in Beacons : \/ Scanner!Subscribe(b)
                        \/ \E days \in Renewals : Scanner!Respend(b, days)
                        \/ Scanner!Burn(b)

\* poll: the next scan starts when the last handler has returned.
ScanStep ==
  /\ job = Idle
  /\ UNCHANGED provVars
  /\ Scanner!ScanPartial \/ Scanner!ScanThrows

TickStep == UNCHANGED provVars /\ Scanner!Tick

\* vms.json, the counter and the chain survive; the handler does not.
Crash ==
  /\ job' = Idle
  /\ UNCHANGED <<vms, nextVm, nfts>>
  /\ Scanner!Restart

-----------------------------------------------------------------------------
(***************************************************************************)
(* handleSubscriptionCreated                                               *)
(***************************************************************************)
Taken(kind, b) == diff' = [diff EXCEPT ![kind] = Scanner!Without(@, b)]

\* An early return: before the counter is read, or, when decryption or the
\* create command fails, after it.
AbortCreated(b) ==
  /\ job = Idle
  /\ b \in DOMAIN diff.created
  /\ Taken("created", b)
  /\ nextVm' \in {nextVm, nextVm + 1} \cap 1..(MaxVms + 1)
  /\ UNCHANGED <<vms, nfts, job, pollVars>>

\* What both calculations do with a time span: whole days, and at least one.
Days(span) == IF span < DAY THEN 1 ELSE span \div DAY
Raised(span) == IF span < DAY THEN 1 ELSE 0

\* calculateExpiryDays: an expiry that has passed leaves no span, and a day is
\* credited from now on.
Left(expiry, now) == IF expiry <= now THEN 0 ELSE expiry - now
Late(expiry, now) == IF expiry <= now THEN now - expiry ELSE 0
ExpiryDays(expiry, now) == Days(Left(expiry, now))

\* Mutant: the counter is read and never written back.
CreateVmSameId(b) ==
  /\ job = Idle
  /\ b \in DOMAIN diff.created
  /\ vms' = [v \in DOMAIN vms \cup {nextVm} |->
       IF v = nextVm
       THEN [beacon |-> None, nft |-> FALSE,
             expiry |-> diff.created[b].expiry, madeFor |-> b, late |-> 0,
             raised |-> 1]
       ELSE vms[v]]
  /\ job' = [step |-> "record", vm |-> nextVm]
  /\ UNCHANGED <<nextVm, nfts, diff, pollVars>>

\* allocateCounter and the create command: an entry that names no beacon yet,
\* good for as many days as are left.  The event may be handled at any time,
\* after an outage or because a hidden beacon is announced again.
CreateVm(b) ==
  /\ job = Idle
  /\ b \in DOMAIN diff.created
  /\ nextVm <= MaxVms
  /\ nextVm' = nextVm + 1
  /\ LET expiry == diff.created[b].expiry IN \E now \in Delays :
       vms' = [v \in DOMAIN vms \cup {nextVm} |->
         IF v = nextVm
         THEN [beacon |-> None, nft |-> FALSE,
               expiry |-> now + DAY * ExpiryDays(expiry, now),
               madeFor |-> b, late |-> Late(expiry, now),
               raised |-> Raised(Left(expiry, now))]
         ELSE vms[v]]
  /\ job' = [step |-> "record", vm |-> nextVm]
  /\ UNCHANGED <<nfts, diff, pollVars>>

\* Mutant: the event stays queued.
RecordBeaconAgain ==
  /\ job.step = "record"
  /\ vms' \in {vms, [vms EXCEPT ![job.vm].beacon = vms[job.vm].madeFor]}
  /\ job' = [job EXCEPT !.step = "mint"]
  /\ UNCHANGED <<nextVm, nfts, diff, pollVars>>

\* updateBeaconInfo: a failed update-fields is only logged.
RecordBeacon ==
  /\ job.step = "record"
  /\ LET b == vms[job.vm].madeFor IN
       /\ Taken("created", b)
       /\ vms' \in {vms, [vms EXCEPT ![job.vm].beacon = b]}
  /\ job' = [job EXCEPT !.step = "mint"]
  /\ UNCHANGED <<nextVm, nfts, pollVars>>

\* Mutant: a failed mint rolls the VM back.
GiveUpAndRollBack ==
  /\ job.step = "mint"
  /\ vms' = Scanner!Without(vms, job.vm)
  /\ job' = Idle
  /\ UNCHANGED <<nextVm, nfts, diff, pollVars>>

\* No summary, no public address, or a mint that fails: the VM stays as it is.
GiveUp ==
  /\ job.step = "mint"
  /\ job' = Idle
  /\ UNCHANGED <<vms, nextVm, nfts, diff, pollVars>>

\* blockhost-mint-nft reports success when it has submitted: the transaction
\* may be dropped, and an output that does not parse ends the handler.
MintNft ==
  /\ job.step = "mint"
  /\ nfts' \in {nfts, nfts \cup {job.vm}}
  /\ job' \in {[job EXCEPT !.step = "mark"], Idle}
  /\ UNCHANGED <<vms, nextVm, diff, pollVars>>

\* push-vm-config, up to four update-gecos calls (the guest's state and the
\* reconciler's flags are not kept here), then markNftMinted, which may fail.
MarkNftMinted ==
  /\ job.step = "mark"
  /\ vms' \in {vms, [vms EXCEPT ![job.vm].nft = TRUE]}
  /\ job' = Idle
  /\ UNCHANGED <<nextVm, nfts, diff, pollVars>>

-----------------------------------------------------------------------------
(***************************************************************************)
(* handleSubscriptionExtended and handleSubscriptionRemoved                *)
(***************************************************************************)
VmsOfBeacon(b) == {v \in DOMAIN vms : vms[v].beacon = b}

\* get_vm_by_beacon, else get_vm_by_owner; a placeholder's subscriber is "".
LookupVm(b, entry) ==
  IF VmsOfBeacon(b) # {} THEN VmsOfBeacon(b)
  ELSE IF entry.placeholder THEN {}
  ELSE {v \in DOMAIN vms : Owner[vms[v].madeFor] = Owner[b]}

\* Mutant: a day that has begun counts as a day.
AdditionalDaysRoundedUp(old, new) ==
  IF new <= old THEN 0 ELSE (new - old + DAY - 1) \div DAY

AdditionalDays(old, new) == IF new <= old THEN 0 ELSE Days(new - old)

\* extend-expiry adds the days of the delta and reports whether the VM is
\* suspended; its power state is the provisioner's and is not kept here.
ExtendVm(b) ==
  /\ job = Idle
  /\ diff.created = Scanner!EmptyMap
  /\ b \in DOMAIN diff.extended
  /\ Taken("extended", b)
  /\ LET old == diff.extended[b].old
         new == diff.extended[b].new
     IN \E v \in LookupVm(b, new) :
       /\ vms' = [vms EXCEPT
            ![v].expiry = @ + DAY * AdditionalDays(old.expiry, new.expiry),
            ![v].raised = @ + (IF new.expiry > old.expiry
                               THEN Raised(new.expiry - old.expiry) ELSE 0)]
       /\ job' \in {Idle, [step |-> "resume", vm |-> v]}
  /\ UNCHANGED <<nextVm, nfts, pollVars>>

\* No VM found, or extend-expiry failed: the event is dropped.
AbortExtended(b) ==
  /\ job = Idle
  /\ diff.created = Scanner!EmptyMap
  /\ b \in DOMAIN diff.extended
  /\ Taken("extended", b)
  /\ UNCHANGED <<vms, nextVm, nfts, job, pollVars>>

\* Mutant: a VM that cannot be resumed is destroyed.
ResumeVmOrDestroy ==
  /\ job.step = "resume"
  /\ vms' \in {vms, Scanner!Without(vms, job.vm)}
  /\ job' = Idle
  /\ UNCHANGED <<nextVm, nfts, diff, pollVars>>

ResumeVm ==
  /\ job.step = "resume"
  /\ job' = Idle
  /\ UNCHANGED <<vms, nextVm, nfts, diff, pollVars>>

RemovalIsNext(b) ==
  /\ job = Idle
  /\ diff.created = Scanner!EmptyMap
  /\ diff.extended = Scanner!EmptyMap
  /\ b \in DOMAIN diff.removed

\* networkHookCleanup, then the destroy command, which drops the entry.
DestroyVm(b) ==
  /\ RemovalIsNext(b)
  /\ Taken("removed", b)
  /\ \E v \in LookupVm(b, diff.removed[b]) : vms' = Scanner!Without(vms, v)
  /\ UNCHANGED <<nextVm, nfts, job, pollVars>>

\* No VM found, or the destroy command failed: the event is dropped.
AbortRemoved(b) ==
  /\ RemovalIsNext(b)
  /\ Taken("removed", b)
  /\ UNCHANGED <<vms, nextVm, nfts, job, pollVars>>

Next ==
  \/ ChainStep
  \/ ScanStep
  \/ TickStep
  \/ Crash
  \/ \E b \in Beacons :
       \/ AbortCreated(b)
       \/ CreateVm(b)
       \/ ExtendVm(b)
       \/ AbortExtended(b)
       \/ DestroyVm(b)
       \/ AbortRemoved(b)
  \/ RecordBeacon
  \/ GiveUp
  \/ MintNft
  \/ MarkNftMinted
  \/ ResumeVm

Spec == Init /\ [][Next]_vars

-----------------------------------------------------------------------------
\* The database, the counter, the nfts and the handler hold their kinds.
TypeOK ==
  /\ Scanner!TypeOK
  /\ nextVm \in 1..(MaxVms + 1)
  /\ DOMAIN vms \subseteq 1..(nextVm - 1)
  /\ \A v \in DOMAIN vms : vms[v] \in Entry
  /\ nfts \subseteq 1..(nextVm - 1)
  /\ job.step \in {"idle", "record", "mint", "mark", "resume"}
  /\ job.step # "idle" => job.vm \in DOMAIN vms

\* With the handlers' detail hidden, this is the scanner with its abstract
\* handlers: a handler records only the beacon it was handed, and removes
\* at most one entry.
ScannerSpec == Scanner!Spec

(***************************************************************************)
(* A beacon that already has a VM recorded under its name gets a second    *)
(* one only if an incomplete answer hid it from this process: neither the  *)
(* order of handlers nor a crash is enough.                                *)
(***************************************************************************)
SecondVmOnlyIfHidden ==
  [][\A v \in DOMAIN vms' \ DOMAIN vms :
       vms'[v].madeFor \in Recorded => vms'[v].madeFor \in missed]_vars

(***************************************************************************)
(* A VM never runs beyond what its subscriber has paid for: what the       *)
(* handlers credit in whole days, over creations, extensions and crashes,  *)
(* stays within the expiry of the subscription's datum, but for the days   *)
(* that were given for less than a day (handlers/index.ts:145-162), and by *)
(* no more than what a VM made too late was late (line 147).               *)
(***************************************************************************)
CreditedIsPaid ==
  \A v \in DOMAIN vms :
    vms[v].madeFor \in DOMAIN utxo =>
      vms[v].expiry <= utxo[vms[v].madeFor].expiry
                         + vms[v].late + DAY * vms[v].raised

(***************************************************************************)
(* The VM of a live subscription is destroyed only if the provider hid its *)
(* beacon from this process.                                               *)
(***************************************************************************)
LiveVmKept ==
  [][\A v \in DOMAIN vms \ DOMAIN vms' :
       vms[v].madeFor \in DOMAIN utxo => vms[v].madeFor \in missed]_vars

=============================================================================
