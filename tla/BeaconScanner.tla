--------------------------- MODULE BeaconScanner ---------------------------
(***************************************************************************)
(* The beacon scanner of the monitor (src/monitor/scanner.ts), the chain   *)
(* it polls through an unreliable provider, and the poll loop that hands   *)
(* each diff to the handlers before it scans again (src/monitor/index.ts). *)
(*                                                                         *)
(* JavaScript Maps are functions whose DOMAIN is the set of keys.  Time is *)
(* kept as ages: the code only ever compares now - t with a constant, so   *)
(* an age that stops at that constant loses nothing and keeps time itself  *)
(* unbounded.                                                              *)
(***************************************************************************)
EXTENDS Integers

CONSTANTS
  Beacons,           \* beacon names, unique per subscription
  Subscribers,       \* payment key hashes; one CIP-89 address each
  Owner,             \* the subscriber of a beacon
  VERIFY_INTERVAL,   \* VERIFY_INTERVAL_MS, in clock ticks
  CONFIRM_INTERVAL,  \* CONFIRM_INTERVAL_MS, in clock ticks
  CONFIRM_COUNT,
  Renewals,          \* bound: days a spend may add, 0 for ServiceCollect
  MaxRef,            \* bound: UTXOs one beacon lives in
  MaxRestarts        \* bound: restarts of the monitor

ASSUME ScannerAssumption ==
  /\ Owner \in [Beacons -> Subscribers]
  /\ VERIFY_INTERVAL \in Nat \ {0}
  /\ CONFIRM_INTERVAL \in Nat \ {0}
  /\ CONFIRM_COUNT \in Nat \ {0, 1}
  /\ Renewals \subseteq Nat
  /\ MaxRef \in Nat \ {0}
  /\ MaxRestarts \in Nat

VARIABLES
  utxo,         \* live beacon -> its UTXO (ref) and datum (expiry)
  minted,       \* beacons ever created on chain
  recorded,     \* beacons named by an entry of vms.json
  loaded,       \* _stateLoaded
  known,        \* knownSubscriptions
  pending,      \* pendingRemovals
  sinceVerify,  \* now - lastVerifyAt, up to VERIFY_INTERVAL
  diff,         \* what the last scan returned and no handler has taken yet
  restarts

\* History: the scanner never reads these.
VARIABLES
  sinceSeen,    \* time this process has gone without seeing the beacon
  missed        \* beacons an incomplete answer has hidden from this process

chainVars   == <<utxo, minted>>
scannerVars == <<loaded, known, pending, sinceVerify>>
historyVars == <<sinceSeen, missed>>
vars == <<chainVars, recorded, scannerVars, diff, restarts, historyVars>>

-----------------------------------------------------------------------------
Utxo == [ref : 1..MaxRef, expiry : Nat \ {0}]

\* TrackedSubscription: a placeholder's utxoRef and datum are sentinels.
Tracked == [ref : 0..MaxRef, expiry : Nat, placeholder : BOOLEAN]

PLACEHOLDER == [ref |-> 0, expiry |-> 0, placeholder |-> TRUE]

EmptyMap  == [b \in {} |-> b]
EmptyDiff == [created |-> EmptyMap, extended |-> EmptyMap, removed |-> EmptyMap]

Without(f, b) == [x \in DOMAIN f \ {b} |-> f[x]]

Older(age, limit) == IF age < limit THEN age + 1 ELSE age

\* The shortest time in which CONFIRM_COUNT spaced checks can be made.
ConfirmSpan == (CONFIRM_COUNT - 1) * CONFIRM_INTERVAL

Init ==
  /\ utxo = EmptyMap
  /\ minted = {}
  /\ recorded = {}
  /\ loaded = FALSE
  /\ known = EmptyMap
  /\ pending = EmptyMap
  /\ sinceVerify = VERIFY_INTERVAL
  /\ diff = EmptyDiff
  /\ restarts = 0
  /\ sinceSeen = [b \in Beacons |-> 0]
  /\ missed = {}

-----------------------------------------------------------------------------
(***************************************************************************)
(* The chain: a signup mints the beacon, a collection or an extension      *)
(* spends its UTXO and recreates it, a cancellation or final collection    *)
(* burns it.  A beacon name is salted with a block height: it never comes  *)
(* back.                                                                   *)
(***************************************************************************)
Subscribe(b) ==
  /\ b \notin minted
  /\ minted' = minted \cup {b}
  /\ utxo' = [x \in DOMAIN utxo \cup {b} |->
                IF x = b THEN [ref |-> 1, expiry |-> 1] ELSE utxo[x]]
  /\ UNCHANGED <<recorded, scannerVars, diff, restarts, historyVars>>

\* ServiceCollect adds no day, SubscriberExtend may.
Respend(b, days) ==
  /\ b \in DOMAIN utxo
  /\ utxo[b].ref < MaxRef
  /\ utxo' = [utxo EXCEPT ![b].ref = @ + 1, ![b].expiry = @ + days]
  /\ UNCHANGED <<minted, recorded, scannerVars, diff, restarts, historyVars>>

Burn(b) ==
  /\ b \in DOMAIN utxo
  /\ utxo' = Without(utxo, b)
  /\ UNCHANGED <<minted, recorded, scannerVars, diff, restarts, historyVars>>

-----------------------------------------------------------------------------
(***************************************************************************)
(* What a scan can see.  An HTTP error status from policy_asset_addresses  *)
(* leaves no holder at all, a failed fetchUtxos hides the address of one   *)
(* subscriber, a datum the answer leaves out hides one beacon: the live    *)
(* beacons may all be missing from an answer, or any of them.              *)
(***************************************************************************)
Answers == SUBSET DOMAIN utxo

\* loadKnownBeacons: once per process; an unreadable vms.json restores nothing.
Restored ==
  IF loaded THEN {known}
            ELSE {[b \in recorded |-> PLACEHOLDER], EmptyMap}

Observed(b) ==
  [ref |-> utxo[b].ref, expiry |-> utxo[b].expiry, placeholder |-> FALSE]

IsVerifyTime == sinceVerify >= VERIFY_INTERVAL

\* Mutant: a verification starts the count of a pending beacon again.
NewlyAbsentAgain(base, seen) == IF IsVerifyTime THEN DOMAIN base \ seen ELSE {}

NewlyAbsent(base, seen) ==
  IF IsVerifyTime THEN (DOMAIN base \ seen) \ DOMAIN pending ELSE {}

\* Mutant: every scan counts.
RecheckedEveryScan(base, seen) == (DOMAIN base \ seen) \cap DOMAIN pending

Rechecked(base, seen) ==
  {b \in (DOMAIN base \ seen) \cap DOMAIN pending :
      pending[b].sinceCheck >= CONFIRM_INTERVAL}

\* Mutant: the count is compared before this check is added to it.
ConfirmedOneLater(base, seen) ==
  {b \in Rechecked(base, seen) : pending[b].missCount >= CONFIRM_COUNT}

Confirmed(base, seen) ==
  {b \in Rechecked(base, seen) : pending[b].missCount + 1 >= CONFIRM_COUNT}

Extended(base, seen) ==
  {b \in seen \cap DOMAIN base :
      /\ ~base[b].placeholder
      /\ base[b].ref # utxo[b].ref}

\* Mutant: a placeholder counts as unknown.
CreatedFromPlaceholder(base, seen) ==
  {b \in seen : b \in DOMAIN base => base[b].placeholder}

Created(base, seen) == seen \ DOMAIN base

DiffOf(base, seen) ==
  [created  |-> [b \in Created(base, seen) |-> Observed(b)],
   extended |-> [b \in Extended(base, seen) |->
                   [old |-> base[b], new |-> Observed(b)]],
   removed  |-> [b \in Confirmed(base, seen) |-> base[b]]]

\* A beacon that is seen, or whose removal is confirmed, leaves the map.
PendingAfter(base, seen) ==
  [b \in (DOMAIN pending \ (seen \cup Confirmed(base, seen)))
           \cup NewlyAbsent(base, seen) |->
     IF b \in NewlyAbsent(base, seen)
     THEN [missCount |-> 1, sinceCheck |-> 0]
     ELSE IF b \in Rechecked(base, seen)
     THEN [missCount |-> pending[b].missCount + 1, sinceCheck |-> 0]
     ELSE pending[b]]

\* Mutant: a beacon seen for the first time is not kept.
KnownAfterUpdatesOnly(base, seen) ==
  [b \in (seen \cup DOMAIN PendingAfter(base, seen)) \cap DOMAIN base |->
     IF b \in seen THEN Observed(b) ELSE base[b]]

\* newKnown: what the scan saw and what is pending; the rest is forgotten.
KnownAfter(base, seen) ==
  [b \in seen \cup (DOMAIN PendingAfter(base, seen) \cap DOMAIN base) |->
     IF b \in seen THEN Observed(b) ELSE base[b]]

\* scanBeacons, when policy_asset_addresses answers.
Scan(seen) ==
  /\ diff = EmptyDiff
  /\ \E base \in Restored :
       /\ diff' = DiffOf(base, seen)
       /\ pending' = PendingAfter(base, seen)
       /\ known' = KnownAfter(base, seen)
       /\ missed' = missed \cup (DOMAIN utxo \ seen)
                      \cup (IF loaded THEN {} ELSE recorded \ DOMAIN base)
  /\ loaded' = TRUE
  /\ sinceVerify' = IF IsVerifyTime THEN 0 ELSE sinceVerify
  /\ sinceSeen' = [b \in Beacons |-> IF b \in seen THEN 0 ELSE sinceSeen[b]]
  /\ UNCHANGED <<chainVars, recorded, restarts>>

ScanPartial  == \E seen \in Answers : Scan(seen)
ScanComplete == Scan(DOMAIN utxo)

\* scanBeacons, when the fetch throws: loadKnownBeacons has run, and nothing
\* else changes (on a process that has loaded, nothing at all).
ScanThrows ==
  /\ diff = EmptyDiff
  /\ ~loaded
  /\ known' \in Restored
  /\ missed' = missed \cup (recorded \ DOMAIN known')
  /\ loaded' = TRUE
  /\ UNCHANGED <<chainVars, recorded, pending, sinceVerify, diff, restarts, sinceSeen>>

-----------------------------------------------------------------------------
(***************************************************************************)
(* The poll loop awaits one handler at a time: created, then extended,     *)
(* then removed.  Here a handler is only what it may do to vms.json;       *)
(* Provisioning refines it.                                                *)
(***************************************************************************)
\* A provisioned VM is recorded under its beacon, unless a step before
\* update-fields, or update-fields itself, failed.
HandleCreated(b) ==
  /\ b \in DOMAIN diff.created
  /\ diff' = [diff EXCEPT !.created = Without(@, b)]
  /\ recorded' \in {recorded, recorded \cup {b}}
  /\ UNCHANGED <<chainVars, scannerVars, restarts, historyVars>>

HandleExtended(b) ==
  /\ diff.created = EmptyMap
  /\ b \in DOMAIN diff.extended
  /\ diff' = [diff EXCEPT !.extended = Without(@, b)]
  /\ UNCHANGED <<chainVars, recorded, scannerVars, restarts, historyVars>>

\* lookupVmName: by beacon, else by subscriber (a placeholder has none).
RemovalTargets(b, entry) ==
  IF b \in recorded THEN {b}
  ELSE IF entry.placeholder THEN {}
  ELSE {c \in recorded : Owner[c] = Owner[b]}

HandleRemoved(b) ==
  /\ diff.created = EmptyMap
  /\ diff.extended = EmptyMap
  /\ b \in DOMAIN diff.removed
  /\ diff' = [diff EXCEPT !.removed = Without(@, b)]
  /\ recorded' \in {recorded} \cup
       {recorded \ {c} : c \in RemovalTargets(b, diff.removed[b])}
  /\ UNCHANGED <<chainVars, scannerVars, restarts, historyVars>>

-----------------------------------------------------------------------------
Tick ==
  /\ sinceVerify' = Older(sinceVerify, VERIFY_INTERVAL)
  /\ pending' = [b \in DOMAIN pending |->
       [pending[b] EXCEPT !.sinceCheck = Older(@, CONFIRM_INTERVAL)]]
  /\ sinceSeen' = [b \in Beacons |-> Older(sinceSeen[b], ConfirmSpan)]
  /\ UNCHANGED <<chainVars, recorded, loaded, known, diff, restarts, missed>>

\* The process dies, in a handler or between two, and is started again:
\* every module-level variable of scanner.ts is back to its initial value.
Restart ==
  /\ restarts < MaxRestarts
  /\ restarts' = restarts + 1
  /\ loaded' = FALSE
  /\ known' = EmptyMap
  /\ pending' = EmptyMap
  /\ sinceVerify' = VERIFY_INTERVAL
  /\ diff' = EmptyDiff
  /\ sinceSeen' = [b \in Beacons |-> 0]
  /\ missed' = {}
  /\ UNCHANGED <<chainVars, recorded>>

Next ==
  \/ \E b \in Beacons :
       \/ Subscribe(b)
       \/ \E days \in Renewals : Respend(b, days)
       \/ Burn(b)
       \/ HandleCreated(b)
       \/ HandleExtended(b)
       \/ HandleRemoved(b)
  \/ ScanComplete
  \/ ScanPartial
  \/ ScanThrows
  \/ Tick
  \/ Restart

Spec == Init /\ [][Next]_vars

(***************************************************************************)
(* The poll loop never stops, every handler it awaits returns (runCommand, *)
(* handlers/index.ts:205, has no timeout: the commands it runs are assumed *)
(* to end), the clock advances, and the provider answers in full           *)
(* infinitely often.  Nobody is obliged to subscribe, spend or burn.       *)
(***************************************************************************)
Fairness ==
  /\ WF_vars(Tick)
  /\ SF_vars(ScanComplete)
  /\ \A b \in Beacons :
       /\ WF_vars(HandleCreated(b))
       /\ WF_vars(HandleExtended(b))
       /\ WF_vars(HandleRemoved(b))

FairSpec == Spec /\ Fairness

-----------------------------------------------------------------------------
\* Every variable holds a value of its kind; a pending beacon has been missed
\* at least once, and not yet CONFIRM_COUNT times.
TypeOK ==
  /\ minted \subseteq Beacons
  /\ DOMAIN utxo \subseteq minted
  /\ \A b \in DOMAIN utxo : utxo[b] \in Utxo
  /\ recorded \subseteq Beacons
  /\ loaded \in BOOLEAN
  /\ DOMAIN known \subseteq Beacons
  /\ \A b \in DOMAIN known : known[b] \in Tracked
  /\ DOMAIN pending \subseteq Beacons
  /\ \A b \in DOMAIN pending :
       pending[b] \in [missCount  : 1..(CONFIRM_COUNT - 1),
                      sinceCheck : 0..CONFIRM_INTERVAL]
  /\ sinceVerify \in 0..VERIFY_INTERVAL
  /\ diff = [created |-> diff.created, extended |-> diff.extended,
              removed |-> diff.removed]
  /\ DOMAIN diff.created \subseteq Beacons
  /\ DOMAIN diff.extended \subseteq Beacons
  /\ DOMAIN diff.removed \subseteq Beacons
  /\ restarts \in 0..MaxRestarts
  /\ sinceSeen \in [Beacons -> 0..ConfirmSpan]
  /\ missed \subseteq Beacons

(***************************************************************************)
(* A beacon on its way out is still known, has been missed at least once   *)
(* and not yet CONFIRM_COUNT times, and has gone unseen for as long as     *)
(* that many spaced checks take: what the confirmation in scanBeacons      *)
(* (lines 316-343) keeps true between two scans.                           *)
(***************************************************************************)
PendingSound ==
  \A b \in DOMAIN pending :
    /\ b \in DOMAIN known
    /\ pending[b].missCount \in 1..(CONFIRM_COUNT - 1)
    /\ sinceSeen[b] >= (pending[b].missCount - 1) * CONFIRM_INTERVAL
                         + pending[b].sinceCheck
       \/ sinceSeen[b] = ConfirmSpan

(***************************************************************************)
(* Header of scanner.ts: a REMOVED event is emitted only for a beacon that *)
(* no scan of this process has seen for the time CONFIRM_COUNT checks at   *)
(* CONFIRM_INTERVAL take, whatever the provider hid in between.            *)
(***************************************************************************)
RemovedOnlyAfterSustainedAbsence ==
  [][\A b \in DOMAIN diff'.removed \ DOMAIN diff.removed :
       sinceSeen[b] >= ConfirmSpan]_vars

(***************************************************************************)
(* A beacon with an entry in vms.json is not announced as new again, so    *)
(* its subscriber gets no second VM, as long as no incomplete answer hid   *)
(* it from this process: restarts alone never cause a second creation.     *)
(***************************************************************************)
RecordedNeverRecreated ==
  [][\A b \in DOMAIN diff'.created \ DOMAIN diff.created :
       b \in recorded => b \in missed']_vars

\* A live beacon the scanner does not know is found, or burned before it is.
LiveIsFound ==
  \A b \in Beacons :
    (b \in DOMAIN utxo /\ b \notin DOMAIN known)
      ~> (b \in DOMAIN known \/ b \notin DOMAIN utxo)

\* A pending removal is decided: confirmed, or cancelled by a reappearance.
PendingIsDecided ==
  \A b \in Beacons : b \in DOMAIN pending ~> b \notin DOMAIN pending

=============================================================================
