# A TLA+ model of blockhost-engine-cardano

The engine sells virtual machines on the Cardano chain. A subscriber locks
funds in a validator and mints a *beacon* token; a monitor process polls the
chain, provisions a VM for every new beacon, extends it when the subscription
is extended, destroys it when the beacon is gone, collects the fees earned and
obeys commands an administrator puts into transaction metadata. This directory
holds TLA+ modules of that behaviour, TLC configurations that check them on
small instances, and proofs checked by TLAPS. Paths below are those of the
repository.

## Inventory

| Component | State it keeps | Operations | What makes it correct |
|---|---|---|---|
| Beacon scanner `src/monitor/scanner.ts` | `knownSubscriptions`, `pendingRemovals`, `lastVerifyAt`, `_stateLoaded`, all in memory | `scanBeacons`, `loadKnownBeacons` | a removal only after a sustained absence; nothing provisioned is announced again; extensions computed from a real older datum; live beacons are found |
| Poll loop `src/monitor/index.ts` | `running`, `lastReconcile`, `lastAdminScan` | `poll`, shutdown | handlers of one scan end before the next scan |
| Subscription handlers `src/handlers/index.ts` | none; they write `vms.json` through the `blockhost-vmdb` CLI, the provisioner and the NFT script | created, extended, removed | one VM per subscription, never beyond what is paid, never destroyed while the subscription lives |
| Counter `src/state/counter.ts` | counter file, `.lock` file | `allocateCounter` | mutual exclusion between processes, increasing values, no waiting for ever |
| Admin commands `src/admin/index.ts`, `nonces.ts` | nonce store in memory and on disk | scan, validate, mark, dispatch, prune | a command runs at most once, in order, and is not overlooked |
| Knock `src/admin/handlers/knock.ts` | `activeKnocks`, `/run/blockhost/knock.active`; the firewall behind the root agent | execute, transition, close, heartbeat, auth log | every rule opened is closed; after a login only that address is let in; every knock ends |
| Root agent client `src/root-agent/client.ts`, `root-agent-actions/` | none | one call per request, 300 s of silence time it out; neither the end nor the closing of the connection is handled (`client.ts:17-71`) | answers or fails |
| Reconciler `src/reconcile/index.ts` | `reconcileInProgress`; VM entries | three passes over the VMs | the database and the guests follow the owner of the NFT |
| Fund manager `src/fund-manager/` | `fundCycleInProgress`, state file with the last runs, addressbook | fund cycle in five steps, collateral check | no cycle during provisioning, one cycle per interval, no step spends what another needs |
| Validators `validators/` | the datum of a subscription UTXO | ServiceCollect, SubscriberCancel, SubscriberExtend, Migrate | the service never earns more than time has, the subscriber gets the rest |
| `bw` CLI `src/bw/` | none | withdraw, send, split, set, plan, cleanup, balance, who, config, swap | transactions satisfy the validators |
| `ab` CLI `src/ab/` | addressbook through the root agent | add, del, up, new, init, list | no update lost, immutable roles kept |
| `is` CLI, `bhcrypt`, datum codec, signup page, `mint_nft`, `deploy-contracts`, `keygen`, `wizard.py`, packaging | none, or a one-shot run | | outside of the models, see below |

How they interact: the poll loop calls the scanner, then awaits one handler
per entry of the diff, then the admin scan, the reconciliation, the fund cycle
and the collateral check. The scanner reads `vms.json` once per process; the
handlers, the reconciler and operators write it. The admin scan awaits the
knock handler, whose timers fire later, between the awaits of anything else.
The counter is shared by the monitor, the mint script it spawns and `bw plan`.
All root privileges go through the root agent.

What is hard: the chain provider is unreliable and its partial answers look
like removals; the whole scanner is forgotten in a restart while `vms.json`
and the chain are not; a handler is a sequence of awaited external calls and
the process can die between any two (`PROJECT.json` lists the hazards at their
lines).

## Modules

| Module | Models | Abstract or detailed |
|---|---|---|
| `BeaconScanner` | chain, provider, scanner, poll loop; a handler is only what it may do to `vms.json` | abstract specification of the handlers |
| `Provisioning` | the handlers call by call, `vms.json`, the counter, composed with `BeaconScanner` by `Scanner == INSTANCE BeaconScanner WITH recorded <- Recorded` | implements `BeaconScanner!Spec` (`ScannerSpec`) |
| `CounterLock` | `allocateCounter`, one action per system call | |
| `AdminCommands` | admin transactions, scan, nonce store, crash | |
| `Knock` | the knock handler, one action per awaited call to the root agent | |
| `SubscriptionEscrow` | the spending validator and the collections of `bw withdraw`, racing with what subscribers do | |
| `Addressbook` | `addressbook.json` and the wallet keys, edited by `ab` processes and the fund cycle without a lock | |
| `Reconciler` | owner, GECOS and network configuration of VMs whose NFTs change hands, from the last steps of the creation through the passes of `runReconciliation` | |
| `FundCycle` | the fund cycle step by step, the collateral check, their state file, pending transactions | |
| `BeaconScannerProofs`, `ProvisioningProofs`, `CounterLockProofs`, `AdminProofs` (`AdminCommands` and `Knock`), `SubscriptionEscrowProofs`, `AddressbookProofs`, `ReconcilerProofs`, `FundCycleProofs` | theorems and their proofs | |
| `MCBeaconScanner`, `MCProvisioning`, `MCKnock`, `MCFundCycle` | values of the constants for TLC | |

### BeaconScanner

`known`, `pending`, `sinceVerify` and `loaded` are the four module variables
of `scanner.ts`; a JavaScript `Map` is a function on its keys. `utxo` is the
chain: the live beacons, for each the UTXO it sits in (`ref`, counted up by
every spend) and the expiry of the datum. `Scan(seen)` is one call of
`scanBeacons` that gets to see the beacons in `seen`: it restores from
`vms.json` the first time, computes the diff (`DiffOf`), the pending removals
(`PendingAfter`) and the rebuilt map (`KnownAfter`), in the order of the code.
Any subset of the live beacons may be seen (`Answers`): an HTTP error status
leaves an empty list of holders, a failed `fetchUtxos` an empty address, and
the datum of one UTXO may be missing. `diff` holds what the handlers have
still to take; the guards of the three handler actions are the order of the
loops of `poll`. The code reads several answers at different moments; the model
reads the chain at one. Beacons do not influence each other in a scan, and each
beacon is read once, so the set seen is one the model's `Answers` contains at
the moment of the last read, up to beacons created or burned during the scan,
which the subset choice covers on one side and the next scan on the other.

Time is kept as ages, capped where the code's comparison no longer changes, so
that it needs no bound of its own. `sinceSeen` and `missed` are history: the
time a beacon has gone unseen, and the beacons an incomplete answer or an
unreadable `vms.json` has hidden from this process. A provider that goes back
to an older block is not modelled.

### Provisioning

`vms` is `vms.json`, reduced to beacon, NFT mark, day of expiry, and, as
history, the beacon the VM was made for. `job` is where the awaited handler is;
it is part of `poll`, so nothing but the chain, the clock and a crash moves
while it is not idle. `CreateVm` is the counter and the create command,
`RecordBeacon` is `update-fields`, `MintNft` the mint script, `MarkNftMinted`
the last step; `AbortCreated` and `GiveUp` are the early returns. Extension and
removal look the VM up by beacon and fall back to the owner, as `lookupVmName`
does. The expiry of a datum is counted in parts of a `DAY`, and what is credited
in whole days and at least one, by `calculateExpiryDays` from the moment the VM
is made and by `calculateAdditionalDays` from the delta: a remainder below a day
is lost at every step and less than a day counts as a day. `CreateVm` may come
at any of the moments in `Delays` after the signup, before or after the expiry:
an expiry that has passed is credited a day from the moment the VM is made
(`handlers/index.ts:147`). `raised` is history, the number of times less than a
day was credited as one, and so is `late`, by how much the VM was made after its
expiry. What happens in the guest is in `Reconciler`; the power state of a VM is
left out.

### CounterLock

One action per system call, since another process may run between any two.
`Wake` lets a waiter try again at any time: the holder it lost to may still be
at work, stopped for longer than the retries take, so after `MAX_RETRIES`
attempts `ForceUnlink` takes the lock of a live holder, and `ForceOpen` goes on
without one where another process was faster. That is the "small
race-on-recovery" `counter.ts:9` accepts. `race` is history: it is on while a
process whose lock was taken, or that has none, shares the critical section,
and over when the last of those at work has left. `lost` is history as well:
the number in the file could not be read, or a process died or failed between
the truncation and the write. In a race two numbers of different length could
be written over each other; the file is one number or empty here.

### AdminCommands

A transaction is its nonce, or 0 if it carries no usable command. Anybody may
pay the admin address and copy an old command. `StartScan` prunes and fetches
the newest `COUNT` transactions, newest first; the other actions look at one
transaction each. Saving and loading may fail (`MaxFaults`), the process may
die anywhere.

### Knock

A function that awaits the root agent is a record in a bag (`tasks`), so the
same transition may be under way twice. `rules` is what the root agent has
open, as a set: two knocks that open the same port for the same source share
the rule, and closing it once closes it (the agent is outside of this
repository). A call can fail with or without effect; `closePort` swallows the
error, `openPort` throws. `AgentHangsUp` is an agent that closes the connection
without an answer: `callRootAgent` then neither resolves nor rejects, and the
function that awaits it stays where it is. A transition is awaited by nobody
and just disappears; `stuck` holds the others, which keep their callers from
going on: `executeKnock` the poll loop (no later knock), `closeKnock` its
knock in the map, `closeAllKnocks` the knocks that are left. `raced` is
history: knocks closed or narrowed while a
transition was awaiting. The specification's names carry the prefix `Knock`
(`KnockSpec`, `KnockTypeOK`) so that `AdminProofs` can extend `AdminCommands`
as well.

### SubscriptionEscrow

`sub[s]` is the UTXO of a subscription: `value` is what the output holds of the
payment asset, `amount` and `last` are `amount_remaining` and `last_collected`
of its datum, `ref` tells one output from the next. Two programs compute the
same numbers: `ElapsedIntervals`, `ClaimableAmount` and `ServiceCollect` are
`subscription.ak`, `Intervals`, `IsClaimable`, `CollectAmount` and `Continuing`
are `withdraw.ts`; neither is defined by the other. `Withdraw(answered)` is
`executeWithdraw` up to the submission, for the addresses whose UTXOs the
provider returned; the transaction then waits in `pool` with the UTXOs it
spends (`spent`) as they were read. `Include` is the block that takes it, if
its inputs are unspent and every input's script agrees (`Accepted`), `Drop` the
failure that `withdraw.ts` throws. The order of the outputs matters only for
which is the first at each address (`firsts`), since `find_continuing_output`
takes that one. The lower bound a script sees is the start of a slot, while
`withdraw.ts` counts in milliseconds. `Extend`, `Cancel` and `Migrate` are what
the validator lets pass; the repository has no program that builds them.
`Cancel` may state any lower bound that is not in the future, as in the code.

What the code does not enforce is not assumed. The minting policy
(`beacon.ak:21-47`) looks at neither the datum nor the value, so `Subscribe`
may lock less than the datum says (`Covered`); `withdraw.ts` puts such an
output into its batches and `subscription.ak:133` refuses them, the other
subscriptions in them included (`Jammed`). `SubscriberExtend` (187-209) does not
ask for the beacon, so an extended UTXO may be without one, and is then never
collected again. The comment at 135 says a cancellation burns the beacon; the
code (136-184) asks for the two payments only. In the model a beacon leaves
with its output; where it goes afterwards is not followed. The other terms of a
datum are those of the signup page: one rate, one interval. A datum with
interval 0 makes `elapsed_intervals` and `withdraw.ts` divide by zero, which
would jam a batch just as well.

Payments are in one asset. `executeWithdraw` adds up the amounts of a batch
whatever their assets and pays them in the first one's (264-280). With ADA
first the payout is wrong; with a token first the transaction asks for more of
that token than its inputs hold and cannot be balanced, so nothing is collected
while the mix is mature. Neither is modelled. Signatures, the expiry
field, the minimum ADA of an output and transactions with several cancellations
or migrations are left out. The history variables are the books of each
subscription: `paid`, `collected`, `returned`, and `created`.

### Addressbook

The book is a function from roles to entries. A command is two steps: what it
reads (`Loads`: the file with the entries dropped whose address is not valid,
or nothing if it cannot be read) fixes the copy it will write, and `Save` is
the moment the root agent replaces the file with it; between the two anything
may happen. `EnsureHotWallet` is `ensureHotWallet` of the fund cycle, with its
three cases (no key: generate, key: derive the address again, torn key: it
throws). `unseen` is history: the roles whose entry a process holds a wrong
copy of. `New` is what `ab new` does: the key is generated and the command
ends, so the book never gets the entry although `docs/cli.md:89,95` describes
one (`ab/index.ts:8,41` says the root agent adds it, which `wallet.py` of this
repository does not do). Which characters a name may have is left out:
`ab new` accepts names that `wallet.py:17` refuses, which is one more way for
`GenerateFails`.

`NoAnswer` is a call of the monitor that is not answered: it times out, or the
agent hung up and the monitor waits for ever (`Hung`). In both cases the agent
may still do what it was asked, at any later moment, so the request goes on as
that of an idle `ab` process; a client that gives up is for the book no
different from one that is slow. `Generates` assumes that the address the root
agent returns is the one `ensureHotWallet` derives from the same key later:
`wallet.py:31` takes the network from `CARDANO_NETWORK` and `preprod` if that is
not set, `addressbook.ts:77-78` from the configuration, and the model has one
network. `HotIsKeys` is about the key an entry belongs to.

### Reconciler

`entry` is an entry of `vms.json` reduced to status, owner, NFT mark and the
two synced flags; `gecos` and `config` are in the guest, `holder` is on chain.
The poll loop awaits handler and reconciler, so `turn` is one program counter
for both: first the steps of `handleSubscriptionCreated` that touch the guest,
then passes 1 and 3 VM by VM, one action per call. Every call may fail with or
without effect, a stopped VM fails every call of the guest, and NFTs move and
VMs are suspended or destroyed between any two. The owner recorded at creation
is a payment key hash and the holder the chain reports is an address: they
never compare equal, so the first pass always rewrites the owner, and it is
this that retries a GECOS write of the handler that failed.
`docs/reconciler.md:41` has pass 2 set `nft_minted`; the code has no such
write, so a VM whose `mark-nft-minted` failed is visited by no owner pass
(`entry[v].token` in the properties). If the owner write of a transfer fails
and the NFT returns before the next pass, the guest keeps the address of the
holder in between (`lost`): `reconcile/index.ts:231` only logs the failure and
`:112` updates the guest regardless. `lastReconcile` is in memory and starts at
the time of the start (`monitor/index.ts:224`): a monitor restarted more often
than hourly never reconciles; `FairSpec` assumes it runs longer. A write of the
VM database is one step here; `updateOwnerInDb` (`:217-221`) reads the entry and
saves it in one script that takes no lock visible in this repository, and a
writer in between is not modelled.

### FundCycle

`balance` is what confirmed outputs hold, `pool` the transactions submitted:
every step of a cycle reads the former while its predecessors wait in the
latter, which is what `Unspent` and `Sends` are about. `cached` and `file` are
`FundManagerState` in memory and on disk, as ages. `StartCycle` includes the
cycle that ends at once since a VM is being made or the book is empty
(`index.ts:125`): it goes through `Finish` and uses up its interval, while the
check of the poll loop itself (`monitor/index.ts:65`) does not and is the time
`StartCycle` simply waits. `SendShare` follows `distribution.ts` to the letter:
a recipient that does not resolve is passed over, the last one gets what is
left, a share that could not be sent counts as distributed.
`Tick` is an hour: whatever is due and not deferred has been done by then, and
transactions are in a block or lost. `Roles` are the names a share file uses.
The parts of a share file are natural numbers here; `loadRevenueShareConfig`
does not look at single parts and would take a negative or broken one, as long
as they add up to the total.

What the model shows beyond its properties: the revenue share is taken of the
whole balance of the hot wallet, which includes gas that was topped up and what
an earlier cycle could not send; the share of a recipient that
is missing goes to the last one; the remainder is the whole balance, so whether
it can be sent depends on how the transaction library takes the fee; the
tokens step 5 of `docs/fund-manager.md` sends to the admin are not sent;
`min_withdrawal_lovelace` is loaded and not used.

## Runs

| Run | Expect | What it shows |
|---|---|---|
| `scanner` | pass | two beacons, a restart, `CONFIRM_COUNT` 3: `RemovedOnlyAfterSustainedAbsence`, `RecordedNeverRecreated`, and under `FairSpec` `LiveIsFound`, `PendingIsDecided` |
| `provisioning` | pass | one beacon, three UTXOs, two restarts: `CreditedIsPaid`, `ScannerSpec` (refinement), `SecondVmOnlyIfHidden`, `LiveVmKept` |
| `provisioning_shared` | violation | the end of one subscription destroys another VM of the same owner (`LiveVmKept`) |
| `admin` | pass | `RunsInOrder`, `NewestIsAccepted` with copies, pruning, a crash and a file fault |
| `knock` | pass | two knocks, a login, a call that fails or is hung up on, a restart: `RulesAccountedFor`, `NarrowedAfterLogin`, `KnockEnds` |
| `knock_transition` | violation | the timeout during a transition leaves a rule open for ever (`OpenedTemporarily`) |
| `counter` | pass | three processes, forced takeovers of live and dead holders and a fault: `Exclusive`, `IncreasingUnlessRace`, `AllocationEnds` |
| `escrow` | pass | two subscriptions, funded or not, addresses shared or not, a pending collection: `NeverAheadOfTime`, `Accounted`, `WithdrawAccepted`, and under `FairSpec` `MatureIsCollectedUnlessJammed` |
| `escrow_shared` | violation | two mature subscriptions at one address, both funded: every batch is rejected (`MatureIsCollected`) |
| `addressbook` | pass | two `ab` processes, the fund cycle and a call that fails or is not answered: `HotIsKeys`, `NothingElseChanges`, and under `FairSpec` `HotIsRestored` |
| `reconciler` | pass | two VMs, two transfers, two faults: `SyncedMeansGecos`, and under `FairSpec` `GuestIsBroughtUpToDate` |
| `fund_cycle` | pass | a collection, a fault, a restart: `SharesAsConfigured`, `CyclesSpaced`, and under `FairSpec` `WorkGoesOn` |

Every passing run also checks the `TypeOK` of its module (`KnockTypeOK`). The
violations are the findings of `PROJECT.json`: each states what a comment of the
code says, and TLC's trace is what the code does instead. The passing properties
name the excuse where one is needed: `RecordedNeverRecreated`,
`SecondVmOnlyIfHidden` and the passing `LiveVmKept` exclude beacons the provider
hid, `RunsInOrder` file faults, `NewestIsAccepted` a command after which others
were sent, `Exclusive` the time of a race and `IncreasingUnlessRace` a race and
a lost number, `RulesAccountedFor` and `NarrowedAfterLogin` failed calls,
restarts and knocks closed or narrowed during a transition, `KnockEnds` a close
that the agent hangs up on, `MatureIsCollectedUnlessJammed` a shared address and
an output that lacks its balance, `NothingElseChanges` entries that were read
too early or not at all, `HotIsRestored` a torn key, an empty book and a monitor
that is hung up on, `SyncedMeansGecos` a lost owner write, `CyclesSpaced` a
cycle cut short and a state file that could not be written or read,
`CreditedIsPaid` the days given for less than a day and the delay of a VM made
after its expiry. They say that nothing *else* goes wrong.

The excuses stand for behaviour of the code too. One incomplete answer between
two verifications makes the scanner forget a live beacon (`scanner.ts:349`, the
map rebuilt without the absent beacons) and announce it as new with the next
answer: a second VM. By the same line a beacon burned between two
verifications is never reported as removed. A VM whose `update-fields` failed
is not recognised after a restart and its beacon gets another
(`handlers/index.ts:420-421` expects the provisioner to skip the existing VM,
but the VM of the second event has a new name). A
counter file that cannot be read, or that was emptied by a process that died
before it wrote, starts again at 1; any other crash keeps the numbers in order.
A command that others' payments push out of the window of five transactions is
never seen. One underfunded output stops the collection of all that share its
batches. Of two commands sent before one scan the older
never runs, since accepting the newer one rejects it.

Deadlock checking is off in every configuration: all of them bound the number
of transactions, restarts or allocations, and the bounded system stops when
they are used up. `FairSpec` states what must not stop.

### Bounds

* In `provisioning` a day is two units and a VM is made one or two units after
  the signup; a signup lasts one unit and a renewal three, so both calculations
  round down and up and a VM is made before, at and after its expiry.
* Two beacons in `scanner`: a scan treats each by itself, and two are needed
  for the order of the handlers; `provisioning` has one with a longer history
  and `provisioning_shared` two with a common owner. `MaxRef` 3 in
  `provisioning` allows two extensions, so a delta on top of a delta;
  `Renewals` there includes 0, a collection that adds no day.
* `CONFIRM_COUNT` 3 makes the first miss, one counted and the confirming one
  distinct (the code has 3), in `scanner` `VERIFY_INTERVAL` equals the
  confirmation span, so a verification falls into a confirmation; in
  `provisioning` both are 1.
* One restart in `scanner`, two in `provisioning`: a second crash during the
  repetition of what the first crash interrupted.
* Three transactions, three nonces, a window of two and a pruning age of one
  in `admin`: every command can fall out of the window and out of the seen set.
* In `knock` one port, since rules of different ports do not meet; two tasks
  at once cover every pair of functions; source filters may be none or the
  address somebody logs in from, the case where both phases share a rule.
* Three processes in `counter`: a holder, one that forces, one that is faster;
  two attempts, so a waiter fails, sleeps and forces; four allocations, so one
  more comes after a race of three.
* In `escrow` an interval is two ticks and so is a slot, so that a bound in the
  second half of a slot loses an interval; the clock allows two intervals,
  and a top-up (`MaxRef` 2: one, of a UTXO nobody has collected from) makes a
  deposit of one interval last for two. `GRACE` is 0 and one collection is pending at a
  time; the theorems hold for any of these. `MAX_BATCH` covers both subscriptions: that
  a larger number starves the last ones is a listed hazard without a property.

* In `addressbook` two `ab` processes and the monitor hold copies at once;
  three commands are one more than it takes to write a stale copy back over
  another's. One fault is a failed read, save or key generation, torn or not.
* In `reconciler` two VMs, since a pass that is cut short leaves one visited;
  two transfers allow an NFT to return to the wallet the entry names, two
  faults a failed write and a failed retry.
* In `fund_cycle` the amounts are a few ADA chosen so that each step is
  sometimes due and sometimes cannot be paid; the share files are one that
  divides with a remainder and one that does not add up. `Interval` 2 tells a
  fund cycle from the hourly collateral check; one fault and one restart with
  cycles before, between and after them.

### Fairness

`BeaconScanner`: weak fairness of the clock and of each handler (the loop awaits
them; holders and the VM database are asked with a timeout, but `runCommand`,
`handlers/index.ts:205-219`, has none, so that the provisioner and the mint
script end is an assumption, as it is for the queries of the provider library),
strong fairness of a complete scan: complete answers keep coming, though not
every time. The chain and restarts owe nothing. `AdminCommands`: the loop goes
on, a list of transactions arrives, and a valid command is not denied its
metadata for ever (strong fairness of `AcceptTransaction`). `Knock`: a call the
root agent does not hang up on is answered or times out, timers fire, and no
session sends heartbeats for ever; without the last a knock may rightly stay
open. `CounterLock`: a process that runs goes on. `SubscriptionEscrow`: time
passes, a pending transaction is taken or dropped, and the fund cycle's calls of
`executeWithdraw` now and then get an answer for every address (strong fairness
of `Withdraw(Addresses)`); subscribers owe nothing. `Addressbook`: the monitor
starts a fund cycle every interval and its calls return unless the agent does
not answer (`NoAnswer`); operators owe nothing. `Reconciler`: its calls have a
timeout (the handler's `runCommand` is assumed to end) and passes start hourly;
NFTs, faults and operators are bounded, not fair. `FundCycle`: the loop goes
round, time passes, blocks are made, and the loop does not find a VM being made
*every* time a cycle is due (strong fairness of `StartCycle`).

## Proofs

For every value of the constants allowed by the named assumptions:

* `BeaconScannerProofs`: `TypeCorrect`; `PendingSoundAlways`;
  `RemovalIsSustained`; `RecordedIsNotRecreated`. `PendingSound` is the
  inductive core: the age of a pending beacon is at least what its count of
  misses took, or has reached the cap. It is strengthened (`PendingInv`) with
  what ties the pending map to a loaded process. The arithmetic of one more
  check is the lemma `OneMoreCheck`, and `ConfirmedIsUnseen` draws the
  conclusion a removal needs. `RecordedInv` says that a live recorded beacon is
  known or was hidden and that what is announced is known, since a handler
  records only that. `ReportInv` adds what a report of a removal or an
  extension carries, for the proofs of `Provisioning`.
* `ProvisioningProofs`: `ImplementsScanner`, `TypeCorrect`,
  `SecondVmIsHidden`, `LiveVmIsKept`, `CreditIsPaid`. The refinement goes step
  by step: every call of a handler is a stutter of the abstract scanner except
  the one that writes the beacon of a new VM, the one that destroys the last VM
  of a beacon, and the one that takes an event. `HandlerInv` ties the awaited
  handler to the event it took. With the refinement the theorems of
  `BeaconScannerProofs` hold of the composed system, by instantiation.
  `LiveVmIsKept` and `CreditIsPaid` assume `OneSubscriptionEach`, that no
  subscriber owns two subscriptions: without it they are false, which is the
  run `provisioning_shared`. `CreditInv` bounds a VM's expiry by what was paid
  up to the event the handlers have reached, counting a raised day
  each and, once, what the VM was made too late.
* `CounterLockProofs`: `TypeOKAlways`, `ExclusiveAlways`, `IncreasingAlways`,
  for any number of processes, retries, allocations and faults, and with no
  assumption on how long a holder is at work. `LockInv` has two halves: whoever
  the lock file is of is at work, always, and whoever is at work has the lock
  file, unless there is a race. A takeover of a live holder breaks the second;
  the first is what restores it when the last of the race leaves (`LeaveStep`).
  `ValueInv` relates the number read, the file and the numbers handed out at
  every step of a holder that may die there.
* `AdminProofs`, about `Knock`: `KnockTypeCorrect`, `OwnersAlways`, and from it
  `RulesAccountedForAlways` and `NarrowedAfterLoginAlways`, for any number of
  knocks, ports and logins. `RulesAccountedFor` says only that somebody knows
  the filter of a rule; the invariant says who will close it (`OwnersInv`): the
  knock whose *current* filter the rule carries, as long as no function has
  taken its port already, or the function that opened it. It needs
  `TaskInv`: without a race a function that opens or narrows is the only one of
  its knock, and a knock that is being closed neither polls nor watches the
  log. The attempt to prove `NarrowedAfterLogin` as it was first stated failed
  for a reason: the rule of phase 1 may also be that of another knock whose
  *login* came from this knock's filter address, which takes two addresses to
  happen.
* `AdminProofs`, about `AdminCommands`: `TypeCorrect`, `OrderIsKept`, from which
  `RunsInOrderAlways` and `MarkedBeforeRunAlways`. `RunsInOrder` is not
  inductive: `OrderInv` adds that memory and disk agree on the highest nonce
  while the process is loaded, and that the awaited command is above all that
  ran and not above the mark on disk.
* `SubscriptionEscrowProofs`: `TypeCorrect`, `NeverAheadOfTimeAlways`,
  `AccountedAlways`, `WithdrawAcceptedAlways`, for any rate, interval, slot,
  grace, batch size and number of pending collections. The invariant has two
  layers. `TypeInv` adds to the types that a pending collection was built from
  claimable UTXOs. That an output covers its balance is not invariant, since the
  minting policy does not ask for it; what the validator accepts keeps or
  restores it (`OutputCovers`). `BooksInv` adds for each subscription the number
  n of intervals that were charged: `last` is creation plus n intervals and not
  in the future, and at most n times the rate was collected. `NeverAheadOfTime`
  alone is not inductive, since it does not say where `last` is. `CollectFacts`
  and `ClaimFacts` are the arithmetic of the two programs, `SameNumbers` says
  that they agree.

* `AddressbookProofs`: `TypeCorrect`, `HotIsKeysAlways`,
  `NothingElseChangesAlways`, for any number of processes, roles and commands.
  `HotIsKeys` is not inductive: a copy that waits to be written must name the
  hot wallet of the key as well, a request the monitor gave up on included
  (`NoAnswerInv`), and no `ab` command may name a reserved role.
  `NothingElseChanges` needs `CopyInv`: where the copy of a waiting process
  differs from the file, the role is its own or in `unseen`.
* `ReconcilerProofs`: `TypeCorrect`, `SyncedMeansGecosAlways`. The
  strengthening (`StepInv`) follows `turn`: at `"gecos"` the entry names the
  holder that was seen and asks for a retry, at `"synced"` it names that holder
  and the guest lets that holder in, unless the owner write was lost.
* `FundCycleProofs`: `CyclesSpacedAlways`, `TypeCorrect`, `SharesAlways`, for
  any interval, coins, incomes, share file, number of faults and restarts.
  `SpacedInv` compares three clocks: the time since the last cycle by memory,
  by the file and in truth. Between cycles the one that will be used is not
  ahead of the truth unless `excused` says so. The type of the balances needs
  `FundsInv`: no wallet's pending transactions cost more than it has, which is
  a sum over the pool that every submission, confirmation and loss moves. What
  such a sum does when a term is added or removed is proved from the definition
  of the fold: `SummingExists` and `FoldIsSumming` take the least set that
  would be wrong, by the well-foundedness of the numbers (`WFMin`), which
  stands in for the induction theorems the provers cannot instantiate.
  `SharesInv` says how far a distribution has come: each recipient passed so
  far got its part rounded down or is marked missing, and the last one gets
  what is left; the rounding is bounded by the lemmas `PartError` and
  `LastPart`.

The strengthened invariants were checked by TLC before they were proved, those
of `Knock` with two addresses, two logins and three functions at once, and
with two ports.

Only model-checked: every liveness property (`LiveIsFound`, `PendingIsDecided`,
`NewestIsAccepted`, `KnockEnds`, `AllocationEnds`,
`MatureIsCollectedUnlessJammed`, `HotIsRestored`, `GuestIsBroughtUpToDate`,
`WorkGoesOn`), since fairness and `ENABLED` are out of the prover's reach.
Every other property of a passing run is a theorem.

## Not modelled, and why

Testing mode of the fund manager skips the distribution; the payout of a batch
of mixed assets, signatures and a provider that goes back to an older block are
left out of the models named above. The NFT and reference validators check
signatures of single transactions. The signup page, the encoder, `bhcrypt`, the
datum codec, `is`, `balance`, `who` and `config` keep no state of the system or
only read it; `swap` is a stub; `deploy-contracts`, `keygen`, `wizard.py` and
packaging run once. Transaction building and submission are in the external
`cmttk` library, the VM database, provisioner, network hook and root agent in
other repositories: they appear by how this code uses them.

## Plan

1. `BeaconScanner` with proofs, `Provisioning`, `CounterLock`,
   `AdminCommands` with proofs, `Knock`, `SubscriptionEscrow` with proofs: done.
2. `Addressbook`, `Reconciler`, `FundCycle`, each with proofs, and
   provisioning with time finer than a day: done.
3. Theorems: that `Provisioning` implements `BeaconScanner`, `LiveVmKept` and
   `CreditedIsPaid` for an injective `Owner`, `Exclusive` and
   `IncreasingUnlessRace` of `CounterLock`, the owners of rules in `Knock`, the
   books and shares of `FundCycle`: done.
4. The payout of a batch of mixed assets, the batch limit under periodic time,
   a provider that goes back, and an abstract escrow (a balance that is earned
   over time) that `SubscriptionEscrow` implements, with the proof that it does.
