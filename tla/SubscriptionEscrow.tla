-------------------------- MODULE SubscriptionEscrow --------------------------
(***************************************************************************)
(* The money of a subscription: the spending validator                     *)
(* (validators/subscription.ak) decides which transactions the chain       *)
(* accepts, `bw withdraw` (bw/commands/withdraw.ts) builds the ones that   *)
(* collect.  The two are separate programs in different languages that     *)
(* must agree on every number of a continuing output.                      *)
(***************************************************************************)
EXTENDS Integers, FiniteSets

CONSTANTS
  Subs,       \* subscriptions, one UTXO each
  Addresses,  \* CIP-89 addresses: the script with a subscriber's staking key
  RATE,       \* rate_per_interval
  INTERVAL,   \* interval_ms
  SLOT,       \* length of a slot, in the same unit
  GRACE,      \* withdraw.ts sets validFrom this far back
  LIFETIME,   \* and validTo this far ahead
  MAX_BATCH,
  Deposits,   \* what a subscriber may pay for, or top up by
  Slack,      \* lovelace locked on top of the payment
  MaxTime, MaxRef, MaxPool    \* bounds: clock, spends of a UTXO, pending txs

ASSUME EscrowAssumption ==
  /\ RATE \in Nat \ {0}
  /\ INTERVAL \in Nat \ {0}
  /\ SLOT \in Nat \ {0}
  /\ GRACE \in Nat
  /\ LIFETIME \in Nat
  /\ MAX_BATCH \in Nat \ {0}
  /\ Deposits \subseteq Nat
  /\ Slack \in Nat
  /\ {MaxTime, MaxRef, MaxPool} \subseteq Nat

VARIABLES
  now,
  address,    \* whose staking key: chosen once
  sub,        \* the UTXO of each subscription
  pool,       \* submitted collections that are not in a block
  created,    \* history: when the subscription began
  paid,       \* history: what its subscriber put in, less what it took out
  collected,  \* history: what the service received of it
  returned    \* history: what cancelling or migrating took out

vars == <<now, address, sub, pool, created, paid, collected, returned>>
books == <<created, paid, collected, returned>>

\* value: the payment asset in the output; amount: the datum's amount_remaining.
Utxo == [status : {"none", "live", "gone"}, ref : Nat,
         amount : Nat, value : Nat, last : Nat, beacon : BOOLEAN]

NoUtxo == [status |-> "none", ref |-> 0, amount |-> 0, value |-> 0,
           last |-> 0, beacon |-> FALSE]

Live(s) == sub[s].status = "live"

\* The output holds what its datum says.
Covered(s) == sub[s].value >= sub[s].amount

Init ==
  /\ now = GRACE
  /\ address \in [Subs -> Addresses]
  /\ sub = [s \in Subs |-> NoUtxo]
  /\ pool = {}
  /\ created = [s \in Subs |-> 0]
  /\ paid = [s \in Subs |-> 0]
  /\ collected = [s \in Subs |-> 0]
  /\ returned = [s \in Subs |-> 0]

-----------------------------------------------------------------------------
(* What the validator computes. *)

\* A script sees the lower bound of a transaction as the start of its slot.
SlotStart(t) == t - (t % SLOT)

\* Mutant: a begun interval counts.
ElapsedBegun(u, lower) ==
  IF lower - u.last <= 0 THEN 0 ELSE (lower - u.last) \div INTERVAL + 1

ElapsedIntervals(u, lower) ==
  IF lower - u.last <= 0 THEN 0 ELSE (lower - u.last) \div INTERVAL

\* Mutant: not capped by what remains.
ClaimableUncapped(u, lower) == ElapsedIntervals(u, lower) * RATE

ClaimableAmount(u, lower) ==
  LET earned == ElapsedIntervals(u, lower) * RATE
  IN  IF earned > u.amount THEN u.amount ELSE earned

\* ServiceCollect for one input, given the continuing output it found.
ServiceCollect(u, out, lower) ==
  LET earned == ClaimableAmount(u, lower)
  IN  /\ earned > 0
      /\ out.amount = u.amount - earned
      /\ out.last = u.last + ElapsedIntervals(u, lower) * INTERVAL
      /\ out.value >= out.amount

-----------------------------------------------------------------------------
(* What bw withdraw computes. *)

Intervals(u, from) == (from - u.last) \div INTERVAL

\* Mutant: a UTXO that matures this moment is left for later.
IsClaimableLate(u, from) ==
  /\ u.amount > 0
  /\ from - u.last > INTERVAL

IsClaimable(u, from) ==
  /\ u.amount > 0
  /\ from - u.last >= INTERVAL

IsFullyConsumed(u, from) == Intervals(u, from) * RATE >= u.amount

CollectAmount(u, from) ==
  IF IsFullyConsumed(u, from) THEN u.amount ELSE Intervals(u, from) * RATE

\* Mutants: only the balance of the datum is put back; the time of collection
\* becomes the last one.
ContinuingBalanceOnly(u, from) ==
  [u EXCEPT !.ref = @ + 1,
            !.amount = @ - CollectAmount(u, from),
            !.value = u.amount - CollectAmount(u, from),
            !.last = @ + Intervals(u, from) * INTERVAL,
            !.beacon = @ /\ ~IsFullyConsumed(u, from)]

ContinuingFromNow(u, from) ==
  [u EXCEPT !.ref = @ + 1,
            !.amount = @ - CollectAmount(u, from),
            !.value = @ - CollectAmount(u, from),
            !.last = from,
            !.beacon = @ /\ ~IsFullyConsumed(u, from)]

\* The output that goes on; a fully consumed one leaves its beacon behind.
Continuing(u, from) ==
  [u EXCEPT !.ref = @ + 1,
            !.amount = @ - CollectAmount(u, from),
            !.value = @ - CollectAmount(u, from),
            !.last = @ + Intervals(u, from) * INTERVAL,
            !.beacon = @ /\ ~IsFullyConsumed(u, from)]

-----------------------------------------------------------------------------
(* Subscribers and the server.  A subscription has the terms the signup    *)
(* page gives it; the minting policy (beacon.ak) checks neither the datum  *)
(* nor the value, so the output may hold less than its datum says.         *)

Subscribe(s, amount) ==
  /\ sub[s].status = "none"
  /\ \E value \in {amount + Slack, Slack} :
       /\ sub' = [sub EXCEPT ![s] =
                    [status |-> "live", ref |-> 1, amount |-> amount,
                     value |-> value, last |-> now, beacon |-> TRUE]]
       /\ paid' = [paid EXCEPT ![s] = value]
  /\ created' = [created EXCEPT ![s] = now]
  /\ UNCHANGED <<now, address, pool, collected, returned>>

\* SubscriberExtend: last_collected stays, and the output covers the balance.
\* Whether it keeps the beacon is not checked.
Extend(s, more) ==
  /\ Live(s)
  /\ sub[s].ref < MaxRef
  /\ \E value \in {sub[s].value + more, sub[s].amount + more},
        beacon \in {sub[s].beacon, FALSE} :
       /\ value >= sub[s].amount + more
       /\ sub' = [sub EXCEPT ![s].ref = @ + 1, ![s].amount = @ + more,
                             ![s].value = value, ![s].beacon = beacon]
       /\ paid' = [paid EXCEPT ![s] = @ + value - sub[s].value]
  /\ UNCHANGED <<now, address, pool, created, collected, returned>>

\* SubscriberCancel: what is earned at the transaction's own lower bound goes
\* to the service, the rest to the subscriber, who brings along what the output
\* is short of.  The beacon leaves with the output: whether it is burned is not
\* checked here.
Cancel(s, lower) ==
  LET earned == ClaimableAmount(sub[s], SlotStart(lower))
      short == IF Covered(s) THEN 0 ELSE sub[s].amount - sub[s].value
  IN  /\ Live(s)
      /\ paid' = [paid EXCEPT ![s] = @ + short]
      /\ collected' = [collected EXCEPT ![s] = @ + earned]
      /\ returned' = [returned EXCEPT ![s] = @ + sub[s].value + short - earned]
      /\ sub' = [sub EXCEPT ![s] = [NoUtxo EXCEPT !.status = "gone"]]
      /\ UNCHANGED <<now, address, pool, created>>

\* Migrate: all of it moves to the new validator.
Migrate(s) ==
  /\ Live(s)
  /\ sub' = [sub EXCEPT ![s] = [NoUtxo EXCEPT !.status = "gone"]]
  /\ returned' = [returned EXCEPT ![s] = @ + sub[s].value]
  /\ UNCHANGED <<now, address, pool, created, paid, collected>>

-----------------------------------------------------------------------------
(* Collections. *)

Batch(tx) == DOMAIN tx.spent

\* list.find takes the first output at the input's address: only the
\* subscriptions in `firsts` find the output that was made for them.
Firsts(batch) ==
  {firsts \in SUBSET batch : \A s \in batch :
     Cardinality({t \in firsts : address[t] = address[s]}) = 1}

\* executeWithdraw, with the addresses whose UTXOs the provider returned.
Withdraw(answered) ==
  LET from == now - GRACE
      claimable == {s \in Subs : /\ Live(s)
                                 /\ sub[s].beacon
                                 /\ address[s] \in answered
                                 /\ IsClaimable(sub[s], from)}
  IN  /\ Cardinality(pool) < MaxPool
      /\ \E batch \in SUBSET claimable \ {{}} :
           /\ \/ batch = claimable /\ Cardinality(batch) <= MAX_BATCH
              \/ Cardinality(batch) = MAX_BATCH
           /\ \E firsts \in Firsts(batch) :
                pool' = pool \cup
                  {[from |-> from, firsts |-> firsts,
                    spent |-> [s \in batch |-> sub[s]]]}
      /\ UNCHANGED <<now, address, sub, books>>

\* The inputs are unspent, the validity interval is not over.
Fresh(tx) == \A s \in Batch(tx) : Live(s) /\ sub[s] = tx.spent[s]

Unexpired(tx) == now <= tx.from + GRACE + LIFETIME

\* Every input's script must agree; another subscription's output differs in
\* the fields of the datum that may not change.
Accepted(tx) ==
  /\ Fresh(tx)
  /\ Unexpired(tx)
  /\ \A s \in Batch(tx) :
       /\ s \in tx.firsts
       /\ ServiceCollect(tx.spent[s], Continuing(tx.spent[s], tx.from),
                         SlotStart(tx.from))

Include(tx) ==
  /\ Accepted(tx)
  /\ sub' = [s \in Subs |-> IF s \in Batch(tx)
                              THEN Continuing(tx.spent[s], tx.from)
                              ELSE sub[s]]
  /\ collected' = [s \in Subs |->
       IF s \in Batch(tx)
         THEN collected[s] + CollectAmount(tx.spent[s], tx.from)
         ELSE collected[s]]
  /\ pool' = pool \ {tx}
  /\ UNCHANGED <<now, address, created, paid, returned>>

Drop(tx) ==
  /\ ~Accepted(tx)
  /\ pool' = pool \ {tx}
  /\ UNCHANGED <<now, address, sub, books>>

Tick ==
  /\ now < MaxTime
  /\ now' = now + 1
  /\ UNCHANGED <<address, sub, pool, books>>

Next ==
  \/ \E s \in Subs, amount \in Deposits : Subscribe(s, amount)
  \/ \E s \in Subs, more \in Deposits : Extend(s, more)
  \/ \E s \in Subs, lower \in 0..now : Cancel(s, lower)
  \/ \E s \in Subs : Migrate(s)
  \/ \E answered \in SUBSET Addresses : Withdraw(answered)
  \/ \E tx \in pool : Include(tx)
  \/ \E tx \in pool : Drop(tx)
  \/ Tick

Spec == Init /\ [][Next]_vars

\* The monitor keeps calling executeWithdraw, and now and then the provider
\* answers for every address; a pending transaction is decided.
FairSpec ==
  /\ Spec
  /\ WF_vars(Tick)
  /\ WF_vars(\E tx \in pool : Include(tx))
  /\ WF_vars(\E tx \in pool : Drop(tx))
  /\ SF_vars(Withdraw(Addresses))

-----------------------------------------------------------------------------
(* Properties. *)

\* The variables have their types.
TypeOK ==
  /\ now \in Nat
  /\ address \in [Subs -> Addresses]
  /\ sub \in [Subs -> Utxo]
  /\ \A tx \in pool :
       /\ tx.from \in Nat
       /\ Batch(tx) \subseteq Subs
       /\ tx.spent \in [Batch(tx) -> Utxo]
       /\ tx.firsts \subseteq Batch(tx)
  /\ created \in [Subs -> Nat]
  /\ paid \in [Subs -> Int]
  /\ collected \in [Subs -> Nat]
  /\ returned \in [Subs -> Nat]

\* Whatever collections, extensions and a cancellation follow each other,
\* the service never has more of a subscription than the whole intervals
\* since its creation have earned (elapsed_intervals, claimable_amount).
NeverAheadOfTime ==
  \A s \in Subs :
    collected[s] <= RATE * ((now - created[s]) \div INTERVAL)

\* No coin is lost or invented between datum, output and the two parties:
\* what was paid in is what was collected, what cancelling or migrating took
\* out and what is still there; and while the output covers the balance of its
\* datum, the service has had no more than was paid.
Accounted ==
  \A s \in Subs :
    /\ paid[s] = collected[s] + returned[s] + sub[s].value
    /\ Live(s) /\ Covered(s) => paid[s] - collected[s] >= sub[s].amount

\* withdraw.ts and subscription.ak agree: a collection whose inputs are still
\* there is accepted, unless outputs share an address, one never held what its
\* datum says, or rounding the bound down to a slot loses an interval.
WithdrawAccepted ==
  \A tx \in pool :
    (/\ Fresh(tx)
     /\ Unexpired(tx)
     /\ tx.firsts = Batch(tx)
     /\ \A s \in Batch(tx) :
          /\ Covered(s)
          /\ (tx.from - tx.spent[s].last) \div INTERVAL
               = (SlotStart(tx.from) - tx.spent[s].last) \div INTERVAL)
    => Accepted(tx)

\* The validator would let the server collect.
Mature(s) ==
  /\ Live(s)
  /\ sub[s].beacon
  /\ ClaimableAmount(sub[s], SlotStart(now - GRACE)) > 0

\* One refusal is the refusal of the batch.
Jammed ==
  \E s \in Subs :
    /\ Mature(s)
    /\ \/ ~Covered(s)
       \/ \E t \in Subs \ {s} : Mature(t) /\ address[s] = address[t]

\* A mature subscription is collected (or leaves), unless two mature ones
\* share an address or one does not hold its balance.
MatureIsCollectedUnlessJammed ==
  \A s \in Subs : Mature(s) ~> (~Mature(s) \/ Jammed)

\* docs/fund-manager.md: a fund cycle collects all mature subscriptions (here,
\* of outputs that all hold what their datums say).
MatureIsCollected ==
  [](\A s \in Subs : Live(s) => Covered(s)) =>
    \A s \in Subs : Mature(s) ~> ~Mature(s)

=============================================================================
