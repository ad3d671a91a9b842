----------------------- MODULE SubscriptionEscrowProofs -----------------------
(***************************************************************************)
(* What the spending validator and `bw withdraw` guarantee together, for   *)
(* any number of subscriptions, pending collections, rates and intervals.  *)
(***************************************************************************)
EXTENDS SubscriptionEscrow, TLAPS

-----------------------------------------------------------------------------
(* Division. *)

\* Rounding down.
LEMMA QuotientBounds ==
  ASSUME NEW a \in Nat, NEW b \in Nat \ {0}
  PROVE  /\ a \div b \in Nat
         /\ (a \div b) * b <= a
         /\ a < (a \div b) * b + b
  OBVIOUS

\* A whole number of steps that fits is at most the quotient.
LEMMA QuotientIsLargest ==
  ASSUME NEW a \in Nat, NEW b \in Nat \ {0}, NEW n \in Nat, n * b <= a
  PROVE  n <= a \div b
<1> DEFINE q == a \div b
<1>1. q \in Nat /\ a < q * b + b
  BY QuotientBounds
<1>2. SUFFICES ASSUME q + 1 <= n PROVE FALSE
  BY <1>1
<1>3. (q + 1) * b <= n * b
  BY <1>1, <1>2
<1> QED
  BY <1>1, <1>3

\* The start of a slot is not after the instant.
LEMMA SlotStartBounds ==
  ASSUME NEW t \in Nat
  PROVE  SlotStart(t) \in Int /\ SlotStart(t) <= t
  BY EscrowAssumption DEF SlotStart

LEMMA ProductIsNat == \A m, n \in Nat : m * n \in Nat
  OBVIOUS

-----------------------------------------------------------------------------
(* The arithmetic of a claim, on either side. *)

\* What the validator lets a cancellation split: whole intervals that fit
\* between the last collection and the bound, and never more than is left.
LEMMA ClaimFacts ==
  ASSUME NEW u \in Utxo, NEW lower \in Int
  PROVE  /\ ElapsedIntervals(u, lower) \in Nat
         /\ u.last + ElapsedIntervals(u, lower) * INTERVAL <= lower
              \/ ElapsedIntervals(u, lower) = 0
         /\ ClaimableAmount(u, lower) \in 0..u.amount
         /\ ClaimableAmount(u, lower) <= RATE * ElapsedIntervals(u, lower)
<1> DEFINE k == ElapsedIntervals(u, lower)
<1>1. u.last \in Nat /\ u.amount \in Nat /\ INTERVAL \in Nat \ {0} /\ RATE \in Nat
  BY EscrowAssumption DEF Utxo
<1>2. k \in Nat /\ (u.last + k * INTERVAL <= lower \/ k = 0)
  <2>1. CASE lower - u.last <= 0
    BY <2>1 DEF ElapsedIntervals
  <2>2. CASE lower - u.last > 0
    <3>1. lower - u.last \in Nat
      BY <1>1, <2>2
    <3>2. k = (lower - u.last) \div INTERVAL
      BY <1>1, <2>2 DEF ElapsedIntervals
    <3> HIDE DEF k
    <3>3. k \in Nat /\ k * INTERVAL <= lower - u.last
      BY <1>1, <3>1, <3>2, QuotientBounds
    <3> QED
      BY <1>1, <3>3, ProductIsNat
  <2> QED
    BY <1>1, <2>1, <2>2
<1>3. ClaimableAmount(u, lower) = IF k * RATE > u.amount THEN u.amount ELSE k * RATE
  BY DEF ClaimableAmount
<1> HIDE DEF k
<1>4. k * RATE \in Nat /\ k * RATE = RATE * k
  BY <1>1, <1>2
<1>5. ClaimableAmount(u, lower) \in 0..u.amount /\ ClaimableAmount(u, lower) <= RATE * k
  BY <1>1, <1>3, <1>4
<1> QED
  BY <1>2, <1>5 DEF k

\* What bw withdraw takes, and the output it makes.
LEMMA CollectFacts ==
  ASSUME NEW u \in Utxo, NEW from \in Nat, IsClaimable(u, from),
         u.value >= u.amount
  PROVE  /\ Intervals(u, from) \in Nat
         /\ CollectAmount(u, from) \in 0..u.amount
         /\ CollectAmount(u, from) <= RATE * Intervals(u, from)
         /\ u.last + Intervals(u, from) * INTERVAL <= from
         /\ Continuing(u, from) \in Utxo
         /\ Continuing(u, from).status = u.status
         /\ Continuing(u, from).last = u.last + Intervals(u, from) * INTERVAL
         /\ Continuing(u, from).amount = u.amount - CollectAmount(u, from)
         /\ Continuing(u, from).value = u.value - CollectAmount(u, from)
<1> DEFINE k == Intervals(u, from)
           c == CollectAmount(u, from)
           v == Continuing(u, from)
<1>1. /\ u.last \in Nat /\ u.amount \in Nat /\ u.value \in Nat /\ u.ref \in Nat
      /\ INTERVAL \in Nat \ {0} /\ RATE \in Nat \ {0}
  BY EscrowAssumption DEF Utxo
<1>2. from - u.last \in Nat /\ u.amount > 0
  BY <1>1 DEF IsClaimable
<1>3. k = (from - u.last) \div INTERVAL
  BY DEF Intervals
<1>4. c = IF k * RATE >= u.amount THEN u.amount ELSE k * RATE
  BY DEF CollectAmount, IsFullyConsumed
<1>5. v = [u EXCEPT !.ref = @ + 1, !.amount = @ - c, !.value = @ - c,
                    !.last = @ + k * INTERVAL,
                    !.beacon = @ /\ ~(k * RATE >= u.amount)]
  BY DEF Continuing, IsFullyConsumed
<1> HIDE DEF k, c, v
<1>6. k \in Nat /\ k * INTERVAL <= from - u.last
  BY <1>1, <1>2, <1>3, QuotientBounds
<1>7. k * INTERVAL \in Nat /\ k * RATE \in Nat /\ k * RATE = RATE * k
  BY <1>1, <1>6, ProductIsNat
<1>8. c \in 0..u.amount /\ c <= RATE * k
  BY <1>1, <1>4, <1>7
<1>9. u.last + k * INTERVAL <= from
  BY <1>1, <1>6, <1>7
<1>10. /\ v.status = u.status /\ v.ref = u.ref + 1
       /\ v.amount = u.amount - c /\ v.value = u.value - c
       /\ v.last = u.last + k * INTERVAL
       /\ v.beacon = (u.beacon /\ ~(k * RATE >= u.amount))
  BY <1>5 DEF Utxo
<1>11. v \in Utxo
  <2>1. /\ u.amount - c \in Nat /\ u.value - c \in Nat
        /\ u.last + k * INTERVAL \in Nat /\ u.ref + 1 \in Nat
    BY <1>1, <1>7, <1>8
  <2>2. (u.beacon /\ ~(k * RATE >= u.amount)) \in BOOLEAN
    OBVIOUS
  <2> QED
    BY <1>5, <2>1, <2>2 DEF Utxo
<1> QED
  BY <1>6, <1>8, <1>9, <1>10, <1>11 DEF k, c, v

-----------------------------------------------------------------------------
(* Types, and what a pending collection was built from. *)

PoolSound ==
  \A tx \in pool :
    /\ tx.from <= now
    /\ \A s \in Batch(tx) : IsClaimable(tx.spent[s], tx.from)

TypeInv == TypeOK /\ now >= GRACE /\ PoolSound

\* The typing of one pending transaction, by name.
TxOK(tx) ==
  /\ tx.from \in Nat
  /\ Batch(tx) \subseteq Subs
  /\ tx.spent \in [Batch(tx) -> Utxo]
  /\ tx.firsts \subseteq Batch(tx)
  /\ tx.from <= now
  /\ \A s \in Batch(tx) : IsClaimable(tx.spent[s], tx.from)

LEMMA NoUtxoType ==
  /\ NoUtxo \in Utxo
  /\ [NoUtxo EXCEPT !.status = "gone"] \in Utxo
  /\ [NoUtxo EXCEPT !.status = "gone"].amount = 0
  /\ [NoUtxo EXCEPT !.status = "gone"].value = 0
  /\ [NoUtxo EXCEPT !.status = "gone"].status = "gone"
  BY DEF NoUtxo, Utxo

\* The validator makes the output hold its balance, so the input held its own.
LEMMA OutputCovers ==
  ASSUME NEW u \in Utxo, NEW from \in Nat, NEW lower \in Int,
         IsClaimable(u, from),
         ServiceCollect(u, Continuing(u, from), lower)
  PROVE  u.value >= u.amount
<1> DEFINE c == CollectAmount(u, from)
           v == Continuing(u, from)
<1>1. v.value >= v.amount
  BY DEF ServiceCollect
<1>2. v.value = u.value - c /\ v.amount = u.amount - c
  BY DEF Continuing, Utxo
<1>3. u.last \in Nat /\ u.amount \in Nat /\ u.value \in Nat
  BY DEF Utxo
<1>4. c \in Int
  <2>1. PICK age \in Nat : age = from - u.last
    BY <1>3, EscrowAssumption DEF IsClaimable
  <2>2. age \div INTERVAL \in Nat
    BY <2>1, EscrowAssumption, QuotientBounds
  <2>3. Intervals(u, from) \in Nat
    BY <2>1, <2>2 DEF Intervals
  <2>4. Intervals(u, from) * RATE \in Nat
    BY <2>3, EscrowAssumption, ProductIsNat
  <2> QED
    BY <1>3, <2>4 DEF CollectAmount
<1> HIDE DEF c, v
<1> QED
  BY <1>1, <1>2, <1>3, <1>4

\* An accepted collection replaces each of its inputs by the output made
\* from it, and leaves the others alone.
LEMMA IncludedOutputs ==
  ASSUME TypeInv, NEW tx \in pool, Include(tx), NEW s \in Subs
  PROVE  \/ /\ s \in Batch(tx)
            /\ Live(s)
            /\ IsClaimable(sub[s], tx.from)
            /\ Covered(s)
            /\ tx.from \in Nat /\ tx.from <= now
            /\ sub'[s] = Continuing(sub[s], tx.from)
            /\ collected'[s] = collected[s] + CollectAmount(sub[s], tx.from)
         \/ /\ s \notin Batch(tx)
            /\ sub'[s] = sub[s]
            /\ collected'[s] = collected[s]
<1>1. CASE s \in Batch(tx)
  <2>1. Live(s) /\ tx.spent[s] = sub[s]
    BY <1>1 DEF Include, Accepted, Fresh
  <2>2. IsClaimable(sub[s], tx.from) /\ tx.from <= now /\ tx.from \in Nat
    BY <1>1, <2>1 DEF TypeInv, TypeOK, PoolSound
  <2>3. /\ sub'[s] = Continuing(sub[s], tx.from)
        /\ collected'[s] = collected[s] + CollectAmount(sub[s], tx.from)
    BY <1>1, <2>1 DEF Include
  <2>4. ServiceCollect(sub[s], Continuing(sub[s], tx.from), SlotStart(tx.from))
    BY <1>1, <2>1 DEF Include, Accepted
  <2>5. Covered(s)
    BY <2>2, <2>4, SlotStartBounds, OutputCovers DEF TypeInv, TypeOK, Covered
  <2> QED
    BY <1>1, <2>1, <2>2, <2>3, <2>5
<1>2. CASE s \notin Batch(tx)
  BY <1>2 DEF Include
<1> QED
  BY <1>1, <1>2

\* A collection is built from live, claimable UTXOs as they are read.
LEMMA WithdrawnTx ==
  ASSUME TypeInv, NEW answered \in SUBSET Addresses, Withdraw(answered)
  PROVE  \E tx : pool' = pool \cup {tx} /\ TxOK(tx)
<1> DEFINE from == now - GRACE
           claimable == {s \in Subs : /\ Live(s)
                                      /\ sub[s].beacon
                                      /\ address[s] \in answered
                                      /\ IsClaimable(sub[s], from)}
<1>0. PICK batch \in SUBSET claimable \ {{}} :
        \E firsts \in Firsts(batch) :
          pool' = pool \cup {[from |-> from, firsts |-> firsts,
                              spent |-> [s \in batch |-> sub[s]]]}
  BY DEF Withdraw
<1>1. PICK firsts \in Firsts(batch) :
        pool' = pool \cup {[from |-> from, firsts |-> firsts,
                            spent |-> [s \in batch |-> sub[s]]]}
  BY <1>0
<1> DEFINE tx == [from |-> from, firsts |-> firsts,
                  spent |-> [s \in batch |-> sub[s]]]
<1>2. from \in Nat /\ from <= now
  BY EscrowAssumption DEF TypeInv, TypeOK
<1>3. batch \subseteq claimable /\ firsts \subseteq batch
  BY <1>1 DEF Firsts
<1>4. tx.from = from /\ tx.firsts = firsts /\ Batch(tx) = batch
  BY DEF Batch
<1>5. \A s \in batch :
        /\ s \in Subs /\ tx.spent[s] = sub[s]
        /\ IsClaimable(tx.spent[s], from)
  BY <1>3
<1>6. tx.spent \in [batch -> Utxo]
  BY <1>5 DEF TypeInv, TypeOK
<1> HIDE DEF from, claimable
<1>8. TxOK(tx)
  <2> HIDE DEF tx
  <2> QED
    BY <1>2, <1>3, <1>4, <1>5, <1>6 DEF TxOK
<1> QED
  BY <1>1, <1>8

\* Types and PoolSound together, transaction by transaction.
LEMMA TypeInvParts ==
  TypeInv <=> /\ now \in Nat /\ now >= GRACE
              /\ address \in [Subs -> Addresses]
              /\ sub \in [Subs -> Utxo]
              /\ \A tx \in pool : TxOK(tx)
              /\ created \in [Subs -> Nat]
              /\ paid \in [Subs -> Int]
              /\ collected \in [Subs -> Nat]
              /\ returned \in [Subs -> Nat]
  BY DEF TypeInv, TypeOK, PoolSound, TxOK

LEMMA TypeInit == Init => TypeInv
<1> SUFFICES ASSUME Init PROVE TypeInv
  OBVIOUS
<1>1. sub \in [Subs -> Utxo]
  BY NoUtxoType DEF Init
<1> QED
  BY <1>1, EscrowAssumption DEF Init, TypeInv, TypeOK, PoolSound

\* Pending transactions stay what they were while time passes.
LEMMA PoolKept ==
  ASSUME TypeInv, pool' \subseteq pool, now' \in Nat, now' >= now
  PROVE  (\A tx \in pool : TxOK(tx))'
<1> SUFFICES ASSUME NEW tx \in pool' PROVE TxOK(tx)'
  OBVIOUS
<1>1. TxOK(tx) /\ now \in Nat
  BY TypeInvParts
<1>2. tx.from <= now'
  BY <1>1 DEF TxOK
<1> QED
  BY <1>1, <1>2 DEF TxOK, Batch, IsClaimable

\* The UTXO after a top-up is again one that covers its balance.
LEMMA ExtendedUtxo ==
  ASSUME TypeInv, NEW s \in Subs, NEW more \in Deposits, Extend(s, more)
  PROVE  \E u \in Utxo :
           /\ u.status = "live" /\ u.last = sub[s].last
           /\ sub' = [sub EXCEPT ![s] = u]
           /\ paid' = [paid EXCEPT ![s] = @ + u.value - sub[s].value]
<1>1. PICK value \in {sub[s].value + more, sub[s].amount + more},
           beacon \in {sub[s].beacon, FALSE} :
        /\ sub' = [sub EXCEPT ![s].ref = @ + 1, ![s].amount = @ + more,
                              ![s].value = value, ![s].beacon = beacon]
        /\ paid' = [paid EXCEPT ![s] = @ + value - sub[s].value]
  BY DEF Extend
<1> DEFINE u == [sub[s] EXCEPT !.ref = @ + 1, !.amount = @ + more,
                               !.value = value, !.beacon = beacon]
<1>2. /\ sub[s] \in Utxo /\ more \in Nat /\ beacon \in BOOLEAN
      /\ sub[s].amount \in Nat /\ sub[s].value \in Nat /\ sub[s].ref \in Nat
  BY EscrowAssumption DEF TypeInv, TypeOK, Utxo
<1>3. value \in Nat /\ sub[s].amount + more \in Nat /\ sub[s].ref + 1 \in Nat
  BY <1>2
<1>4. u \in Utxo
  BY <1>2, <1>3 DEF Utxo
<1>5. u.status = sub[s].status /\ u.last = sub[s].last /\ u.value = value
  BY <1>2 DEF Utxo
<1>6. sub' = [sub EXCEPT ![s] = u]
  BY <1>1, <1>2 DEF TypeInv, TypeOK
<1>7. sub[s].status = "live"
  BY DEF Extend, Live
<1> HIDE DEF u
<1> QED
  BY <1>1, <1>4, <1>5, <1>6, <1>7

\* What a cancellation does to the books of its subscription: the subscriber
\* makes up for what the output is short of, so the parts add up.
LEMMA CancelFacts ==
  ASSUME TypeInv, NEW s \in Subs, NEW lower \in 0..now, Cancel(s, lower)
  PROVE  \E short \in Nat, k \in Nat, c \in Nat :
           /\ k = ElapsedIntervals(sub[s], SlotStart(lower))
           /\ c <= RATE * k
           /\ sub[s].last + k * INTERVAL <= SlotStart(lower) \/ k = 0
           /\ sub[s].value + short - c \in Nat
           /\ sub' = [sub EXCEPT ![s] = [NoUtxo EXCEPT !.status = "gone"]]
           /\ paid' = [paid EXCEPT ![s] = @ + short]
           /\ collected' = [collected EXCEPT ![s] = @ + c]
           /\ returned' = [returned EXCEPT ![s] = @ + sub[s].value + short - c]
<1> DEFINE bound == SlotStart(lower)
           k == ElapsedIntervals(sub[s], bound)
           c == ClaimableAmount(sub[s], bound)
           short == IF Covered(s) THEN 0 ELSE sub[s].amount - sub[s].value
<1>1. sub[s] \in Utxo /\ lower \in Nat
  BY DEF TypeInv, TypeOK
<1>2. bound \in Int
  BY <1>1, SlotStartBounds
<1>3. sub[s].value \in Nat /\ sub[s].amount \in Nat
  BY <1>1 DEF Utxo
<1>4. /\ k \in Nat /\ c \in 0..sub[s].amount /\ c <= RATE * k
      /\ sub[s].last + k * INTERVAL <= bound \/ k = 0
  BY <1>1, <1>2, ClaimFacts
<1>5. /\ sub' = [sub EXCEPT ![s] = [NoUtxo EXCEPT !.status = "gone"]]
      /\ paid' = [paid EXCEPT ![s] = @ + short]
      /\ collected' = [collected EXCEPT ![s] = @ + c]
      /\ returned' = [returned EXCEPT ![s] = @ + sub[s].value + short - c]
  BY DEF Cancel
<1>6. short \in Nat /\ sub[s].value + short >= sub[s].amount
  BY <1>3 DEF Covered
<1>7. c \in Nat /\ c <= sub[s].amount
  BY <1>3, <1>4
<1> HIDE DEF c, short
<1>8. sub[s].value + short - c \in Nat
  BY <1>3, <1>6, <1>7
<1> QED
  BY <1>4, <1>5, <1>6, <1>7, <1>8

LEMMA TypeStep == TypeInv /\ [Next]_vars => TypeInv'
<1> SUFFICES ASSUME TypeInv, [Next]_vars PROVE TypeInv'
  OBVIOUS
<1> USE DEF TypeInv, TypeOK
<1>1. ASSUME NEW s \in Subs, NEW amount \in Deposits, Subscribe(s, amount)
      PROVE  TypeInv'
  <2>1. PICK value \in {amount + Slack, Slack} :
          /\ sub' = [sub EXCEPT ![s] =
                       [status |-> "live", ref |-> 1, amount |-> amount,
                        value |-> value, last |-> now, beacon |-> TRUE]]
          /\ paid' = [paid EXCEPT ![s] = value]
    BY <1>1 DEF Subscribe
  <2>2. amount \in Nat /\ value \in Nat
    BY EscrowAssumption
  <2>3. sub' \in [Subs -> Utxo] /\ paid' \in [Subs -> Int]
    BY <2>1, <2>2 DEF Utxo
  <2>4. (\A tx \in pool : TxOK(tx))'
    BY <1>1, PoolKept DEF Subscribe
  <2> QED
    BY <1>1, <2>3, <2>4 DEF Subscribe, PoolSound, TxOK
<1>2. ASSUME NEW s \in Subs, NEW more \in Deposits, Extend(s, more)
      PROVE  TypeInv'
  <2>1. PICK u \in Utxo :
          /\ sub' = [sub EXCEPT ![s] = u]
          /\ paid' = [paid EXCEPT ![s] = @ + u.value - sub[s].value]
    BY <1>2, ExtendedUtxo
  <2>2. sub' \in [Subs -> Utxo] /\ paid' \in [Subs -> Int]
    BY <2>1 DEF Utxo
  <2>3. (\A tx \in pool : TxOK(tx))'
    BY <1>2, PoolKept DEF Extend
  <2> QED
    BY <1>2, <2>2, <2>3 DEF Extend, PoolSound, TxOK
<1>3. ASSUME NEW s \in Subs, NEW lower \in 0..now, Cancel(s, lower)
      PROVE  TypeInv'
  <2>1. PICK short \in Nat, k \in Nat, c \in Nat :
          /\ sub[s].value + short - c \in Nat
          /\ sub' = [sub EXCEPT ![s] = [NoUtxo EXCEPT !.status = "gone"]]
          /\ paid' = [paid EXCEPT ![s] = @ + short]
          /\ collected' = [collected EXCEPT ![s] = @ + c]
          /\ returned' = [returned EXCEPT ![s] = @ + sub[s].value + short - c]
    BY <1>3, CancelFacts
  <2>2. sub' \in [Subs -> Utxo]
    BY <2>1, NoUtxoType
  <2>3. sub[s].value \in Nat
    BY DEF Utxo
  <2>4. returned[s] + sub[s].value + short - c \in Nat
    BY <2>1, <2>3
  <2>5. /\ paid' \in [Subs -> Int] /\ collected' \in [Subs -> Nat]
        /\ returned' \in [Subs -> Nat]
    BY <2>1, <2>4
  <2>6. (\A tx \in pool : TxOK(tx))'
    BY <1>3, PoolKept DEF Cancel
  <2> QED
    BY <1>3, <2>2, <2>5, <2>6 DEF Cancel, PoolSound, TxOK
<1>4. ASSUME NEW s \in Subs, Migrate(s) PROVE TypeInv'
  <2>1. sub' \in [Subs -> Utxo]
    BY <1>4, NoUtxoType DEF Migrate
  <2>2. (\A tx \in pool : TxOK(tx))'
    BY <1>4, PoolKept DEF Migrate
  <2>3. sub[s].value \in Nat
    BY DEF Utxo
  <2>4. returned' \in [Subs -> Nat]
    BY <1>4, <2>3 DEF Migrate
  <2> QED
    BY <1>4, <2>1, <2>2, <2>4 DEF Migrate, PoolSound, TxOK
<1>5. ASSUME NEW answered \in SUBSET Addresses, Withdraw(answered)
      PROVE  TypeInv'
  <2>1. PICK tx : pool' = pool \cup {tx} /\ TxOK(tx)
    BY <1>5, WithdrawnTx
  <2>2. UNCHANGED <<now, address, sub, created, paid, collected, returned>>
    BY <1>5 DEF Withdraw, books
  <2>3. \A t \in pool' : TxOK(t)
    BY <2>1, TypeInvParts
  <2>4. (\A t \in pool : TxOK(t))'
    BY <2>2, <2>3 DEF TxOK, Batch, IsClaimable
  <2> QED
    BY <2>2, <2>4 DEF PoolSound, TxOK
<1>6. ASSUME NEW tx \in pool, Include(tx) PROVE TypeInv'
  <2>1. ASSUME NEW s \in Subs
        PROVE  sub'[s] \in Utxo /\ collected'[s] \in Nat
    <3>1. sub[s] \in Utxo /\ collected[s] \in Nat
      OBVIOUS
    <3>2. sub[s].amount \in Nat
      BY <3>1 DEF Utxo
    <3>3. CASE /\ IsClaimable(sub[s], tx.from) /\ tx.from \in Nat
               /\ Covered(s)
               /\ sub'[s] = Continuing(sub[s], tx.from)
               /\ collected'[s] = collected[s] + CollectAmount(sub[s], tx.from)
      BY <3>1, <3>2, <3>3, CollectFacts DEF Covered
    <3> QED
      BY <1>6, <3>1, <3>3, IncludedOutputs
  <2>2. sub' \in [Subs -> Utxo] /\ collected' \in [Subs -> Nat]
    BY <1>6, <2>1 DEF Include
  <2>3. (\A t \in pool : TxOK(t))'
    BY <1>6, PoolKept DEF Include
  <2> QED
    BY <1>6, <2>2, <2>3 DEF Include, PoolSound, TxOK
<1>7. ASSUME NEW tx \in pool, Drop(tx) PROVE TypeInv'
  <2>1. (\A t \in pool : TxOK(t))'
    BY <1>7, PoolKept DEF Drop
  <2> QED
    BY <1>7, <2>1 DEF Drop, books, PoolSound, TxOK
<1>8. ASSUME Tick PROVE TypeInv'
  <2>1. (\A t \in pool : TxOK(t))'
    BY <1>8, PoolKept DEF Tick
  <2>2. now' \in Nat /\ now' >= GRACE
    BY <1>8, EscrowAssumption DEF Tick
  <2> QED
    BY <1>8, <2>1, <2>2 DEF Tick, books, PoolSound, TxOK
<1>9. CASE UNCHANGED vars
  BY <1>9 DEF vars, PoolSound, Batch, IsClaimable
<1> QED
  BY <1>1, <1>2, <1>3, <1>4, <1>5, <1>6, <1>7, <1>8, <1>9 DEF Next

LEMMA TypeInvAlways == Spec => []TypeInv
  BY TypeInit, TypeStep, PTL DEF Spec

\* Every variable keeps a value of its kind, and a pending collection was
\* built from UTXOs that had something to claim.
THEOREM TypeCorrect == Spec => []TypeOK
  BY TypeInvAlways, PTL DEF TypeInv

-----------------------------------------------------------------------------
(* The books. *)

\* The time since creation splits into the intervals that were charged, n of
\* them, and a rest that begins at `last`.
ChargedIntervals(s, n) ==
  /\ created[s] + n * INTERVAL <= now
  /\ collected[s] <= RATE * n
  /\ Live(s) => sub[s].last = created[s] + n * INTERVAL

BooksOK(s) ==
  /\ \E n \in Nat : ChargedIntervals(s, n)
  /\ paid[s] = collected[s] + returned[s] + sub[s].value
  /\ Live(s) => returned[s] = 0
  /\ sub[s].status = "none" =>
       collected[s] = 0 /\ returned[s] = 0 /\ sub[s].value = 0

BooksInv == \A s \in Subs : BooksOK(s)

LEMMA BooksInit == Init => BooksInv
<1> SUFFICES ASSUME Init, NEW s \in Subs PROVE BooksOK(s)
  BY DEF BooksInv
<1>1. /\ now \in Nat /\ created[s] = 0 /\ collected[s] = 0 /\ returned[s] = 0
      /\ paid[s] = 0 /\ sub[s].status = "none" /\ sub[s].value = 0
  BY EscrowAssumption DEF Init, NoUtxo
<1>2. ChargedIntervals(s, 0)
  BY <1>1, EscrowAssumption DEF ChargedIntervals, Live
<1> QED
  BY <1>1, <1>2 DEF BooksOK, Live

\* A subscription that a step does not touch.
LEMMA BooksKept ==
  ASSUME TypeInv, NEW s \in Subs, BooksOK(s), now' \in Nat, now' >= now,
         sub'[s] = sub[s], created'[s] = created[s], paid'[s] = paid[s],
         collected'[s] = collected[s], returned'[s] = returned[s]
  PROVE  BooksOK(s)'
<1>1. PICK n \in Nat : ChargedIntervals(s, n)
  BY DEF BooksOK
<1>2. now \in Nat /\ created[s] \in Nat /\ n * INTERVAL \in Nat
  BY EscrowAssumption, ProductIsNat DEF TypeInv, TypeOK
<1>3. ChargedIntervals(s, n)'
  BY <1>1, <1>2 DEF ChargedIntervals, Live
<1> QED
  BY <1>3 DEF BooksOK, Live

\* k more intervals, and at most their price, on top of n.
LEMMA Distribute ==
  \A m, n, b \in Nat : /\ (m + n) * b = m * b + n * b
                       /\ b * (m + n) = b * m + b * n
  OBVIOUS

\* One accepted collection, seen from one of its inputs.
LEMMA BooksAfterCollection ==
  ASSUME TypeInv, NEW s \in Subs, BooksOK(s), NEW from \in Nat, from <= now,
         now' = now, Live(s), Covered(s), IsClaimable(sub[s], from),
         sub'[s] = Continuing(sub[s], from),
         collected'[s] = collected[s] + CollectAmount(sub[s], from),
         created'[s] = created[s], paid'[s] = paid[s],
         returned'[s] = returned[s]
  PROVE  BooksOK(s)'
<1>1. PICK u \in Utxo : u = sub[s] /\ u.value >= u.amount
  BY DEF TypeInv, TypeOK, Covered
<1>2. PICK k \in Nat, c \in Nat :
        /\ c <= u.amount /\ c <= RATE * k
        /\ collected'[s] = collected[s] + c
        /\ u.last + k * INTERVAL <= from
        /\ sub'[s].status = u.status
        /\ sub'[s].last = u.last + k * INTERVAL
        /\ sub'[s].value = u.value - c
  <2> DEFINE k == Intervals(u, from)
             c == CollectAmount(u, from)
  <2>1. /\ k \in Nat /\ c \in 0..u.amount /\ c <= RATE * k
        /\ u.last + k * INTERVAL <= from
        /\ sub'[s].status = u.status
        /\ sub'[s].last = u.last + k * INTERVAL
        /\ sub'[s].value = u.value - c
    BY <1>1, CollectFacts
  <2>2. c \in Nat /\ c <= u.amount /\ collected'[s] = collected[s] + c
    BY <1>1, <2>1 DEF Utxo
  <2> HIDE DEF k, c
  <2> QED
    BY <2>1, <2>2
<1>3. /\ now \in Nat /\ created[s] \in Nat /\ collected[s] \in Nat
      /\ returned[s] \in Nat /\ u.value \in Nat
      /\ RATE \in Nat /\ INTERVAL \in Nat
  BY EscrowAssumption DEF TypeInv, TypeOK, Utxo
<1>4. PICK n \in Nat : ChargedIntervals(s, n)
  BY DEF BooksOK
<1>5. /\ u.status = "live"
      /\ u.last = created[s] + n * INTERVAL /\ collected[s] <= RATE * n
  BY <1>1, <1>4 DEF ChargedIntervals, Live
<1>6. PICK m \in Nat : m = n + k
  OBVIOUS
<1>7. m * INTERVAL = n * INTERVAL + k * INTERVAL /\ RATE * m = RATE * n + RATE * k
  BY <1>3, <1>6, Distribute
<1>8. /\ n * INTERVAL \in Nat /\ k * INTERVAL \in Nat
      /\ RATE * n \in Nat /\ RATE * k \in Nat
  BY <1>3, ProductIsNat
<1>9. /\ sub'[s].last = created[s] + m * INTERVAL
      /\ created[s] + m * INTERVAL <= now
      /\ collected'[s] <= RATE * m
  BY <1>2, <1>3, <1>5, <1>7, <1>8
<1>10. ChargedIntervals(s, m)'
  BY <1>9 DEF ChargedIntervals
<1>11. paid'[s] = collected'[s] + returned'[s] + sub'[s].value
  BY <1>1, <1>2, <1>3 DEF BooksOK
<1>12. returned'[s] = 0
  BY DEF BooksOK
<1> QED
  BY <1>2, <1>5, <1>10, <1>11, <1>12 DEF BooksOK, Live

\* A cancellation charges what fits before its own bound.
LEMMA BooksAfterCancel ==
  ASSUME TypeInv, NEW s \in Subs, BooksOK(s), NEW lower \in 0..now,
         Cancel(s, lower)
  PROVE  BooksOK(s)'
<1>1. PICK u \in Utxo : u = sub[s]
  BY DEF TypeInv, TypeOK
<1>2. now \in Nat /\ lower \in Nat /\ lower <= now
  BY DEF TypeInv, TypeOK
<1>3. PICK bound \in Int : bound = SlotStart(lower) /\ bound <= lower
  BY <1>2, SlotStartBounds
<1>4. PICK short \in Nat, k \in Nat, c \in Nat :
        /\ c <= RATE * k
        /\ u.last + k * INTERVAL <= bound \/ k = 0
        /\ sub' = [sub EXCEPT ![s] = [NoUtxo EXCEPT !.status = "gone"]]
        /\ paid' = [paid EXCEPT ![s] = @ + short]
        /\ collected' = [collected EXCEPT ![s] = @ + c]
        /\ returned' = [returned EXCEPT ![s] = @ + u.value + short - c]
  BY <1>1, <1>3, CancelFacts
<1>5. UNCHANGED <<now, created>> /\ u.status = "live"
  BY <1>1 DEF Cancel, Live
<1>6. /\ sub'[s].status = "gone" /\ sub'[s].value = 0
      /\ paid'[s] = paid[s] + short
      /\ collected'[s] = collected[s] + c
      /\ returned'[s] = returned[s] + u.value + short - c
  BY <1>4, NoUtxoType DEF TypeInv, TypeOK
<1>7. /\ created[s] \in Nat /\ collected[s] \in Nat /\ returned[s] \in Nat
      /\ u.value \in Nat /\ u.last \in Nat /\ paid[s] \in Int
      /\ RATE \in Nat /\ INTERVAL \in Nat
  BY EscrowAssumption DEF TypeInv, TypeOK, Utxo
<1>8. PICK n \in Nat : ChargedIntervals(s, n)
  BY DEF BooksOK
<1>9. /\ u.last = created[s] + n * INTERVAL /\ collected[s] <= RATE * n
      /\ created[s] + n * INTERVAL <= now
  BY <1>1, <1>5, <1>8 DEF ChargedIntervals, Live
<1>10. PICK m \in Nat : m = n + k
  OBVIOUS
<1>11. m * INTERVAL = n * INTERVAL + k * INTERVAL /\ RATE * m = RATE * n + RATE * k
  BY <1>7, <1>10, Distribute
<1>12. /\ n * INTERVAL \in Nat /\ k * INTERVAL \in Nat
       /\ RATE * n \in Nat /\ RATE * k \in Nat
  BY <1>7, ProductIsNat
<1>13. created[s] + m * INTERVAL <= now /\ collected'[s] <= RATE * m
  <2>1. CASE k = 0
    <3>1. m = n
      BY <1>10, <2>1
    <3> QED
      BY <1>4, <1>6, <1>7, <1>9, <1>11, <1>12, <3>1
  <2>2. CASE u.last + k * INTERVAL <= bound
    BY <1>2, <1>3, <1>4, <1>6, <1>7, <1>9, <1>11, <1>12, <2>2
  <2> QED
    BY <1>4, <2>1, <2>2
<1>14. ChargedIntervals(s, m)'
  BY <1>5, <1>6, <1>13 DEF ChargedIntervals, Live
<1>15. paid'[s] = collected'[s] + returned'[s] + sub'[s].value
  BY <1>1, <1>6, <1>7 DEF BooksOK
<1> QED
  BY <1>6, <1>14, <1>15 DEF BooksOK, Live

LEMMA BooksStep == TypeInv /\ BooksInv /\ [Next]_vars => BooksInv'
<1> SUFFICES ASSUME TypeInv, BooksInv, [Next]_vars, NEW s \in Subs
             PROVE  BooksOK(s)'
  BY DEF BooksInv
<1> USE DEF TypeInv, TypeOK
<1>0. BooksOK(s) /\ now \in Nat
  BY DEF BooksInv
<1>1. ASSUME NEW r \in Subs, NEW amount \in Deposits, Subscribe(r, amount)
      PROVE  BooksOK(s)'
  <2>1. CASE s # r
    BY <1>0, <1>1, <2>1, BooksKept DEF Subscribe
  <2>2. CASE s = r
    <3>1. PICK value \in {amount + Slack, Slack} :
            /\ sub' = [sub EXCEPT ![s] =
                         [status |-> "live", ref |-> 1, amount |-> amount,
                          value |-> value, last |-> now, beacon |-> TRUE]]
            /\ paid' = [paid EXCEPT ![s] = value]
            /\ sub[s].status = "none"
      BY <1>1, <2>2 DEF Subscribe
    <3>2. /\ value \in Int
          /\ sub'[s].last = now
          /\ sub'[s].value = value /\ sub'[s].status = "live"
          /\ created'[s] = now /\ paid'[s] = value
          /\ collected'[s] = collected[s] /\ returned'[s] = returned[s]
          /\ now' = now
      BY <1>1, <2>2, <3>1, EscrowAssumption DEF Subscribe
    <3>3. collected[s] = 0 /\ returned[s] = 0
      BY <1>0, <3>1 DEF BooksOK
    <3>4. ChargedIntervals(s, 0)'
      BY <1>0, <3>2, <3>3, EscrowAssumption DEF ChargedIntervals
    <3> QED
      BY <3>2, <3>3, <3>4 DEF BooksOK
  <2> QED
    BY <2>1, <2>2
<1>2. ASSUME NEW r \in Subs, NEW more \in Deposits, Extend(r, more)
      PROVE  BooksOK(s)'
  <2>1. PICK u \in Utxo :
          /\ u.status = "live" /\ u.last = sub[r].last
          /\ sub' = [sub EXCEPT ![r] = u]
          /\ paid' = [paid EXCEPT ![r] = @ + u.value - sub[r].value]
    BY <1>2, ExtendedUtxo
  <2>2. UNCHANGED <<now, created, collected, returned>> /\ Live(r)
    BY <1>2 DEF Extend
  <2>3. CASE s # r
    BY <1>0, <2>1, <2>2, <2>3, BooksKept
  <2>4. CASE s = r
    <3>1. /\ sub[s].value \in Nat /\ u.value \in Nat /\ paid[s] \in Int
          /\ collected[s] \in Nat /\ returned[s] \in Nat
      BY DEF Utxo
    <3>2. sub'[s] = u /\ paid'[s] = paid[s] + u.value - sub[s].value
      BY <2>1, <2>4
    <3>3. PICK n \in Nat : ChargedIntervals(s, n)
      BY <1>0 DEF BooksOK
    <3>4. ChargedIntervals(s, n)'
      BY <2>1, <2>2, <2>4, <3>2, <3>3 DEF ChargedIntervals, Live
    <3>5. paid'[s] = collected'[s] + returned'[s] + sub'[s].value
      BY <1>0, <2>2, <3>1, <3>2 DEF BooksOK
    <3>6. returned'[s] = 0
      BY <1>0, <2>2, <2>4 DEF BooksOK
    <3> QED
      BY <2>1, <3>2, <3>4, <3>5, <3>6 DEF BooksOK
  <2> QED
    BY <2>3, <2>4
<1>3. ASSUME NEW r \in Subs, NEW lower \in 0..now, Cancel(r, lower)
      PROVE  BooksOK(s)'
  <2>1. CASE s # r
    BY <1>0, <1>3, <2>1, BooksKept DEF Cancel
  <2>2. CASE s = r
    BY <1>0, <1>3, <2>2, BooksAfterCancel
  <2> QED
    BY <2>1, <2>2
<1>4. ASSUME NEW r \in Subs, Migrate(r) PROVE BooksOK(s)'
  <2>1. CASE s # r
    BY <1>0, <1>4, <2>1, BooksKept DEF Migrate
  <2>2. CASE s = r
    <3>1. /\ sub'[s].status = "gone" /\ sub'[s].value = 0
          /\ returned'[s] = returned[s] + sub[s].value
          /\ UNCHANGED <<now, created, collected, paid>>
      BY <1>4, <2>2, NoUtxoType DEF Migrate
    <3>2. PICK n \in Nat : ChargedIntervals(s, n)
      BY <1>0 DEF BooksOK
    <3>3. ChargedIntervals(s, n)'
      BY <3>1, <3>2 DEF ChargedIntervals, Live
    <3>4. sub[s].value \in Nat /\ collected[s] \in Nat /\ returned[s] \in Nat
      BY DEF Utxo
    <3>5. paid'[s] = collected'[s] + returned'[s] + sub'[s].value
      BY <1>0, <3>1, <3>4 DEF BooksOK
    <3> QED
      BY <3>1, <3>3, <3>5 DEF BooksOK, Live
  <2> QED
    BY <2>1, <2>2
<1>5. ASSUME NEW answered \in SUBSET Addresses, Withdraw(answered)
      PROVE  BooksOK(s)'
  BY <1>0, <1>5, BooksKept DEF Withdraw, books
<1>6. ASSUME NEW tx \in pool, Include(tx) PROVE BooksOK(s)'
  <2>1. UNCHANGED <<now, created, paid, returned>>
    BY <1>6 DEF Include
  <2>2. CASE sub'[s] = sub[s] /\ collected'[s] = collected[s]
    BY <1>0, <2>1, <2>2, BooksKept
  <2>3. CASE /\ Live(s) /\ Covered(s) /\ IsClaimable(sub[s], tx.from)
             /\ tx.from \in Nat /\ tx.from <= now
             /\ sub'[s] = Continuing(sub[s], tx.from)
             /\ collected'[s] = collected[s] + CollectAmount(sub[s], tx.from)
    BY <1>0, <2>1, <2>3, BooksAfterCollection
  <2> QED
    BY <1>6, <2>2, <2>3, IncludedOutputs
<1>7. ASSUME NEW tx \in pool, Drop(tx) PROVE BooksOK(s)'
  BY <1>0, <1>7, BooksKept DEF Drop, books
<1>8. ASSUME Tick PROVE BooksOK(s)'
  BY <1>0, <1>8, BooksKept DEF Tick, books
<1>9. CASE UNCHANGED vars
  BY <1>0, <1>9, BooksKept DEF vars
<1> QED
  BY <1>1, <1>2, <1>3, <1>4, <1>5, <1>6, <1>7, <1>8, <1>9 DEF Next

LEMMA BooksInvAlways == Spec => [](TypeInv /\ BooksInv)
  BY TypeInit, TypeStep, BooksInit, BooksStep, PTL DEF Spec

\* However collections, top-ups and a cancellation follow each other, the
\* service has no more than the whole intervals since creation earned.
THEOREM NeverAheadOfTimeAlways == Spec => []NeverAheadOfTime
<1>1. TypeInv /\ BooksInv => NeverAheadOfTime
  <2> SUFFICES ASSUME TypeInv, BooksInv, NEW s \in Subs
               PROVE  collected[s] <= RATE * ((now - created[s]) \div INTERVAL)
    BY DEF NeverAheadOfTime
  <2>1. PICK n \in Nat : ChargedIntervals(s, n)
    BY DEF BooksInv, BooksOK
  <2>2. /\ now \in Nat /\ created[s] \in Nat /\ collected[s] \in Nat
        /\ RATE \in Nat /\ INTERVAL \in Nat \ {0}
    BY EscrowAssumption DEF TypeInv, TypeOK
  <2>3. n * INTERVAL \in Nat
    BY <2>2, ProductIsNat
  <2>4. PICK age \in Nat : age = now - created[s] /\ n * INTERVAL <= age
    BY <2>1, <2>2, <2>3 DEF ChargedIntervals
  <2>5. PICK q \in Nat : q = age \div INTERVAL /\ n <= q
    BY <2>2, <2>4, QuotientBounds, QuotientIsLargest
  <2>6. RATE * n <= RATE * q
    BY <2>2, <2>5
  <2>7. collected[s] <= RATE * n
    BY <2>1 DEF ChargedIntervals
  <2>8. RATE * n \in Nat /\ RATE * q \in Nat
    BY <2>2, ProductIsNat
  <2> QED
    BY <2>2, <2>4, <2>5, <2>6, <2>7, <2>8
<1> QED
  BY <1>1, BooksInvAlways, PTL

\* No coin is lost or invented: paid in is collected, taken out or still there,
\* and while the output covers its balance so does what was paid.
THEOREM AccountedAlways == Spec => []Accounted
<1>1. TypeInv /\ BooksInv => Accounted
  <2> SUFFICES ASSUME TypeInv, BooksInv, NEW s \in Subs
               PROVE  /\ paid[s] = collected[s] + returned[s] + sub[s].value
                      /\ Live(s) /\ Covered(s)
                           => paid[s] - collected[s] >= sub[s].amount
    BY DEF Accounted
  <2>1. /\ sub[s].value \in Nat /\ sub[s].amount \in Nat
        /\ collected[s] \in Nat /\ returned[s] \in Nat
    BY DEF TypeInv, TypeOK, Utxo
  <2>2. /\ paid[s] = collected[s] + returned[s] + sub[s].value
        /\ Live(s) => returned[s] = 0
    BY DEF BooksInv, BooksOK
  <2> QED
    BY <2>1, <2>2 DEF Covered
<1> QED
  BY <1>1, BooksInvAlways, PTL

-----------------------------------------------------------------------------
(* The two programs agree. *)

\* The validator accepts the output withdraw.ts makes, if the start of the
\* slot lies in the same interval.
LEMMA SameNumbers ==
  ASSUME NEW u \in Utxo, NEW from \in Nat, NEW lower \in Int,
         IsClaimable(u, from), u.value >= u.amount,
         (from - u.last) \div INTERVAL = (lower - u.last) \div INTERVAL
  PROVE  ServiceCollect(u, Continuing(u, from), lower)
<1>1. /\ u.last \in Nat /\ u.amount \in Nat \ {0} /\ u.value \in Nat
      /\ INTERVAL \in Nat \ {0} /\ RATE \in Nat \ {0}
  BY EscrowAssumption DEF Utxo, IsClaimable
<1>2. PICK k \in Nat : k = Intervals(u, from) /\ k >= 1
  <2>1. PICK age \in Nat : age = from - u.last /\ age >= INTERVAL
    BY <1>1 DEF IsClaimable
  <2>2. 1 * INTERVAL <= age
    BY <1>1, <2>1
  <2>3. age \div INTERVAL \in Nat /\ 1 <= age \div INTERVAL
    BY <1>1, <2>1, <2>2, QuotientBounds, QuotientIsLargest
  <2> QED
    BY <2>1, <2>3 DEF Intervals
<1>3. k = (lower - u.last) \div INTERVAL
  BY <1>2 DEF Intervals
<1>4. lower - u.last > 0
  <2>1. SUFFICES ASSUME lower - u.last <= 0 PROVE FALSE
    BY <1>1
  <2>2. PICK d \in Int : d = lower - u.last /\ d <= 0
    BY <1>1, <2>1
  <2>3. d \div INTERVAL <= 0
    BY <1>1, <2>2
  <2> QED
    BY <1>2, <1>3, <2>2, <2>3
<1>5. ElapsedIntervals(u, lower) = k
  BY <1>1, <1>3, <1>4 DEF ElapsedIntervals
<1>6. k * RATE \in Nat \ {0}
  BY <1>1, <1>2
<1>7. ClaimableAmount(u, lower) = IF k * RATE > u.amount THEN u.amount ELSE k * RATE
  BY <1>5 DEF ClaimableAmount
<1>8. CollectAmount(u, from) = IF k * RATE >= u.amount THEN u.amount ELSE k * RATE
  BY <1>2 DEF CollectAmount, IsFullyConsumed
<1>9. ClaimableAmount(u, lower) = CollectAmount(u, from) /\ ClaimableAmount(u, lower) > 0
  <2>1. PICK p \in Nat \ {0} : p = k * RATE
    BY <1>6
  <2>2. CASE p > u.amount
    <3>1. ClaimableAmount(u, lower) = u.amount
      BY <1>7, <2>1, <2>2
    <3>2. CollectAmount(u, from) = u.amount
      BY <1>1, <1>8, <2>1, <2>2
    <3> QED
      BY <1>1, <3>1, <3>2
  <2>3. CASE ~(p > u.amount)
    <3>1. ClaimableAmount(u, lower) = p
      BY <1>7, <2>1, <2>3
    <3>2. CollectAmount(u, from) = p
      BY <1>1, <1>8, <2>1, <2>3
    <3> QED
      BY <2>1, <3>1, <3>2
  <2> QED
    BY <2>2, <2>3
<1>10. PICK out \in Utxo :
         /\ out = Continuing(u, from)
         /\ out.last = u.last + k * INTERVAL
         /\ out.amount = u.amount - CollectAmount(u, from)
         /\ out.value = u.value - CollectAmount(u, from)
  BY <1>2, CollectFacts
<1>11. CollectAmount(u, from) \in Nat
  BY <1>1, <1>6, <1>8
<1>12. out.value >= out.amount
  BY <1>1, <1>10, <1>11
<1> QED
  BY <1>5, <1>9, <1>10, <1>12 DEF ServiceCollect

\* Whatever withdraw.ts submits is accepted while its inputs are there, unless
\* outputs share an address, one does not hold its balance or the slot begins
\* in an earlier interval.
THEOREM WithdrawAcceptedAlways == Spec => []WithdrawAccepted
<1>1. TypeInv => WithdrawAccepted
  <2> SUFFICES ASSUME TypeInv, NEW tx \in pool, Fresh(tx), Unexpired(tx),
                      tx.firsts = Batch(tx), NEW s \in Batch(tx), Covered(s),
                      (tx.from - tx.spent[s].last) \div INTERVAL
                        = (SlotStart(tx.from) - tx.spent[s].last) \div INTERVAL
               PROVE  ServiceCollect(tx.spent[s],
                                     Continuing(tx.spent[s], tx.from),
                                     SlotStart(tx.from))
    BY DEF WithdrawAccepted, Accepted
  <2>1. /\ tx.from \in Nat /\ tx.spent[s] \in Utxo
        /\ IsClaimable(tx.spent[s], tx.from)
    BY TypeInvParts DEF TxOK
  <2>3. tx.spent[s].value >= tx.spent[s].amount
    BY DEF Fresh, Covered
  <2>2. SlotStart(tx.from) \in Int
    BY <2>1, SlotStartBounds
  <2> QED
    BY <2>1, <2>2, <2>3, SameNumbers
<1> QED
  BY <1>1, TypeInvAlways, PTL
=============================================================================
