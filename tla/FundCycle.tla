----------------------------- MODULE FundCycle -----------------------------
(***************************************************************************)
(* The periodic work of the fund manager in the poll loop of the monitor:  *)
(* the fund cycle (collect, top up, distribute) and the collateral check   *)
(* (src/fund-manager).  When each ran last is kept in memory and in        *)
(* fund-manager-state.json.  Every step reads balances from confirmed      *)
(* outputs and submits at most one transaction per recipient, three        *)
(* seconds after the step before: earlier transactions are still pending.  *)
(* Any of them may fail, and the monitor may die between two.              *)
(***************************************************************************)
EXTENDS Integers, Sequences, SequencesExt, FiniteSetsExt

CONSTANTS
  Interval,          \* hours between fund cycles; the collateral check is due every hour
  Gas,               \* hot_wallet_gas_lovelace
  Buffer,            \* server_stablecoin_buffer_lovelace
  MinReserve,        \* MIN_SERVER_RESERVE
  MinAda,            \* MIN_ADA_FOR_TOKEN_OUTPUT
  Collateral,        \* COLLATERAL_LOVELACE
  Fee,               \* of a transaction
  Scale,             \* basis points in a whole: 10_000
  ShareConfigs,      \* what revenue-share.json may hold: [total, recipients]
  Roles,             \* of recipients
  Unlisted,          \* those that the addressbook may lack
  First,             \* balances at the start: [hot, server -> [ada, tokens]]
  Income,            \* what a collection brings: [ada, tokens]
  MaxCollections, MaxFaults, MaxRestarts  \* bounds

VARIABLES
  balance,           \* confirmed: [hot, server -> [ada, tokens]]
  pool,              \* transactions submitted and in no block
  clean,             \* has the server an output that serves as collateral?
  cached, file,      \* FundManagerState: hours since each task ran, up to its interval
  inProgress,        \* fundCycleInProgress
  turn,              \* what the monitor is doing
  begun, excused,    \* history: hours since a cycle began; may the next come early?
  collections, faults, restarts  \* counters for the bounds

chain == <<balance, pool, clean>>
state == <<cached, file>>
history == <<begun, excused>>
vars == <<chain, state, inProgress, turn, history, collections, faults, restarts>>

Wallet == {"hot", "server"}
Money == [ada : Nat, tokens : Nat]
Destination == Wallet \cup Roles \cup {"admin", "collateral"}

ASSUME FundAssumption ==
  /\ Interval \in Nat \ {0}
  /\ Scale \in Nat \ {0}
  /\ {Gas, Buffer, MinReserve, MinAda, Collateral, Fee} \subseteq Nat
  /\ {MaxCollections, MaxFaults, MaxRestarts} \subseteq Nat
  /\ First \in [Wallet -> Money]
  /\ Income \in Money
  /\ Unlisted \subseteq Roles
  /\ \A raw \in ShareConfigs :
       raw \in [total : Int, recipients : Seq([role : Roles, bps : Nat])]

Transaction ==
  [from : Wallet \cup {"validator"}, to : Destination, gets : Money, costs : Money]

State == [cycle : 0..Interval, collateral : 0..1]
DefaultState == [cycle |-> Interval, collateral |-> 1]
NotLoaded == [cycle |-> -1, collateral |-> -1]

Disabled == [total |-> 0, recipients |-> <<>>]

Sum(shares) == FoldSeq(LAMBDA share, sum : share + sum, 0, shares)

\* loadRevenueShareConfig: a file whose parts do not add up counts as none.
LoadRevenueShareConfig(raw) ==
  IF raw.total > 0 /\ Sum([i \in DOMAIN raw.recipients |-> raw.recipients[i].bps]) = raw.total
  THEN raw ELSE Disabled

\* missing: roles that the addressbook of this cycle lacks; base: the hot
\* balance that is shared; shares: what each recipient was to get.
Turn == [step    : {"idle", "collect", "topUp", "buffer", "load", "share", "remainder",
                    "end", "checked"},
         missing : SUBSET Unlisted,
         config  : ShareConfigs \cup {Disabled},
         base    : Nat,
         shares  : Seq(Nat)]
Idle == [step |-> "idle", missing |-> {}, config |-> Disabled, base |-> 0, shares |-> <<>>]

Init ==
  /\ balance = First
  /\ pool = <<>>
  /\ clean = FALSE
  /\ cached = NotLoaded
  /\ file = DefaultState
  /\ inProgress = FALSE
  /\ turn = Idle
  /\ begun = Interval
  /\ excused = FALSE
  /\ collections = 0
  /\ faults = 0
  /\ restarts = 0

-----------------------------------------------------------------------------
Fault == faults < MaxFaults /\ faults' = faults + 1

At(step) == turn.step = step
GoesTo(step) == turn' = [turn EXCEPT !.step = step]

(***************************************************************************)
(* executeSend.  The builder sees confirmed outputs only: a transaction of *)
(* a wallet that has another one pending may take the same outputs, and is *)
(* rejected then.  Whether the fee is taken out of an amount that is the   *)
(* whole balance is not decided in this repository.                        *)
(***************************************************************************)
Ada(amount) == [ada |-> amount, tokens |-> 0]
Plus(m, amount) == [m EXCEPT !.ada = @ + amount]
Covers(m, n) == m.ada >= n.ada /\ m.tokens >= n.tokens

Pending(w) == {i \in DOMAIN pool : pool[i].from = w}
Unspent(w) ==
  [ada    |-> balance[w].ada - MapThenSumSet(LAMBDA i : pool[i].costs.ada, Pending(w)),
   tokens |-> balance[w].tokens - MapThenSumSet(LAMBDA i : pool[i].costs.tokens, Pending(w))]

Submits(from, to, gets, costs) ==
  /\ Covers(Unspent(from), costs)
  /\ pool' = Append(pool, [from |-> from, to |-> to, gets |-> gets, costs |-> costs])
  /\ UNCHANGED faults

Sends(from, to, m) ==
  \/ Submits(from, to, m, Plus(m, Fee))
  \/ /\ m.ada = balance[from].ada /\ m.ada >= Fee
     /\ Submits(from, to, Plus(m, -Fee), m)
  \/ /\ ~Covers(Unspent(from), Plus(m, Fee)) \/ Pending(from) # {}
     /\ UNCHANGED <<pool, faults>>
  \/ Fault /\ UNCHANGED pool

(***************************************************************************)
(* fund-manager-state.json                                                 *)
(***************************************************************************)
LoadState ==
  /\ cached = NotLoaded
  /\ \/ cached' = file /\ UNCHANGED <<faults, excused>>
     \/ Fault /\ cached' = DefaultState /\ excused' = TRUE
  /\ UNCHANGED <<chain, file, inProgress, turn, begun, collections, restarts>>

\* Mutant: what could not be saved is not kept in memory either.
UpdateStateOnDisk(new) ==
  \/ cached' = new /\ file' = new /\ UNCHANGED faults
  \/ Fault /\ UNCHANGED state

\* updateState changes the cached object and then saves it; the save may fail.
UpdateState(new) ==
  /\ cached' = new
  /\ \/ file' = new /\ UNCHANGED faults
     \/ Fault /\ UNCHANGED file

-----------------------------------------------------------------------------
(***************************************************************************)
(* runFundManager                                                          *)
(***************************************************************************)
Due == At("idle") /\ cached # NotLoaded /\ cached.cycle >= Interval

\* While a VM is being made the poll loop does not come here.  A cycle that
\* sees one begin, or finds no addressbook or hot wallet, ends here.
StartCycle ==
  /\ Due
  /\ ~inProgress
  /\ inProgress' = TRUE
  /\ \/ \E missing \in SUBSET Unlisted :
          turn' = [Idle EXCEPT !.step = "collect", !.missing = missing] /\ UNCHANGED faults
     \/ Fault /\ turn' = [Idle EXCEPT !.step = "end"]
  /\ begun' = 0
  /\ excused' = FALSE
  /\ UNCHANGED <<chain, state, collections, restarts>>

\* Step 1, executeWithdraw: a collection, nothing to collect, or an error.
Collect ==
  /\ At("collect")
  /\ \/ /\ collections < MaxCollections
        /\ collections' = collections + 1
        /\ pool' = Append(pool, [from |-> "validator", to |-> "hot",
                                 gets |-> Income, costs |-> Ada(0)])
     \/ UNCHANGED <<pool, collections>>
  /\ GoesTo("topUp")
  /\ UNCHANGED <<balance, clean, state, inProgress, history, faults, restarts>>

\* A step that sends if it has reason to; an error does not stop the cycle.
Distributes(step, next, reason, sends) ==
  /\ At(step)
  /\ IF reason THEN sends ELSE UNCHANGED <<pool, faults>>
  /\ GoesTo(next)
  /\ UNCHANGED <<balance, clean, state, inProgress, history, collections, restarts>>

\* Mutant: the balance of the hot wallet is not compared with the target.
TopUpHotWalletGasAlways ==
  LET needed == Gas - balance["hot"].ada IN
  Distributes("topUp", "buffer",
    balance["server"].ada >= needed + MinReserve,
    Sends("server", "hot", Ada(needed)))

\* Step 2.
TopUpHotWalletGas ==
  LET needed == Gas - balance["hot"].ada IN
  Distributes("topUp", "buffer",
    needed > 0 /\ balance["server"].ada >= needed + MinReserve,
    Sends("server", "hot", Ada(needed)))

\* Step 3.
TopUpServerStablecoinBuffer ==
  LET needed == Buffer - balance["server"].tokens IN
  Distributes("buffer", "load",
    needed > 0 /\ balance["hot"].tokens >= needed,
    Sends("hot", "server", [ada |-> MinAda, tokens |-> needed]))

\* Step 4: what is shared is fixed before the first share is sent.
TotalShare == (turn.base * turn.config.total) \div Scale

LoadRevenueShares ==
  /\ At("load")
  /\ \E raw \in ShareConfigs :
       LET config == LoadRevenueShareConfig(raw)
           base == balance["hot"].ada
       IN turn' = [turn EXCEPT
            !.config = config, !.base = base,
            !.step = IF base * config.total < Scale THEN "remainder" ELSE "share"]
  /\ UNCHANGED <<chain, state, inProgress, history, collections, faults, restarts>>

Resolved(i) == turn.config.recipients[i].role \notin turn.missing
IsLast(i) == i = Len(turn.config.recipients)

\* Mutant: a part is taken of what is left in the wallet.
ShareOfRest(i) ==
  IF IsLast(i) THEN TotalShare - Sum(turn.shares)
  ELSE (Unspent("hot").ada * turn.config.recipients[i].bps) \div Scale

Share(i) ==
  IF IsLast(i) THEN TotalShare - Sum(turn.shares)
  ELSE (TotalShare * turn.config.recipients[i].bps) \div turn.config.total

\* A share that is not sent still counts as distributed, a recipient that is
\* not in the addressbook is passed over and does not.
SendShare ==
  /\ At("share")
  /\ LET i == Len(turn.shares) + 1
         share == IF Resolved(i) THEN Share(i) ELSE 0
     IN /\ IF share > 0
           THEN Sends("hot", turn.config.recipients[i].role, Ada(share))
           ELSE UNCHANGED <<pool, faults>>
        /\ turn' = [turn EXCEPT !.shares = Append(@, share),
                                !.step = IF IsLast(i) THEN "remainder" ELSE "share"]
  /\ UNCHANGED <<balance, clean, state, inProgress, history, collections, restarts>>

\* Step 5.
SendRemainderToAdmin ==
  /\ At("remainder")
  /\ IF balance["hot"].ada > 0
     THEN Sends("hot", "admin", Ada(balance["hot"].ada))
     ELSE UNCHANGED <<pool, faults>>
  /\ turn' = [Idle EXCEPT !.step = "end"]
  /\ UNCHANGED <<balance, clean, state, inProgress, history, collections, restarts>>

\* Mutant: a save that throws leaves the flag set.
FinishIfSaved ==
  /\ At("end")
  /\ UpdateState([cached EXCEPT !.cycle = 0])
  /\ inProgress' = (file' # cached')
  /\ turn' = Idle
  /\ UNCHANGED <<chain, history, collections, restarts>>

\* The finally block, of a cycle that was deferred too.
Finish ==
  /\ At("end")
  /\ UpdateState([cached EXCEPT !.cycle = 0])
  /\ inProgress' = FALSE
  /\ turn' = Idle
  /\ UNCHANGED <<chain, history, collections, restarts>>

(***************************************************************************)
(* runCollateralCheck, which the poll loop comes to after the fund cycle,  *)
(* deferred or not                                                         *)
(***************************************************************************)
EnsureCollateral ==
  /\ At("idle")
  /\ cached.collateral = 1
  /\ IF clean THEN UNCHANGED <<pool, faults>>
     ELSE \/ /\ Unspent("server").ada >= Collateral + Fee
             /\ Submits("server", "collateral", Ada(0), Ada(Fee))
          \/ /\ Unspent("server").ada < Collateral + Fee \/ Pending("server") # {}
             /\ UNCHANGED <<pool, faults>>
          \/ Fault /\ UNCHANGED pool
  /\ turn' = [Idle EXCEPT !.step = "checked"]
  /\ UNCHANGED <<balance, clean, state, inProgress, history, collections, restarts>>

FinishCheck ==
  /\ At("checked")
  /\ UpdateState([cached EXCEPT !.collateral = 0])
  /\ turn' = Idle
  /\ UNCHANGED <<chain, inProgress, history, collections, restarts>>

-----------------------------------------------------------------------------
(***************************************************************************)
(* The chain, the clock and the process                                    *)
(***************************************************************************)
Confirm(i) ==
  LET t == pool[i]
      After(w) == [ada    |-> balance[w].ada + (IF t.to = w THEN t.gets.ada ELSE 0)
                                - (IF t.from = w THEN t.costs.ada ELSE 0),
                   tokens |-> balance[w].tokens + (IF t.to = w THEN t.gets.tokens ELSE 0)
                                - (IF t.from = w THEN t.costs.tokens ELSE 0)]
  IN /\ balance' = [w \in Wallet |-> After(w)]
     /\ clean' = (clean \/ t.to = "collateral")
     /\ pool' = RemoveAt(pool, i)
     /\ UNCHANGED <<state, inProgress, turn, history, collections, faults, restarts>>

Lose(i) ==
  /\ Fault
  /\ pool' = RemoveAt(pool, i)
  /\ UNCHANGED <<balance, clean, state, inProgress, turn, history, collections, restarts>>

\* A transaction of the server leaves its outputs with tokens on them.
SpendCollateral ==
  /\ clean
  /\ Fault
  /\ clean' = FALSE
  /\ UNCHANGED <<balance, pool, state, inProgress, turn, history, collections, restarts>>

Older(hours, max) == IF hours < max THEN hours + 1 ELSE max
Aged(s) == [cycle |-> Older(s.cycle, Interval), collateral |-> Older(s.collateral, 1)]

\* An hour passes: transactions are in a block by then or will never be, and
\* the poll loop, which goes round every minute, has done what was due but for
\* a fund cycle that waits for a VM to be made.
Tick ==
  /\ At("idle")
  /\ cached.collateral # 1
  /\ pool = <<>>
  /\ cached' = IF cached = NotLoaded THEN cached ELSE Aged(cached)
  /\ file' = Aged(file)
  /\ begun' = Older(begun, Interval)
  /\ UNCHANGED <<chain, inProgress, turn, excused, collections, faults, restarts>>

\* A cycle that was cut short, or whose end was not saved, is begun again.
Restart ==
  /\ restarts < MaxRestarts
  /\ restarts' = restarts + 1
  /\ cached' = NotLoaded
  /\ inProgress' = FALSE
  /\ turn' = Idle
  /\ excused' = \/ excused
                \/ turn.step \notin {"idle", "checked"}
                \/ cached # NotLoaded /\ cached.cycle # file.cycle
  /\ UNCHANGED <<chain, file, begun, collections, faults>>

Cycle ==
  \/ StartCycle \/ Collect \/ TopUpHotWalletGas \/ TopUpServerStablecoinBuffer
  \/ LoadRevenueShares \/ SendShare \/ SendRemainderToAdmin \/ Finish

Monitor == LoadState \/ Cycle \/ EnsureCollateral \/ FinishCheck

Next ==
  \/ Monitor \/ Tick \/ Restart \/ SpendCollateral
  \/ \E i \in DOMAIN pool : Confirm(i) \/ Lose(i)

Spec == Init /\ [][Next]_vars

\* The poll loop goes round, time passes, blocks are made, and whenever the
\* loop comes to a cycle that is due there is not a VM being made for ever.
FairSpec ==
  /\ Spec
  /\ WF_vars(Monitor)
  /\ SF_vars(StartCycle)
  /\ WF_vars(Tick)
  /\ WF_vars(pool # <<>> /\ Confirm(1))

-----------------------------------------------------------------------------
\* Every variable holds values of its kind: nothing negative is ever sent,
\* and no wallet pays what it does not have.
TypeOK ==
  /\ balance \in [Wallet -> Money]
  /\ pool \in Seq(Transaction)
  /\ clean \in BOOLEAN
  /\ cached \in State \cup {NotLoaded}
  /\ file \in State
  /\ inProgress \in BOOLEAN
  /\ turn \in Turn
  /\ begun \in 0..Interval
  /\ excused \in BOOLEAN
  /\ collections \in 0..MaxCollections
  /\ faults \in 0..MaxFaults
  /\ restarts \in 0..MaxRestarts

(***************************************************************************)
(* distribution.ts:101-102: together the shares are no more than the part  *)
(* of the balance that is shared, whatever fails or is confirmed meanwhile *)
(* and whoever is missing; and if nobody is missing each recipient is sent *)
(* its own part, up to one unit of rounding for each of them.              *)
(***************************************************************************)
SharesAsConfigured ==
  LET recipients == turn.config.recipients
      n == Len(recipients)
  IN Len(turn.shares) = n =>
       /\ Sum(turn.shares) <= TotalShare
       /\ \A i \in 1..n : Resolved(i) \/ turn.shares[i] = 0
       /\ turn.missing = {} /\ turn.shares # <<>> =>
            /\ Sum(turn.shares) = TotalShare
            /\ \A i \in 1..n :
                 turn.shares[i] * Scale - turn.base * recipients[i].bps
                   \in (-n * Scale)..(n * Scale)

(***************************************************************************)
(* state.ts:3: last run times survive restarts.  A cycle begins no sooner  *)
(* than an interval after the one before began, in this process or in an   *)
(* earlier one, unless that one was cut short, its end could not be saved  *)
(* before a restart, or the file cannot be read.                           *)
(***************************************************************************)
CyclesSpaced == [][StartCycle => begun >= Interval \/ excused]_vars

(***************************************************************************)
(* Neither deferrals nor errors nor restarts end the periodic work: fund   *)
(* cycles collect again and again, and the server gets its collateral back *)
(* if it has the coins for it.                                             *)
(***************************************************************************)
WorkGoesOn ==
  /\ []<>At("collect")
  /\ []<>(clean \/ balance["server"].ada < Collateral + Fee)
=============================================================================
