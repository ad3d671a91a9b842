--------------------------- MODULE AdminCommands ---------------------------
(***************************************************************************)
(* Admin commands: the transactions of the admin address, the scan that    *)
(* reads the newest of them (src/admin/index.ts) and the nonce store that  *)
(* keeps a command from running twice (src/admin/nonces.ts).               *)
(***************************************************************************)
EXTENDS Integers, Sequences

CONSTANTS
  COUNT,              \* transactions one scan asks for
  PRUNE_AGE_BLOCKS,
  MaxNonce, MaxTx,    \* bounds: nonces, transactions of the admin address
  MaxCrashes,         \* bound: restarts of the monitor
  MaxFaults           \* bound: nonce files not read or not written

ASSUME AdminAssumption ==
  /\ COUNT \in Nat \ {0}
  /\ PRUNE_AGE_BLOCKS \in Nat
  /\ MaxNonce \in Nat
  /\ MaxTx \in Nat
  /\ MaxCrashes \in Nat
  /\ MaxFaults \in Nat

VARIABLES
  chain,      \* what each transaction carries, oldest first
  store,      \* the nonce store in memory
  disk,       \* admin-nonces.json
  loaded,
  queue,      \* transactions this scan has still to look at
  running,    \* the nonce marked for the command being dispatched, else 0
  crashes, faults

VARIABLE executed   \* history: the nonces of the commands dispatched

vars == <<chain, store, disk, loaded, queue, running, crashes, faults, executed>>

-----------------------------------------------------------------------------
\* A block height, or 0: no command, a wrong HMAC, or a nonce that parseInt
\* rejects.
Nonce == 0..MaxNonce

EmptyStore == [lastSeen |-> 0, seen |-> {}]

Init ==
  /\ chain = <<>>
  /\ store = EmptyStore
  /\ disk = EmptyStore
  /\ loaded = FALSE
  /\ queue = <<>>
  /\ running = 0
  /\ crashes = 0
  /\ faults = 0
  /\ executed = <<>>

\* The admin sends a command, or anybody pays the address, whatever nonce the
\* transaction carries: the command of an earlier one may be copied.
Send(nonce) ==
  /\ Len(chain) < MaxTx
  /\ chain' = Append(chain, nonce)
  /\ UNCHANGED <<store, disk, loaded, queue, running, crashes, faults, executed>>

Fault == faults < MaxFaults /\ faults' = faults + 1

\* saveNonces: a failure is logged.  The file is replaced by a rename.
Save(new) ==
  /\ store' = new
  /\ \/ disk' = new /\ UNCHANGED faults
     \/ disk' = disk /\ Fault

\* loadNonces, at startup: a file that cannot be read leaves an empty store.
LoadNonces ==
  /\ ~loaded
  /\ loaded' = TRUE
  /\ \/ store' = disk /\ UNCHANGED faults
     \/ store' = EmptyStore /\ Fault
  /\ UNCHANGED <<chain, disk, queue, running, crashes, executed>>

-----------------------------------------------------------------------------
\* Mutant: COUNT transactions are taken for granted.
NewestAssumed(n) == n

Newest(n) == IF Len(chain) < n THEN Len(chain) ELSE n

Cutoff == store.lastSeen - PRUNE_AGE_BLOCKS

Kept == IF Cutoff <= 0 THEN store.seen ELSE {n \in store.seen : n >= Cutoff}

PruneOldNonces ==
  IF Kept = store.seen THEN UNCHANGED <<store, disk, faults>>
  ELSE Save([store EXCEPT !.seen = Kept])

\* Mutant: order "asc".
StartScanOldestFirst ==
  /\ loaded
  /\ queue = <<>>
  /\ running = 0
  /\ PruneOldNonces
  /\ queue' \in {<<>>, [i \in 1..Newest(COUNT) |-> i]}
  /\ UNCHANGED <<chain, loaded, running, crashes, executed>>

\* processAdminCommands: newest first, or nothing when the query fails.
StartScan ==
  /\ loaded
  /\ queue = <<>>
  /\ running = 0
  /\ PruneOldNonces
  /\ queue' \in {<<>>, [i \in 1..Newest(COUNT) |-> Len(chain) + 1 - i]}
  /\ UNCHANGED <<chain, loaded, running, crashes, executed>>

\* Mutant: the seen set alone decides, without the monotonic guard.
IsNonceSeen(nonce) == nonce = 0 \/ nonce \in store.seen

IsNonceUsed(nonce) ==
  \/ nonce = 0
  \/ nonce <= store.lastSeen
  \/ nonce \in store.seen

Marked(nonce) ==
  [lastSeen |-> IF nonce > store.lastSeen THEN nonce ELSE store.lastSeen,
   seen     |-> store.seen \cup {nonce}]

\* processTransaction: the metadata cannot be fetched, or holds no command
\* that may still run.
SkipTransaction ==
  /\ queue # <<>>
  /\ running = 0
  /\ queue' = Tail(queue)
  /\ UNCHANGED <<chain, store, disk, loaded, running, crashes, faults, executed>>

\* It does: the nonce is marked before the command is dispatched.
AcceptTransaction ==
  /\ queue # <<>>
  /\ running = 0
  /\ LET nonce == chain[Head(queue)] IN
       /\ ~IsNonceUsed(nonce)
       /\ Save(Marked(nonce))
       /\ running' = nonce
  /\ queue' = Tail(queue)
  /\ UNCHANGED <<chain, loaded, crashes, executed>>

\* dispatchCommand is awaited; whatever it returns, the scan goes on.
Dispatch ==
  /\ running # 0
  /\ executed' = Append(executed, running)
  /\ running' = 0
  /\ UNCHANGED <<chain, store, disk, loaded, queue, crashes, faults>>

Crash ==
  /\ crashes < MaxCrashes
  /\ crashes' = crashes + 1
  /\ store' = EmptyStore
  /\ loaded' = FALSE
  /\ queue' = <<>>
  /\ running' = 0
  /\ UNCHANGED <<chain, disk, faults, executed>>

Next ==
  \/ \E nonce \in Nonce : Send(nonce)
  \/ LoadNonces
  \/ StartScan
  \/ SkipTransaction
  \/ AcceptTransaction
  \/ Dispatch
  \/ Crash

Spec == Init /\ [][Next]_vars

(***************************************************************************)
(* The monitor keeps polling and awaits every command, and the provider    *)
(* neither withholds every list nor the metadata of every command.         *)
(***************************************************************************)
ScanAnswered == StartScan /\ (queue' # <<>> \/ chain = <<>>)

FairSpec ==
  /\ Spec
  /\ WF_vars(LoadNonces)
  /\ WF_vars(ScanAnswered)
  /\ WF_vars(SkipTransaction)
  /\ WF_vars(Dispatch)
  /\ SF_vars(AcceptTransaction)

-----------------------------------------------------------------------------
Stores == [lastSeen : Nonce, seen : SUBSET Nonce]

\* The stores, the list of the scan and the command hold their kinds.
TypeOK ==
  /\ chain \in Seq(Nonce)
  /\ store \in Stores
  /\ disk \in Stores
  /\ loaded \in BOOLEAN
  /\ queue \in Seq(1..Len(chain))
  /\ running \in Nonce
  /\ crashes \in 0..MaxCrashes
  /\ faults \in 0..MaxFaults
  /\ executed \in Seq(Nonce)

(***************************************************************************)
(* nonces.ts:4-7: the nonces of the commands that run strictly increase,   *)
(* so none runs twice and none after a newer one: over pruning, copies of  *)
(* old commands on chain, scans that see a transaction again, and crashes, *)
(* as long as no nonce file was lost or left unwritten.                    *)
(***************************************************************************)
RunsInOrder ==
  faults = 0 =>
    \A i, j \in DOMAIN executed : i < j => executed[i] < executed[j]

(***************************************************************************)
(* nonces.ts:115: a nonce is used up on disk before its command runs: a    *)
(* crash while the command is awaited loses the command, never its nonce.  *)
(***************************************************************************)
MarkedBeforeRun ==
  faults = 0 =>
    /\ running <= disk.lastSeen
    /\ \A i \in DOMAIN executed : executed[i] <= disk.lastSeen

(***************************************************************************)
(* The newest transaction of the admin address is not overlooked: if it    *)
(* carries the highest nonce so far, its command is accepted, or another   *)
(* transaction follows it first.                                           *)
(***************************************************************************)
NewestIsAccepted ==
  \A i \in 1..MaxTx :
    (Len(chain) = i /\ \A j \in 1..(i - 1) : chain[j] < chain[i])
      ~> (Len(chain) > i \/ (i \in DOMAIN chain /\ store.lastSeen >= chain[i]))

=============================================================================
