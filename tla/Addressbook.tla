---------------------------- MODULE Addressbook ----------------------------
(***************************************************************************)
(* addressbook.json and the processes that edit it: any number of ab       *)
(* commands (src/ab) and the fund cycle of the monitor, which adds the hot *)
(* wallet (src/fund-manager/addressbook.ts).  Each reads the whole file,   *)
(* edits its copy and has the root agent write the whole copy back; there  *)
(* is no lock between the read and the write.                              *)
(***************************************************************************)
EXTENDS Integers, FiniteSets

CONSTANTS
  Clients,           \* ab processes
  Names,             \* roles an operator may name
  Typed,             \* addresses an operator types, all of them valid
  Malformed,         \* an address written by hand that is not valid
  MaxCommands,       \* bound: ab commands run
  MaxFaults,         \* bound: reads and root agent calls that fail
  Nobody             \* no entry

VARIABLES
  book,              \* addressbook.json: role -> entry, or Nobody
  keys,              \* /etc/blockhost/<role>.key: 0 none, else which mnemonic
  job,               \* what each process is waiting for
  unseen,            \* history: roles that a process's copy may have wrong
  commands, faults   \* counters for the bounds

vars == <<book, keys, job, unseen, commands, faults>>

Monitor == "monitor"
Processes == Clients \cup {Monitor}

\* IMMUTABLE_ROLES, without dev and broker, which no step tells from admin.
Reserved == {"server", "admin", "hot"}
Roles == Names \cup Reserved

ASSUME BookAssumption ==
  /\ Monitor \notin Clients
  /\ Names \cap Reserved = {}
  /\ Typed # {}
  /\ MaxCommands \in Nat
  /\ MaxFaults \in Nat

\* A key file that was opened for writing and never filled.
Torn == -1

\* The address deriveWallet computes from the k-th mnemonic of a role.
Derived(r, k) == <<r, k>>
Address == Typed \cup {Malformed} \cup (Roles \X Nat)
Entry == [address : Address, keyfile : BOOLEAN]
Book == [Roles -> Entry \cup {Nobody}]

EmptyBook == [r \in Roles |-> Nobody]
FreshBook == [r \in Roles |->
  IF r \in {"admin", "server"}
  THEN [address |-> CHOOSE a \in Typed : TRUE, keyfile |-> r = "server"]
  ELSE Nobody]

Idle == [step |-> "idle", op |-> "none", name |-> "hot", copy |-> EmptyBook]
Hung == [Idle EXCEPT !.step = "hung"]
Job == [step : {"idle", "generate", "save", "hung"},
        op   : {"none", "add", "del", "up", "new", "init", "ensureHot"},
        name : Roles,
        copy : Book]

\* A fresh install, or a book with an entry somebody wrote by hand.
Init ==
  /\ book \in {EmptyBook, FreshBook} \cup
       {[FreshBook EXCEPT ![n] = [address |-> Malformed, keyfile |-> FALSE]] : n \in Names}
  /\ keys = [r \in Roles |-> 0]
  /\ job = [p \in Processes |-> Idle]
  /\ unseen = [p \in Processes |-> {}]
  /\ commands = 0
  /\ faults = 0

-----------------------------------------------------------------------------
Differs(a, b) == {r \in Roles : a[r] # b[r]}

\* Entries whose address is not valid are left out.
Pruned(b) == [r \in Roles |->
  IF b[r] # Nobody /\ b[r].address = Malformed THEN Nobody ELSE b[r]]

\* loadAddressbook: a file that cannot be read or parsed is an empty book.
Loads(got) ==
  \/ got = Pruned(book) /\ UNCHANGED faults
  \/ faults < MaxFaults /\ got = EmptyBook /\ faults' = faults + 1

Begin(p, step, op, name, got, copy) ==
  /\ job' = [job EXCEPT ![p] = [step |-> step, op |-> op, name |-> name, copy |-> copy]]
  /\ unseen' = [unseen EXCEPT ![p] = Differs(book, got)]
  /\ UNCHANGED <<book, keys>>

RunsCommand(c) ==
  /\ job[c] = Idle
  /\ commands < MaxCommands
  /\ commands' = commands + 1

\* Mutant: the new entry is saved without the book it was read into.
AddAlone(c, name, address) ==
  /\ RunsCommand(c)
  /\ \E got \in {Pruned(book), EmptyBook} :
       /\ Loads(got)
       /\ got[name] = Nobody
       /\ Begin(c, "save", "add", name, got,
            [EmptyBook EXCEPT ![name] = [address |-> address, keyfile |-> FALSE]])

Add(c, name, address) ==
  /\ RunsCommand(c)
  /\ \E got \in {Pruned(book), EmptyBook} :
       /\ Loads(got)
       /\ got[name] = Nobody
       /\ Begin(c, "save", "add", name, got,
            [got EXCEPT ![name] = [address |-> address, keyfile |-> FALSE]])

Del(c, name) ==
  /\ RunsCommand(c)
  /\ \E got \in {Pruned(book), EmptyBook} :
       /\ Loads(got)
       /\ got[name] # Nobody
       /\ Begin(c, "save", "del", name, got, [got EXCEPT ![name] = Nobody])

Up(c, name, address) ==
  /\ RunsCommand(c)
  /\ \E got \in {Pruned(book), EmptyBook} :
       /\ Loads(got)
       /\ got[name] # Nobody
       /\ Begin(c, "save", "up", name, got, [got EXCEPT ![name].address = address])

New(c, name) ==
  /\ RunsCommand(c)
  /\ \E got \in {Pruned(book), EmptyBook} :
       /\ Loads(got)
       /\ got[name] = Nobody
       /\ Begin(c, "generate", "new", name, got, got)

\* ab --init: only if the book that was read is empty.
InitBook(c) ==
  /\ RunsCommand(c)
  /\ Loads(EmptyBook)
  /\ Begin(c, "save", "init", "server", EmptyBook, FreshBook)

\* Mutant: the entry is made before the address is known.
HotEntryNoAddress(k) == [address |-> Nobody, keyfile |-> TRUE]

HotEntry(k) == [address |-> Derived("hot", k), keyfile |-> TRUE]

\* Mutant: a hot wallet is generated whenever the book has none.
EnsureHotAnew ==
  /\ job[Monitor] = Idle
  /\ UNCHANGED commands
  /\ \E got \in {Pruned(book), EmptyBook} :
       /\ Loads(got)
       /\ got # EmptyBook
       /\ got["hot"] = Nobody
       /\ Begin(Monitor, "generate", "ensureHot", "hot", got, got)

\* runFundManager and ensureHotWallet: a book without the hot wallet, whose
\* address is derived again if its key exists; an unreadable key throws.
EnsureHotWallet ==
  /\ job[Monitor] = Idle
  /\ UNCHANGED commands
  /\ \E got \in {Pruned(book), EmptyBook} :
       /\ Loads(got)
       /\ got # EmptyBook
       /\ got["hot"] = Nobody
       /\ keys["hot"] # Torn
       /\ IF keys["hot"] = 0
          THEN Begin(Monitor, "generate", "ensureHot", "hot", got, got)
          ELSE Begin(Monitor, "save", "ensureHot", "hot", got,
                 [got EXCEPT !["hot"] = HotEntry(keys["hot"])])

-----------------------------------------------------------------------------
(***************************************************************************)
(* The root agent                                                          *)
(***************************************************************************)
Ends(p) == job' = [job EXCEPT ![p] = Idle]

\* Mutant: a key that exists is written over.
GeneratesOver(p) ==
  /\ job[p].step = "generate"
  /\ keys' = [keys EXCEPT ![job[p].name] = @ + 1]
  /\ IF p = Monitor
     THEN job' = [job EXCEPT ![p].step = "save",
                             ![p].copy["hot"] = HotEntry(keys'["hot"])]
     ELSE Ends(p)
  /\ UNCHANGED <<book, unseen, commands, faults>>

\* generate-wallet refuses to write over a key.  The fund cycle goes on to
\* save its book; ab new ends here.
Generates(p) ==
  /\ job[p].step = "generate"
  /\ keys[job[p].name] = 0
  /\ keys' = [keys EXCEPT ![job[p].name] = @ + 1]
  /\ IF p = Monitor
     THEN job' = [job EXCEPT ![p].step = "save",
                             ![p].copy["hot"] = HotEntry(keys'["hot"])]
     ELSE Ends(p)
  /\ UNCHANGED <<book, unseen, commands, faults>>

GenerateRefused(p) ==
  /\ job[p].step = "generate"
  /\ keys[job[p].name] # 0
  /\ Ends(p)
  /\ UNCHANGED <<book, keys, unseen, commands, faults>>

\* The call fails, with a key file that is absent, whole or torn.
GenerateFails(p) ==
  /\ job[p].step = "generate"
  /\ keys[job[p].name] = 0
  /\ faults < MaxFaults
  /\ faults' = faults + 1
  /\ \E k \in {0, 1, Torn} : keys' = [keys EXCEPT ![job[p].name] = k]
  /\ Ends(p)
  /\ UNCHANGED <<book, unseen, commands>>

\* addressbook-save replaces the file.
Save(p) ==
  /\ job[p].step = "save"
  /\ book' = job[p].copy
  /\ Ends(p)
  /\ unseen' = [q \in Processes |->
       IF q = p THEN {} ELSE unseen[q] \cup Differs(book, book')]
  /\ UNCHANGED <<keys, commands, faults>>

\* saveAddressbook logs the failure, ab exits with it.
SaveFails(p) ==
  /\ job[p].step = "save"
  /\ faults < MaxFaults
  /\ faults' = faults + 1
  /\ Ends(p)
  /\ UNCHANGED <<book, keys, unseen, commands>>

\* The agent does not answer the monitor.  If it is only slow the call times
\* out; if it closes the connection nothing ends the wait (callRootAgent).
\* Either way the agent may still do as it was asked, as if for an ab process
\* c; an ab process that gives up is no different from a slow one.
NoAnswer(c) ==
  /\ job[Monitor].step \in {"generate", "save"}
  /\ job[c] = Idle
  /\ faults < MaxFaults
  /\ faults' = faults + 1
  /\ \E left \in {Idle, Hung} :
       job' = [job EXCEPT ![Monitor] = left, ![c] = job[Monitor]]
  /\ unseen' = [unseen EXCEPT ![Monitor] = {}, ![c] = unseen[Monitor]]
  /\ UNCHANGED <<book, keys, commands>>

Next ==
  \/ \E c \in Clients :
       \/ InitBook(c)
       \/ NoAnswer(c)
       \/ \E name \in Names :
            \/ Del(c, name)
            \/ New(c, name)
            \/ \E address \in Typed : Add(c, name, address) \/ Up(c, name, address)
  \/ EnsureHotWallet
  \/ \E p \in Processes :
       \/ Generates(p) \/ GenerateRefused(p) \/ GenerateFails(p)
       \/ Save(p) \/ SaveFails(p)

Spec == Init /\ [][Next]_vars

\* The monitor begins a fund cycle every interval, and the agent does what it
\* asks unless the call fails.  Nothing is assumed of the operators.
FairSpec ==
  /\ Spec
  /\ WF_vars(EnsureHotWallet)
  /\ WF_vars(Generates(Monitor) \/ GenerateRefused(Monitor))
  /\ WF_vars(Save(Monitor))

-----------------------------------------------------------------------------
\* Every variable holds values of its kind.
TypeOK ==
  /\ book \in Book
  /\ keys \in [Roles -> Nat \cup {Torn}]
  /\ job \in [Processes -> Job]
  /\ unseen \in [Processes -> SUBSET Roles]
  /\ commands \in 0..MaxCommands
  /\ faults \in 0..MaxFaults

(***************************************************************************)
(* The address that collections are sent to is always the one hot.key can  *)
(* sign for, whatever copies are written back late and however often the   *)
(* entry is lost and made again.                                           *)
(***************************************************************************)
HotIsKeys ==
  book["hot"] # Nobody =>
    keys["hot"] > 0 /\ book["hot"] = HotEntry(keys["hot"])

(***************************************************************************)
(* A save changes the role its command names; any other role it changes or *)
(* drops is one that this process did not read as it is now: another       *)
(* process saved it in between, or the read failed or left it out.         *)
(***************************************************************************)
NothingElseChanges ==
  [][\A r \in Differs(book, book') :
       \E p \in Processes :
         /\ job[p].step = "save"
         /\ job'[p] = Idle
         /\ \/ job[p].name = r
            \/ job[p].op = "init"
            \/ r \in unseen[p]]_vars

(***************************************************************************)
(* A hot wallet lost to a stale save comes back with a later fund cycle,   *)
(* unless its key file is torn, the book is empty, which ends the cycle,   *)
(* or the monitor waits for an answer that will not come.                  *)
(***************************************************************************)
HotIsRestored ==
  []<>(\/ book["hot"] # Nobody
       \/ keys["hot"] = Torn
       \/ Pruned(book) = EmptyBook
       \/ job[Monitor] = Hung)

=============================================================================
