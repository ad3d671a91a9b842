------------------------- MODULE AddressbookProofs -------------------------
(***************************************************************************)
(* What holds of addressbook.json for any number of ab processes, roles,   *)
(* addresses, commands and failures.                                       *)
(***************************************************************************)
EXTENDS Addressbook, TLAPS

\* The entry of the hot wallet a book may hold.
HotOf(b) == b["hot"] = Nobody \/ (keys["hot"] > 0 /\ b["hot"] = HotEntry(keys["hot"]))

\* The fund cycle generates the hot key only; ab generates keys of other roles,
\* unless it stands for a call of the monitor that was given up.
GeneratesOwn ==
  \A p \in Processes :
    job[p].step = "generate" =>
      IF p = Monitor THEN job[p].name = "hot" ELSE job[p].name \in Names \cup {"hot"}

\* Every copy in flight, like the file, has the hot wallet right or not at all.
HotInv ==
  /\ GeneratesOwn
  /\ HotOf(book)
  /\ \A p \in Processes : HotOf(job[p].copy)

\* A copy differs from the file only where it was edited or is out of date.
CopyInv ==
  \A p \in Processes : job[p].step \in {"generate", "save"} =>
    \/ job[p].op = "init"
    \/ \A r \in Roles \ {job[p].name} :
         r \in unseen[p] \/ job[p].copy[r] = book[r]

-----------------------------------------------------------------------------
LEMMA RoleFacts ==
  /\ Names \subseteq Roles
  /\ "hot" \in Roles
  /\ "server" \in Roles
  /\ "hot" \notin Names
  /\ Monitor \in Processes
  /\ Clients \subseteq Processes
  /\ Monitor \notin Clients
BY BookAssumption DEF Roles, Reserved, Processes

LEMMA EntryFacts ==
  /\ EmptyBook \in Book
  /\ FreshBook \in Book
  /\ Idle \in Job
  /\ Hung \in Job
  /\ \A a \in Address : [address |-> a, keyfile |-> FALSE] \in Entry
  /\ \A k \in Nat : HotEntry(k) \in Entry
<1>1. EmptyBook \in Book
  BY DEF EmptyBook, Book
<1>2. (CHOOSE a \in Typed : TRUE) \in Typed
  BY BookAssumption
<1>3. FreshBook \in Book
  BY <1>2 DEF FreshBook, Book, Entry, Address
<1>4. Idle \in Job /\ Hung \in Job
  BY <1>1, RoleFacts DEF Idle, Hung, Job
<1>5. \A k \in Nat : HotEntry(k) \in Entry
  BY RoleFacts DEF HotEntry, Entry, Address, Derived
<1> QED
  BY <1>1, <1>3, <1>4, <1>5 DEF Entry

LEMMA PrunedFacts ==
  ASSUME NEW b \in Book
  PROVE  /\ Pruned(b) \in Book
         /\ \A r \in Roles : Pruned(b)[r] \in {b[r], Nobody}
BY DEF Pruned, Book

\* What a process may take the file for.
LEMMA LoadedFacts ==
  ASSUME TypeOK, NEW got \in {Pruned(book), EmptyBook}
  PROVE  /\ got \in Book
         /\ got["hot"] \in {book["hot"], Nobody}
BY PrunedFacts, EntryFacts, RoleFacts DEF TypeOK, EmptyBook

LEMMA LoadsFaults ==
  ASSUME TypeOK, NEW got, Loads(got)
  PROVE  faults' \in 0..MaxFaults
BY BookAssumption DEF Loads, TypeOK

\* A process that begins: its copy, and what it did not read.
LEMMA BeginFacts ==
  ASSUME TypeOK, HotInv, CopyInv,
         NEW p \in Processes, NEW step \in {"generate", "save"},
         NEW op \in {"add", "del", "up", "new", "init", "ensureHot"},
         NEW name \in Roles, NEW got \in Book, NEW copy \in Book,
         Begin(p, step, op, name, got, copy),
         step = "generate" => IF p = Monitor THEN name = "hot" ELSE name \in Names,
         HotOf(copy),
         op = "init" \/ \A r \in Roles \ {name} : copy[r] = got[r]
  PROVE  /\ book' \in Book
         /\ keys' \in [Roles -> Nat \cup {Torn}]
         /\ job' \in [Processes -> Job]
         /\ unseen' \in [Processes -> SUBSET Roles]
         /\ HotInv'
         /\ CopyInv'
<1> DEFINE new == [step |-> step, op |-> op, name |-> name, copy |-> copy]
<1>1. new \in Job
  BY DEF Job
<1>2. job' = [job EXCEPT ![p] = new] /\ UNCHANGED <<book, keys>>
  BY DEF Begin
<1>3. job' \in [Processes -> Job]
  BY <1>1, <1>2 DEF TypeOK
<1>4. unseen' \in [Processes -> SUBSET Roles]
  BY DEF Begin, TypeOK, Differs
<1>5. HotInv'
  <2>1. \A q \in Processes : job'[q] = IF q = p THEN new ELSE job[q]
    BY <1>2 DEF TypeOK
  <2>2. GeneratesOwn'
    BY <2>1 DEF HotInv, GeneratesOwn
  <2>3. \A q \in Processes : HotOf(job'[q].copy)
    BY <2>1 DEF HotInv
  <2> QED
    BY <1>2, <2>2, <2>3 DEF HotInv, HotOf
<1>6. CopyInv'
  <2> SUFFICES ASSUME NEW q \in Processes, job'[q].step \in {"generate", "save"},
                      job'[q].op # "init",
                      NEW r \in Roles \ {job'[q].name}, r \notin unseen'[q]
               PROVE  job'[q].copy[r] = book'[r]
    BY DEF CopyInv
  <2>1. CASE q = p
    <3>1. job'[q] = new /\ unseen'[q] = Differs(book, got)
      BY <1>2, <2>1 DEF TypeOK, Begin
    <3>2. book[r] = got[r]
      BY <3>1 DEF Differs
    <3> QED
      BY <1>2, <3>1, <3>2
  <2>2. CASE q # p
    <3>1. job'[q] = job[q] /\ unseen'[q] = unseen[q]
      BY <1>2, <2>2 DEF TypeOK, Begin
    <3> QED
      BY <1>2, <3>1 DEF CopyInv
  <2> QED
    BY <2>1, <2>2
<1> QED
  BY <1>2, <1>3, <1>4, <1>5, <1>6 DEF TypeOK

-----------------------------------------------------------------------------
Inv == TypeOK /\ HotInv /\ CopyInv

LEMMA InitInv == Init => Inv
<1> SUFFICES ASSUME Init PROVE Inv
  OBVIOUS
<1>1. \A n \in Names :
        [FreshBook EXCEPT ![n] = [address |-> Malformed, keyfile |-> FALSE]] \in Book
  BY EntryFacts, RoleFacts DEF Book, Address
<1>2. book \in Book
  BY <1>1, EntryFacts DEF Init
<1>3. TypeOK
  BY <1>2, EntryFacts, BookAssumption DEF TypeOK, Init
<1>4. book["hot"] = Nobody
  <2>1. EmptyBook["hot"] = Nobody /\ FreshBook["hot"] = Nobody
    BY RoleFacts DEF EmptyBook, FreshBook
  <2>2. \A n \in Names :
          [FreshBook EXCEPT ![n] = [address |-> Malformed, keyfile |-> FALSE]]["hot"] = Nobody
    BY <2>1, RoleFacts, EntryFacts DEF Book
  <2> QED
    BY <2>1, <2>2 DEF Init
<1>5. \A p \in Processes : job[p] = Idle
  BY DEF Init
<1>6. HotInv /\ CopyInv
  BY <1>4, <1>5, RoleFacts DEF HotInv, GeneratesOwn, HotOf, CopyInv, Idle, EmptyBook
<1> QED
  BY <1>3, <1>6 DEF Inv

\* The ab commands.
LEMMA CommandInv ==
  ASSUME Inv, NEW c \in Clients,
         InitBook(c) \/ \E name \in Names :
            \/ Del(c, name)
            \/ New(c, name)
            \/ \E address \in Typed : Add(c, name, address) \/ Up(c, name, address)
  PROVE  Inv'
<1> USE RoleFacts
<1>1. c \in Processes /\ c # Monitor
  OBVIOUS
<1>2. TypeOK /\ HotInv /\ CopyInv
  BY DEF Inv
<1>3. commands' \in 0..MaxCommands
  <2>1. RunsCommand(c)
    BY DEF InitBook, Del, New, Add, Up
  <2> QED
    BY <1>2, <2>1, BookAssumption DEF TypeOK, RunsCommand
<1>4. CASE InitBook(c)
  <2>1. HotOf(FreshBook)
    BY DEF HotOf, FreshBook
  <2>2. Begin(c, "save", "init", "server", EmptyBook, FreshBook) /\ Loads(EmptyBook)
    BY <1>4 DEF InitBook
  <2>3. faults' \in 0..MaxFaults
    BY <2>2, <1>2, LoadsFaults
  <2> QED
    BY <1>1, <1>2, <1>3, <2>1, <2>2, <2>3, EntryFacts, BeginFacts DEF Inv, TypeOK
<1>5. ASSUME NEW name \in Names, Del(c, name)
      PROVE  Inv'
  <2>1. PICK got \in {Pruned(book), EmptyBook} :
          Loads(got) /\ Begin(c, "save", "del", name, got, [got EXCEPT ![name] = Nobody])
    BY <1>5 DEF Del
  <2>2. faults' \in 0..MaxFaults
    BY <1>2, <2>1, LoadsFaults
  <2>3. got \in Book /\ got["hot"] \in {book["hot"], Nobody}
    BY <1>2, LoadedFacts
  <2> DEFINE copy == [got EXCEPT ![name] = Nobody]
  <2>4. copy \in Book /\ HotOf(copy) /\ \A r \in Roles \ {name} : copy[r] = got[r]
    BY <1>2, <2>3 DEF Book, HotOf, HotInv
  <2>5. Begin(c, "save", "del", name, got, copy)
    BY <2>1
  <2> HIDE DEF copy
  <2> QED
    BY <1>1, <1>2, <1>3, <2>2, <2>3, <2>4, <2>5, BeginFacts DEF Inv, TypeOK
<1>6. ASSUME NEW name \in Names, New(c, name)
      PROVE  Inv'
  <2>1. PICK got \in {Pruned(book), EmptyBook} :
          Loads(got) /\ Begin(c, "generate", "new", name, got, got)
    BY <1>6 DEF New
  <2>2. faults' \in 0..MaxFaults
    BY <1>2, <2>1, LoadsFaults
  <2>3. got \in Book /\ HotOf(got)
    BY <1>2, LoadedFacts DEF HotInv, HotOf
  <2> QED
    BY <1>1, <1>2, <1>3, <2>1, <2>2, <2>3, BeginFacts DEF Inv, TypeOK
<1>7. ASSUME NEW name \in Names, NEW address \in Typed, Add(c, name, address)
      PROVE  Inv'
  <2>1. PICK got \in {Pruned(book), EmptyBook} :
          Loads(got) /\ Begin(c, "save", "add", name, got,
            [got EXCEPT ![name] = [address |-> address, keyfile |-> FALSE]])
    BY <1>7 DEF Add
  <2>2. faults' \in 0..MaxFaults
    BY <1>2, <2>1, LoadsFaults
  <2>3. got \in Book /\ got["hot"] \in {book["hot"], Nobody}
    BY <1>2, LoadedFacts
  <2> DEFINE copy == [got EXCEPT ![name] = [address |-> address, keyfile |-> FALSE]]
  <2>4. copy \in Book /\ HotOf(copy) /\ \A r \in Roles \ {name} : copy[r] = got[r]
    BY <1>2, <2>3, EntryFacts DEF Book, HotOf, HotInv, Address
  <2>5. Begin(c, "save", "add", name, got, copy)
    BY <2>1
  <2> HIDE DEF copy
  <2> QED
    BY <1>1, <1>2, <1>3, <2>2, <2>3, <2>4, <2>5, BeginFacts DEF Inv, TypeOK
<1>8. ASSUME NEW name \in Names, NEW address \in Typed, Up(c, name, address)
      PROVE  Inv'
  <2>1. PICK got \in {Pruned(book), EmptyBook} :
          /\ Loads(got)
          /\ got[name] # Nobody
          /\ Begin(c, "save", "up", name, got, [got EXCEPT ![name].address = address])
    BY <1>8 DEF Up
  <2>2. faults' \in 0..MaxFaults
    BY <1>2, <2>1, LoadsFaults
  <2>3. got \in Book /\ got["hot"] \in {book["hot"], Nobody}
    BY <1>2, LoadedFacts
  <2> DEFINE copy == [got EXCEPT ![name].address = address]
  <2>4. copy \in Book /\ HotOf(copy) /\ \A r \in Roles \ {name} : copy[r] = got[r]
    BY <1>2, <2>1, <2>3 DEF Book, Entry, HotOf, HotInv, Address
  <2>5. Begin(c, "save", "up", name, got, copy)
    BY <2>1
  <2> HIDE DEF copy
  <2> QED
    BY <1>1, <1>2, <1>3, <2>2, <2>3, <2>4, <2>5, BeginFacts DEF Inv, TypeOK
<1> QED
  BY <1>4, <1>5, <1>6, <1>7, <1>8

LEMMA EnsureInv ==
  ASSUME Inv, EnsureHotWallet
  PROVE  Inv'
<1> USE RoleFacts
<1>1. TypeOK /\ HotInv /\ CopyInv
  BY DEF Inv
<1>2. PICK got \in {Pruned(book), EmptyBook} :
        /\ Loads(got)
        /\ keys["hot"] # Torn
        /\ IF keys["hot"] = 0
           THEN Begin(Monitor, "generate", "ensureHot", "hot", got, got)
           ELSE Begin(Monitor, "save", "ensureHot", "hot", got,
                  [got EXCEPT !["hot"] = HotEntry(keys["hot"])])
  BY DEF EnsureHotWallet
<1>3. faults' \in 0..MaxFaults /\ commands' \in 0..MaxCommands
  BY <1>1, <1>2, LoadsFaults DEF EnsureHotWallet, TypeOK
<1>4. got \in Book /\ got["hot"] \in {book["hot"], Nobody}
  BY <1>1, LoadedFacts
<1>5. CASE keys["hot"] = 0
  <2>1. HotOf(got)
    BY <1>1, <1>4 DEF HotInv, HotOf
  <2> QED
    BY <1>1, <1>2, <1>3, <1>4, <1>5, <2>1, BeginFacts DEF Inv, TypeOK
<1>6. CASE keys["hot"] # 0
  <2> DEFINE copy == [got EXCEPT !["hot"] = HotEntry(keys["hot"])]
  <2>1. keys["hot"] \in Nat /\ keys["hot"] > 0
    BY <1>1, <1>2, <1>6 DEF TypeOK
  <2>2. copy \in Book /\ HotOf(copy) /\ \A r \in Roles \ {"hot"} : copy[r] = got[r]
    BY <1>4, <2>1, EntryFacts DEF Book, HotOf
  <2>3. Begin(Monitor, "save", "ensureHot", "hot", got, copy)
    BY <1>2, <1>6
  <2> HIDE DEF copy
  <2> QED
    BY <1>1, <1>3, <1>4, <2>2, <2>3, BeginFacts DEF Inv, TypeOK
<1> QED
  BY <1>5, <1>6

-----------------------------------------------------------------------------
\* A job that ends disturbs nothing as long as the file and keys stay.
LEMMA EndsFacts ==
  ASSUME Inv, NEW p \in Processes, Ends(p), UNCHANGED <<book, unseen>>,
         \A r \in Roles : keys'[r] = keys[r] \/ (keys[r] = 0 /\ HotOf(book)),
         keys'["hot"] = keys["hot"] \/ keys["hot"] = 0
  PROVE  job' \in [Processes -> Job] /\ HotInv' /\ CopyInv'
<1> USE RoleFacts
<1>1. TypeOK /\ HotInv /\ CopyInv
  BY DEF Inv
<1>2. job' \in [Processes -> Job] /\ \A q \in Processes : job'[q] = IF q = p THEN Idle ELSE job[q]
  BY <1>1, EntryFacts DEF Ends, TypeOK
<1>3. \A b : HotOf(b) => b["hot"] = Nobody \/ (keys'["hot"] = keys["hot"])
  BY DEF HotOf
<1>4. \A q \in Processes : HotOf(job[q].copy)
  BY <1>1 DEF HotInv
<1>5. HotOf(book)'
  BY <1>1, <1>3 DEF HotInv, HotOf
<1>6. \A q \in Processes : HotOf(job[q].copy)'
  <2> SUFFICES ASSUME NEW q \in Processes
               PROVE  \/ job'[q].copy["hot"] = Nobody
                      \/ keys'["hot"] > 0 /\ job'[q].copy["hot"] = HotEntry(keys'["hot"])
    BY DEF HotOf
  <2>1. CASE q = p
    BY <1>2, <2>1 DEF Idle, EmptyBook
  <2>2. CASE q # p
    BY <1>1, <1>2, <1>4, <2>2 DEF HotOf, HotInv
  <2> QED
    BY <2>1, <2>2
<1>7. GeneratesOwn'
  BY <1>1, <1>2 DEF HotInv, GeneratesOwn, Idle
<1>8. CopyInv'
  BY <1>1, <1>2 DEF CopyInv, Idle
<1> QED
  BY <1>2, <1>5, <1>6, <1>7, <1>8 DEF HotInv

LEMMA AgentInv ==
  ASSUME Inv, NEW p \in Processes,
         \/ Generates(p) \/ GenerateRefused(p) \/ GenerateFails(p)
         \/ Save(p) \/ SaveFails(p)
  PROVE  Inv'
<1> USE RoleFacts
<1>1. TypeOK /\ HotInv /\ CopyInv /\ GeneratesOwn
  BY DEF Inv, HotInv
<1>2. commands' \in 0..MaxCommands /\ faults' \in 0..MaxFaults
  BY <1>1, BookAssumption
  DEF TypeOK, Generates, GenerateRefused, GenerateFails, Save, SaveFails
<1>3. job[p] \in Job /\ job[p].name \in Roles
  BY <1>1 DEF TypeOK, Job
<1>4. CASE Generates(p)
  <2>1. keys' \in [Roles -> Nat \cup {Torn}]
    <3>1. keys[job[p].name] + 1 \in Nat /\ keys \in [Roles -> Nat \cup {Torn}]
      BY <1>1, <1>4 DEF Generates, TypeOK
    <3> QED
      BY <1>4, <3>1 DEF Generates
  <2>2. CASE p = Monitor
    <3>1. job[p].name = "hot" /\ keys["hot"] = 0 /\ keys'["hot"] = 1
      BY <1>1, <1>4, <2>2 DEF Generates, GeneratesOwn, TypeOK
    <3> DEFINE new == [job[p] EXCEPT !.step = "save", !.copy["hot"] = HotEntry(keys'["hot"])]
    <3>2. job' = [job EXCEPT ![p] = new]
      BY <1>1, <1>4, <2>2 DEF Generates, TypeOK
    <3>3. /\ new \in Job
          /\ new.step = "save" /\ new.name = "hot" /\ new.op = job[p].op
          /\ new.copy["hot"] = HotEntry(keys'["hot"])
          /\ \A r \in Roles \ {"hot"} : new.copy[r] = job[p].copy[r]
      BY <1>3, <3>1, EntryFacts DEF Job, Book
    <3> HIDE DEF new
    <3>4. \A q \in Processes : job'[q] = IF q = p THEN new ELSE job[q]
      BY <1>1, <3>2 DEF TypeOK
    <3>5. job' \in [Processes -> Job]
      BY <1>1, <3>2, <3>3 DEF TypeOK
    <3>6. book' = book /\ unseen' = unseen
      BY <1>4 DEF Generates
    <3>7. HotInv'
      <4>1. book["hot"] = Nobody /\ \A q \in Processes : job[q].copy["hot"] = Nobody
        BY <1>1, <3>1 DEF HotInv, HotOf
      <4> QED
        BY <1>1, <3>1, <3>3, <3>4, <3>6, <4>1 DEF HotInv, HotOf, GeneratesOwn
    <3>8. CopyInv'
      <4>1. job[p].step = "generate"
        BY <1>4 DEF Generates
      <4> QED
        BY <1>1, <3>1, <3>3, <3>4, <3>6, <4>1 DEF CopyInv
    <3> QED
      BY <1>1, <1>2, <2>1, <3>5, <3>6, <3>7, <3>8 DEF Inv, TypeOK
  <2>3. CASE p # Monitor
    <3>1. keys'["hot"] = keys["hot"] \/ keys["hot"] = 0
      BY <1>1, <1>4, <2>3 DEF Generates, GeneratesOwn, TypeOK
    <3>2. Ends(p) /\ UNCHANGED <<book, unseen>>
      BY <1>4, <2>3 DEF Generates
    <3>3. \A r \in Roles : keys'[r] = keys[r] \/ (keys[r] = 0 /\ HotOf(book))
      BY <1>1, <1>4 DEF Generates, HotInv, TypeOK
    <3> QED
      BY <1>1, <1>2, <2>1, <3>1, <3>2, <3>3, EndsFacts DEF Inv, TypeOK
  <2> QED
    BY <2>2, <2>3
<1>5. CASE GenerateRefused(p) \/ SaveFails(p)
  <2>1. Ends(p) /\ UNCHANGED <<book, unseen, keys>>
    BY <1>5 DEF GenerateRefused, SaveFails
  <2> QED
    BY <1>1, <1>2, <2>1, EndsFacts DEF Inv, TypeOK
<1>6. CASE GenerateFails(p)
  <2>1. PICK k \in {0, 1, Torn} : keys' = [keys EXCEPT ![job[p].name] = k]
    BY <1>6 DEF GenerateFails
  <2>2. Ends(p) /\ UNCHANGED <<book, unseen>> /\ keys[job[p].name] = 0
    BY <1>6 DEF GenerateFails
  <2>3. keys' \in [Roles -> Nat \cup {Torn}]
    <3>1. k \in Nat \cup {Torn} /\ keys \in [Roles -> Nat \cup {Torn}]
      BY <1>1 DEF TypeOK
    <3> QED
      BY <2>1, <3>1
  <2>4. \A r \in Roles : keys'[r] = keys[r] \/ (keys[r] = 0 /\ HotOf(book))
    BY <1>1, <2>1, <2>2 DEF HotInv, TypeOK
  <2> QED
    BY <1>1, <1>2, <2>2, <2>3, <2>4, EndsFacts DEF Inv, TypeOK
<1>7. CASE Save(p)
  <2>1. book' = job[p].copy /\ Ends(p) /\ keys' = keys
    BY <1>7 DEF Save
  <2>2. book' \in Book
    BY <1>3, <2>1 DEF Job
  <2>3. \A q \in Processes : job'[q] = IF q = p THEN Idle ELSE job[q]
    BY <1>1, <2>1 DEF Ends, TypeOK
  <2>4. job' \in [Processes -> Job]
    BY <1>1, <2>1, EntryFacts DEF Ends, TypeOK
  <2>5. /\ unseen' \in [Processes -> SUBSET Roles]
        /\ \A q \in Processes : q # p => unseen'[q] = unseen[q] \cup Differs(book, book')
    BY <1>1, <1>7 DEF Save, TypeOK, Differs
  <2>6. HotInv'
    BY <1>1, <2>1, <2>3 DEF HotInv, HotOf, GeneratesOwn, Idle, EmptyBook
  <2>7. CopyInv'
    BY <1>1, <2>3, <2>5 DEF CopyInv, Differs, Idle
  <2> QED
    BY <1>1, <1>2, <2>1, <2>2, <2>4, <2>5, <2>6, <2>7 DEF Inv, TypeOK
<1> QED
  BY <1>4, <1>5, <1>6, <1>7

\* A call of the monitor that is given up goes on as if it were another's.
LEMMA NoAnswerInv ==
  ASSUME Inv, NEW c \in Clients, NoAnswer(c)
  PROVE  Inv'
<1> USE RoleFacts
<1>1. TypeOK /\ HotInv /\ CopyInv /\ GeneratesOwn
  BY DEF Inv, HotInv
<1>2. PICK left \in {Idle, Hung} :
        job' = [job EXCEPT ![Monitor] = left, ![c] = job[Monitor]]
  BY DEF NoAnswer
<1>3. /\ unseen' = [unseen EXCEPT ![Monitor] = {}, ![c] = unseen[Monitor]]
      /\ UNCHANGED <<book, keys, commands>>
      /\ job[Monitor].step \in {"generate", "save"}
      /\ faults < MaxFaults /\ faults' = faults + 1
  BY DEF NoAnswer
<1>4. left \in Job /\ left.step \notin {"generate", "save"} /\ left.copy["hot"] = Nobody
  BY EntryFacts DEF Idle, Hung, EmptyBook
<1>5. c # Monitor /\ c \in Processes
  OBVIOUS
<1>6. \A q \in Processes :
        /\ job'[q] = IF q = c THEN job[Monitor] ELSE IF q = Monitor THEN left ELSE job[q]
        /\ unseen'[q] = IF q = c THEN unseen[Monitor]
                        ELSE IF q = Monitor THEN {} ELSE unseen[q]
  BY <1>1, <1>2, <1>3, <1>5 DEF TypeOK
<1>7. job' \in [Processes -> Job] /\ unseen' \in [Processes -> SUBSET Roles]
  BY <1>1, <1>2, <1>3, <1>4 DEF TypeOK
<1>8. faults' \in 0..MaxFaults
  BY <1>1, <1>3, BookAssumption DEF TypeOK
<1>9. HotInv'
  <2>1. GeneratesOwn'
    BY <1>1, <1>4, <1>6 DEF GeneratesOwn
  <2>2. \A q \in Processes : HotOf(job[q].copy)'
    BY <1>1, <1>3, <1>4, <1>6 DEF HotInv, HotOf
  <2> QED
    BY <1>1, <1>3, <2>1, <2>2 DEF HotInv, HotOf
<1>10. CopyInv'
  <2> SUFFICES ASSUME NEW q \in Processes, job'[q].step \in {"generate", "save"},
                      job'[q].op # "init",
                      NEW r \in Roles \ {job'[q].name}, r \notin unseen'[q]
               PROVE  job'[q].copy[r] = book'[r]
    BY DEF CopyInv
  <2>1. CASE q = c
    <3>1. job'[q] = job[Monitor] /\ unseen'[q] = unseen[Monitor]
      BY <1>6, <2>1
    <3> QED
      BY <1>1, <1>3, <3>1 DEF CopyInv
  <2>2. CASE q # c /\ q # Monitor
    <3>1. job'[q] = job[q] /\ unseen'[q] = unseen[q]
      BY <1>6, <2>2
    <3> QED
      BY <1>1, <1>3, <3>1 DEF CopyInv
  <2>3. CASE q # c /\ q = Monitor
    BY <1>4, <1>6, <2>3
  <2> QED
    BY <2>1, <2>2, <2>3
<1> QED
  BY <1>1, <1>3, <1>7, <1>8, <1>9, <1>10 DEF Inv, TypeOK

LEMMA StepInv ==
  ASSUME Inv, [Next]_vars
  PROVE  Inv'
<1>1. CASE Next
  BY <1>1, CommandInv, EnsureInv, AgentInv, NoAnswerInv DEF Next
<1>2. CASE UNCHANGED vars
  BY <1>2 DEF vars, Inv, TypeOK, HotInv, HotOf, GeneratesOwn, CopyInv
<1> QED
  BY <1>1, <1>2

LEMMA InvAlways == Spec => []Inv
<1>1. Inv /\ [Next]_vars => Inv'
  BY StepInv
<1> QED
  BY InitInv, <1>1, PTL DEF Spec

-----------------------------------------------------------------------------
(***************************************************************************)
(* The book, the key files and the copies of every process keep their      *)
(* types: an entry made from a failed read or a torn key never gets in.    *)
(***************************************************************************)
THEOREM TypeCorrect == Spec => []TypeOK
BY InvAlways, PTL DEF Inv

(***************************************************************************)
(* The hot wallet of the book is always the one hot.key signs for.         *)
(***************************************************************************)
THEOREM HotIsKeysAlways == Spec => []HotIsKeys
<1>1. Inv => HotIsKeys
  BY DEF Inv, HotInv, HotOf, HotIsKeys
<1> QED
  BY InvAlways, <1>1, PTL

(***************************************************************************)
(* Whatever a save changes beyond the role of its command, the process     *)
(* that saves had not read as the file has it now.                         *)
(***************************************************************************)
THEOREM NothingElseChangesAlways == Spec => NothingElseChanges
<1> DEFINE Step ==
      \A r \in Differs(book, book') :
        \E p \in Processes :
          /\ job[p].step = "save"
          /\ job'[p] = Idle
          /\ \/ job[p].name = r
             \/ job[p].op = "init"
             \/ r \in unseen[p]
<1>1. Inv /\ [Next]_vars => [Step]_vars
  <2> SUFFICES ASSUME Inv, Next, NEW r \in Differs(book, book')
               PROVE  \E p \in Processes :
                        /\ job[p].step = "save"
                        /\ job'[p] = Idle
                        /\ \/ job[p].name = r
                           \/ job[p].op = "init"
                           \/ r \in unseen[p]
    BY DEF vars
  <2>1. r \in Roles /\ book[r] # book'[r]
    BY DEF Differs
  <2>2. PICK p \in Processes : Save(p)
    BY <2>1 DEF Next, InitBook, Del, New, Add, Up, EnsureHotWallet, Begin, Generates,
       GenerateRefused, GenerateFails, SaveFails, NoAnswer
  <2>3. job[p].step = "save" /\ book' = job[p].copy /\ job'[p] = Idle
    BY <2>2 DEF Save, Ends, Inv, TypeOK
  <2> QED
    BY <2>1, <2>3 DEF Inv, CopyInv
<1>2. Spec => [][Step]_vars
  BY InvAlways, <1>1, PTL DEF Spec
<1> QED
  BY <1>2 DEF NothingElseChanges
=============================================================================
