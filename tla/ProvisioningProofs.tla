------------------------- MODULE ProvisioningProofs -------------------------
(***************************************************************************)
(* Theorems about Provisioning: it implements BeaconScanner, so whatever   *)
(* was proved of the scanner holds of it, and what the handlers add to     *)
(* vms.json is sound.                                                      *)
(***************************************************************************)
EXTENDS Provisioning, TLAPS

\* The scanner and what is proved of it, with vms.json in place of recorded.
Proved == INSTANCE BeaconScannerProofs WITH recorded <- Recorded

\* No subscriber has two subscriptions: without it the fallback of lookupVmName
\* by owner may choose the VM of another one.
OneSubscriptionEach == \A a, b \in Beacons : Owner[a] = Owner[b] => a = b

LEMMA ScannerConstants == Proved!ScannerAssumption /\ Scanner!ScannerAssumption
BY ProvisioningAssumption DEF Proved!ScannerAssumption, Scanner!ScannerAssumption

-----------------------------------------------------------------------------
\* The shape of vms.json and what a handler has in hand; the values that come
\* from a datum are left to TypeOK, since this is proved before the scanner's
\* own invariants are known to hold here.
IsEntry(e) ==
  /\ e = [beacon |-> e.beacon, nft |-> e.nft, expiry |-> e.expiry,
          madeFor |-> e.madeFor, late |-> e.late, raised |-> e.raised]
  /\ e.madeFor \in Beacons
  /\ e.beacon \in {None, e.madeFor}
  /\ e.nft \in BOOLEAN

HandlerInv ==
  /\ nextVm \in 1..(MaxVms + 1)
  /\ DOMAIN vms \subseteq 1..(nextVm - 1)
  /\ \A v \in DOMAIN vms : IsEntry(vms[v])
  /\ nfts \subseteq 1..(nextVm - 1)
  /\ job = [step |-> job.step, vm |-> job.vm]
  /\ job.step \in {"idle", "record", "mint", "mark", "resume"}
  /\ job.step # "idle" => job.vm \in DOMAIN vms
  /\ job.step = "record" => vms[job.vm].madeFor \in DOMAIN diff.created
  /\ diff = [created |-> diff.created, extended |-> diff.extended,
              removed |-> diff.removed]

\* What a step of the chain, the scanner or the clock does to the handlers.
LEMMA ScannerSteps ==
  ASSUME ChainStep \/ ScanStep \/ TickStep
  PROVE  /\ UNCHANGED provVars
         /\ \/ diff' = diff
            \/ job = Idle /\ diff' = [created |-> diff'.created, extended |-> diff'.extended,
                                      removed |-> diff'.removed]
<1>1. CASE ChainStep \/ TickStep
  BY <1>1 DEF ChainStep, TickStep, Scanner!Subscribe, Scanner!Respend, Scanner!Burn,
              Scanner!Tick
<1>2. CASE ScanStep
  BY <1>2 DEF ScanStep, Scanner!ScanPartial, Scanner!ScanThrows, Scanner!Scan, Scanner!DiffOf
<1> QED
  BY <1>1, <1>2

\* Taking an event out of diff.
LEMMA TakenEvent ==
  ASSUME HandlerInv, NEW b,
         NEW kind \in {"created", "extended", "removed"}, Taken(kind, b)
  PROVE  /\ diff' = [created |-> diff'.created, extended |-> diff'.extended,
                     removed |-> diff'.removed]
         /\ kind = "created" => /\ diff' = [diff EXCEPT !.created = Scanner!Without(@, b)]
                                /\ diff'.created = Scanner!Without(diff.created, b)
                                /\ UNCHANGED <<diff.extended, diff.removed>>
         /\ kind = "extended" => /\ diff' = [diff EXCEPT !.extended = Scanner!Without(@, b)]
                                 /\ diff'.extended = Scanner!Without(diff.extended, b)
                                 /\ UNCHANGED <<diff.created, diff.removed>>
         /\ kind = "removed" => /\ diff' = [diff EXCEPT !.removed = Scanner!Without(@, b)]
                                /\ diff'.removed = Scanner!Without(diff.removed, b)
                                /\ UNCHANGED <<diff.created, diff.extended>>
BY DEF HandlerInv, Taken
\* The fields a handler writes, one entry at a time.
LEMMA BeaconWritten ==
  ASSUME NEW e, IsEntry(e), NEW f, f = [e EXCEPT !.beacon = e.madeFor]
  PROVE  /\ IsEntry(f) /\ f.beacon = e.madeFor /\ f.madeFor = e.madeFor
         /\ f.expiry = e.expiry /\ f.late = e.late /\ f.raised = e.raised
<1> DEFINE R(bc) == [beacon |-> bc, nft |-> e.nft, expiry |-> e.expiry,
                     madeFor |-> e.madeFor, late |-> e.late, raised |-> e.raised]
<1>1. f = R(e.madeFor)
  BY DEF IsEntry
<1> QED
  BY <1>1 DEF IsEntry

LEMMA NftWritten ==
  ASSUME NEW e, IsEntry(e), NEW x \in BOOLEAN, NEW f, f = [e EXCEPT !.nft = x]
  PROVE  /\ IsEntry(f) /\ f.beacon = e.beacon /\ f.madeFor = e.madeFor
         /\ f.expiry = e.expiry /\ f.late = e.late /\ f.raised = e.raised
<1>1. f = [beacon |-> e.beacon, nft |-> x, expiry |-> e.expiry,
           madeFor |-> e.madeFor, late |-> e.late, raised |-> e.raised]
  BY DEF IsEntry
<1> QED
  BY <1>1 DEF IsEntry

\* extend-expiry writes the term of one entry, found by beacon or by owner.
LEMMA ExtendStep ==
  ASSUME HandlerInv, NEW b \in Beacons, ExtendVm(b)
  PROVE  LET old == diff.extended[b].old
             new == diff.extended[b].new
         IN  \E v \in LookupVm(b, new) :
               /\ v \in DOMAIN vms /\ DOMAIN vms' = DOMAIN vms
               /\ \A w \in DOMAIN vms : w # v => vms'[w] = vms[w]
               /\ IsEntry(vms'[v]) /\ vms'[v].madeFor = vms[v].madeFor
               /\ vms'[v].beacon = vms[v].beacon /\ vms'[v].late = vms[v].late
               /\ vms'[v].expiry =
                    vms[v].expiry + DAY * AdditionalDays(old.expiry, new.expiry)
               /\ vms'[v].raised =
                    vms[v].raised + (IF new.expiry > old.expiry
                                     THEN Raised(new.expiry - old.expiry) ELSE 0)
<1> DEFINE old == diff.extended[b].old
           new == diff.extended[b].new
           days == DAY * AdditionalDays(old.expiry, new.expiry)
           times == IF new.expiry > old.expiry THEN Raised(new.expiry - old.expiry) ELSE 0
<1>1. PICK v \in LookupVm(b, new) :
        vms' = [vms EXCEPT ![v].expiry = @ + days, ![v].raised = @ + times]
  BY DEF ExtendVm
<1>2. v \in DOMAIN vms
  BY DEF LookupVm, VmsOfBeacon
<1> HIDE DEF days, times
<1>3. /\ DOMAIN vms' = DOMAIN vms
      /\ vms'[v] = [[vms[v] EXCEPT !.expiry = @ + days] EXCEPT !.raised = @ + times]
      /\ \A w \in DOMAIN vms : w # v => vms'[w] = vms[w]
  BY <1>1, <1>2
<1>4. IsEntry(vms[v])
  BY <1>2 DEF HandlerInv
<1>5. PICK bc, nf, ex, mf, la, ra :
        vms[v] = [beacon |-> bc, nft |-> nf, expiry |-> ex, madeFor |-> mf,
                  late |-> la, raised |-> ra]
  BY <1>4 DEF IsEntry
<1>6. /\ vms[v].beacon = bc /\ vms[v].nft = nf /\ vms[v].madeFor = mf
      /\ vms[v].expiry = ex /\ vms[v].late = la /\ vms[v].raised = ra
  BY <1>5
<1> DEFINE R(expiry, raised) == [beacon |-> bc, nft |-> nf, expiry |-> expiry,
                                 madeFor |-> mf, late |-> la, raised |-> raised]
<1>7. [vms[v] EXCEPT !.expiry = @ + days] = R(ex + days, ra)
  BY <1>5
<1>8. [R(ex + days, ra) EXCEPT !.raised = @ + times] = R(ex + days, ra + times)
  OBVIOUS
<1>9. vms'[v] = R(ex + days, ra + times)
  BY <1>3, <1>7, <1>8
<1>10. /\ vms'[v].beacon = bc /\ vms'[v].nft = nf /\ vms'[v].madeFor = mf
       /\ vms'[v].expiry = ex + days /\ vms'[v].raised = ra + times
       /\ vms'[v].late = la
       /\ IsEntry(vms'[v])
  BY <1>4, <1>6, <1>9 DEF IsEntry
<1> USE DEF days, times
<1> QED
  BY <1>1, <1>2, <1>3, <1>6, <1>10

\* What each handler step does to vms.json, seen from outside: the entries
\* it leaves keep what they were made for.
LEMMA VmsSteps ==
  ASSUME HandlerInv
  PROVE  /\ \A b \in Beacons : CreateVm(b) =>
              /\ nextVm \notin DOMAIN vms
              /\ DOMAIN vms' = DOMAIN vms \cup {nextVm}
              /\ \A v \in DOMAIN vms : vms'[v] = vms[v]
              /\ IsEntry(vms'[nextVm])
              /\ vms'[nextVm].beacon = None /\ vms'[nextVm].madeFor = b
              /\ LET expiry == diff.created[b].expiry IN \E now \in Delays :
                   /\ vms'[nextVm].expiry = now + DAY * ExpiryDays(expiry, now)
                   /\ vms'[nextVm].late = Late(expiry, now)
                   /\ vms'[nextVm].raised = Raised(Left(expiry, now))
         /\ \A b \in Beacons : DestroyVm(b) =>
              \E v \in LookupVm(b, diff.removed[b]) :
                /\ v \in DOMAIN vms /\ DOMAIN vms' = DOMAIN vms \ {v}
                /\ \A w \in DOMAIN vms' : vms'[w] = vms[w]
         /\ (RecordBeacon \/ MarkNftMinted \/ \E b \in Beacons : ExtendVm(b)) =>
              /\ DOMAIN vms' = DOMAIN vms
              /\ \A v \in DOMAIN vms : IsEntry(vms'[v]) /\ vms'[v].madeFor = vms[v].madeFor
         /\ (MarkNftMinted \/ \E b \in Beacons : ExtendVm(b)) =>
              \A v \in DOMAIN vms : vms'[v].beacon = vms[v].beacon
         /\ RecordBeacon \/ MarkNftMinted =>
              \A v \in DOMAIN vms :
                /\ vms'[v].expiry = vms[v].expiry /\ vms'[v].raised = vms[v].raised
                /\ vms'[v].late = vms[v].late
         /\ RecordBeacon =>
              \A v \in DOMAIN vms :
                \/ vms'[v].beacon = vms[v].beacon
                \/ v = job.vm /\ vms'[v].beacon = vms[v].madeFor
<1>1. ASSUME NEW b \in Beacons, CreateVm(b)
      PROVE  /\ nextVm \notin DOMAIN vms
             /\ DOMAIN vms' = DOMAIN vms \cup {nextVm}
             /\ \A v \in DOMAIN vms : vms'[v] = vms[v]
             /\ IsEntry(vms'[nextVm])
             /\ vms'[nextVm].beacon = None /\ vms'[nextVm].madeFor = b
             /\ LET expiry == diff.created[b].expiry IN \E now \in Delays :
                  /\ vms'[nextVm].expiry = now + DAY * ExpiryDays(expiry, now)
                  /\ vms'[nextVm].late = Late(expiry, now)
                  /\ vms'[nextVm].raised = Raised(Left(expiry, now))
  <2>1. nextVm \notin DOMAIN vms
    BY DEF HandlerInv
  <2>2. PICK now \in Delays :
          vms' = [v \in DOMAIN vms \cup {nextVm} |->
            IF v = nextVm
            THEN [beacon |-> None, nft |-> FALSE,
                  expiry |-> now + DAY * ExpiryDays(diff.created[b].expiry, now),
                  madeFor |-> b, late |-> Late(diff.created[b].expiry, now),
                  raised |-> Raised(Left(diff.created[b].expiry, now))]
            ELSE vms[v]]
    BY <1>1 DEF CreateVm
  <2>3. vms'[nextVm] =
          [beacon |-> None, nft |-> FALSE,
           expiry |-> now + DAY * ExpiryDays(diff.created[b].expiry, now),
           madeFor |-> b, late |-> Late(diff.created[b].expiry, now),
           raised |-> Raised(Left(diff.created[b].expiry, now))]
    BY <2>2
  <2>4. /\ IsEntry(vms'[nextVm])
        /\ vms'[nextVm].beacon = None /\ vms'[nextVm].madeFor = b
        /\ vms'[nextVm].expiry = now + DAY * ExpiryDays(diff.created[b].expiry, now)
        /\ vms'[nextVm].late = Late(diff.created[b].expiry, now)
        /\ vms'[nextVm].raised = Raised(Left(diff.created[b].expiry, now))
    BY <2>3 DEF IsEntry
  <2> QED
    BY <2>1, <2>2, <2>4
<1>2. ASSUME NEW b \in Beacons, DestroyVm(b)
      PROVE  \E v \in LookupVm(b, diff.removed[b]) :
                /\ v \in DOMAIN vms /\ DOMAIN vms' = DOMAIN vms \ {v}
                /\ \A w \in DOMAIN vms' : vms'[w] = vms[w]
  <2>1. PICK v \in LookupVm(b, diff.removed[b]) : vms' = Scanner!Without(vms, v)
    BY <1>2 DEF DestroyVm
  <2>2. v \in DOMAIN vms
    BY DEF LookupVm, VmsOfBeacon
  <2> QED
    BY <2>1, <2>2 DEF Scanner!Without
<1>3. ASSUME RecordBeacon
      PROVE  /\ DOMAIN vms' = DOMAIN vms
             /\ \A v \in DOMAIN vms : /\ IsEntry(vms'[v])
                                      /\ vms'[v].madeFor = vms[v].madeFor
                                      /\ vms'[v].expiry = vms[v].expiry
                                      /\ vms'[v].late = vms[v].late
                                      /\ vms'[v].raised = vms[v].raised
             /\ \A v \in DOMAIN vms :
                  \/ vms'[v].beacon = vms[v].beacon
                  \/ v = job.vm /\ vms'[v].beacon = vms[v].madeFor
  <2>1. vms' \in {vms, [vms EXCEPT ![job.vm].beacon = vms[job.vm].madeFor]}
        /\ job.vm \in DOMAIN vms
    BY <1>3 DEF RecordBeacon, HandlerInv
  <2>2. CASE vms' = vms
    BY <2>2 DEF HandlerInv
  <2>3. CASE vms' = [vms EXCEPT ![job.vm].beacon = vms[job.vm].madeFor]
    <3>1. /\ DOMAIN vms' = DOMAIN vms
          /\ vms'[job.vm] = [vms[job.vm] EXCEPT !.beacon = vms[job.vm].madeFor]
          /\ \A v \in DOMAIN vms : v # job.vm => vms'[v] = vms[v]
      BY <2>1, <2>3
    <3>2. IsEntry(vms[job.vm])
      BY <2>1 DEF HandlerInv
    <3>3. \A v \in DOMAIN vms : v # job.vm => IsEntry(vms'[v])
      BY <3>1 DEF HandlerInv
    <3>4. /\ IsEntry(vms'[job.vm]) /\ vms'[job.vm].madeFor = vms[job.vm].madeFor
          /\ vms'[job.vm].beacon = vms[job.vm].madeFor
          /\ vms'[job.vm].expiry = vms[job.vm].expiry
          /\ vms'[job.vm].late = vms[job.vm].late
          /\ vms'[job.vm].raised = vms[job.vm].raised
      BY <3>1, <3>2, BeaconWritten
    <3> QED
      BY <3>1, <3>3, <3>4
  <2> QED
    BY <2>1, <2>2, <2>3
<1>4. ASSUME MarkNftMinted
      PROVE  /\ DOMAIN vms' = DOMAIN vms
             /\ \A v \in DOMAIN vms : /\ IsEntry(vms'[v])
                                      /\ vms'[v].madeFor = vms[v].madeFor
                                      /\ vms'[v].beacon = vms[v].beacon
                                      /\ vms'[v].expiry = vms[v].expiry
                                      /\ vms'[v].late = vms[v].late
                                      /\ vms'[v].raised = vms[v].raised
  <2>1. vms' \in {vms, [vms EXCEPT ![job.vm].nft = TRUE]} /\ job.vm \in DOMAIN vms
    BY <1>4 DEF MarkNftMinted, HandlerInv
  <2>2. CASE vms' = vms
    BY <2>2 DEF HandlerInv
  <2>3. CASE vms' = [vms EXCEPT ![job.vm].nft = TRUE]
    <3>1. PICK x \in BOOLEAN :
          /\ DOMAIN vms' = DOMAIN vms
          /\ vms'[job.vm] = [vms[job.vm] EXCEPT !.nft = x]
          /\ \A v \in DOMAIN vms : v # job.vm => vms'[v] = vms[v]
      BY <2>1, <2>3
    <3>2. IsEntry(vms[job.vm])
      BY <2>1 DEF HandlerInv
    <3>3. \A v \in DOMAIN vms : v # job.vm => IsEntry(vms'[v])
      BY <3>1 DEF HandlerInv
    <3>4. /\ IsEntry(vms'[job.vm]) /\ vms'[job.vm].madeFor = vms[job.vm].madeFor
          /\ vms'[job.vm].beacon = vms[job.vm].beacon
          /\ vms'[job.vm].expiry = vms[job.vm].expiry
          /\ vms'[job.vm].late = vms[job.vm].late
          /\ vms'[job.vm].raised = vms[job.vm].raised
      BY <3>1, <3>2, NftWritten
    <3> QED
      BY <3>1, <3>3, <3>4
  <2> QED
    BY <2>1, <2>2, <2>3
<1>5. ASSUME NEW b \in Beacons, ExtendVm(b)
      PROVE  /\ DOMAIN vms' = DOMAIN vms
             /\ \A v \in DOMAIN vms : IsEntry(vms'[v]) /\ vms'[v].madeFor = vms[v].madeFor
                                      /\ vms'[v].beacon = vms[v].beacon
  BY <1>5, ExtendStep DEF HandlerInv
<1> QED
  BY <1>1, <1>2, <1>3, <1>4, <1>5
\* The handlers and what they have in hand stay in step with vms.json.
LEMMA HandlersAreSound == Spec => []HandlerInv
<1>1. Init => HandlerInv
  BY ProvisioningAssumption DEF Init, HandlerInv, Idle, Scanner!Init, Scanner!EmptyDiff
<1>2. HandlerInv /\ [Next]_vars => HandlerInv'
  <2> SUFFICES ASSUME HandlerInv, [Next]_vars PROVE HandlerInv'
    OBVIOUS
  <2> DEFINE DiffShape == diff = [created |-> diff.created, extended |-> diff.extended,
                                  removed |-> diff.removed]
  <2>1. CASE ChainStep \/ ScanStep \/ TickStep
    <3>1. UNCHANGED <<vms, nextVm, nfts, job>> /\ (diff' = diff \/ (job = Idle /\ DiffShape'))
      BY <2>1, ScannerSteps DEF provVars
    <3> QED
      BY <3>1 DEF HandlerInv, Idle
  <2>2. CASE Crash
    <3>1. UNCHANGED <<vms, nextVm, nfts>> /\ job' = Idle /\ DiffShape'
      BY <2>2 DEF Crash, Scanner!Restart, Scanner!EmptyDiff
    <3> QED
      BY <3>1 DEF HandlerInv, Idle
  <2>3. ASSUME NEW b \in Beacons, AbortCreated(b) PROVE HandlerInv'
    <3>1. DiffShape' /\ job = Idle /\ UNCHANGED <<vms, nfts, job>>
      BY <2>3, TakenEvent DEF AbortCreated
    <3>2. nextVm' \in {nextVm, nextVm + 1} /\ nextVm' \in 1..(MaxVms + 1)
      BY <2>3 DEF AbortCreated
    <3>3. 1..(nextVm - 1) \subseteq 1..(nextVm' - 1)
      BY <3>2 DEF HandlerInv
    <3> QED
      BY <3>1, <3>2, <3>3 DEF HandlerInv, Idle
  <2>4. ASSUME NEW b \in Beacons, CreateVm(b) PROVE HandlerInv'
    <3>1. /\ job' = [step |-> "record", vm |-> nextVm]
          /\ nextVm' = nextVm + 1 /\ nextVm <= MaxVms /\ b \in DOMAIN diff.created
          /\ UNCHANGED <<nfts, diff>>
      BY <2>4 DEF CreateVm
    <3>2. /\ DOMAIN vms' = DOMAIN vms \cup {nextVm}
          /\ \A v \in DOMAIN vms : vms'[v] = vms[v]
          /\ IsEntry(vms'[nextVm]) /\ vms'[nextVm].madeFor = b
      BY <2>4, VmsSteps
    <3>3. nextVm' \in 1..(MaxVms + 1) /\ 1..(nextVm' - 1) = 1..(nextVm - 1) \cup {nextVm}
      BY <3>1, ProvisioningAssumption DEF HandlerInv
    <3>4. \A v \in DOMAIN vms' : IsEntry(vms'[v])
      BY <3>2 DEF HandlerInv
    <3> QED
      BY <3>1, <3>2, <3>3, <3>4 DEF HandlerInv
  <2>5. ASSUME NEW b \in Beacons, ExtendVm(b) PROVE HandlerInv'
    <3>1. DiffShape' /\ diff'.created = diff.created
      BY <2>5, TakenEvent DEF ExtendVm
    <3>2. \A v \in LookupVm(b, diff.extended[b].new) : v \in DOMAIN vms
      BY DEF LookupVm, VmsOfBeacon
    <3>3. /\ UNCHANGED <<nextVm, nfts>>
          /\ job' = Idle \/ \E v \in DOMAIN vms : job' = [step |-> "resume", vm |-> v]
      BY <2>5, <3>2 DEF ExtendVm, Idle
    <3>4. DOMAIN vms' = DOMAIN vms /\ \A v \in DOMAIN vms : IsEntry(vms'[v])
      BY <2>5, VmsSteps
    <3> QED
      BY <3>1, <3>3, <3>4 DEF HandlerInv, Idle
  <2>6. ASSUME NEW b \in Beacons, AbortExtended(b) \/ AbortRemoved(b) PROVE HandlerInv'
    <3>1. DiffShape' /\ job = Idle /\ UNCHANGED <<vms, nextVm, nfts, job>>
      BY <2>6, TakenEvent DEF AbortExtended, AbortRemoved, RemovalIsNext
    <3> QED
      BY <3>1 DEF HandlerInv, Idle
  <2>7. ASSUME NEW b \in Beacons, DestroyVm(b) PROVE HandlerInv'
    <3>1. DiffShape' /\ job = Idle /\ UNCHANGED <<nextVm, nfts, job>>
      BY <2>7, TakenEvent DEF DestroyVm, RemovalIsNext
    <3>2. DOMAIN vms' \subseteq DOMAIN vms /\ \A v \in DOMAIN vms' : vms'[v] = vms[v]
      BY <2>7, VmsSteps
    <3> QED
      BY <3>1, <3>2 DEF HandlerInv, Idle
  <2>8. CASE RecordBeacon
    <3>1. DiffShape' /\ UNCHANGED <<nextVm, nfts>> /\ job.step = "record"
          /\ job' = [job EXCEPT !.step = "mint"]
      BY <2>8, TakenEvent DEF RecordBeacon
    <3>2. job' = [step |-> "mint", vm |-> job.vm]
      BY <3>1 DEF HandlerInv
    <3>3. DOMAIN vms' = DOMAIN vms /\ \A v \in DOMAIN vms : IsEntry(vms'[v])
      BY <2>8, VmsSteps
    <3> QED
      BY <3>1, <3>2, <3>3 DEF HandlerInv
  <2>9. CASE GiveUp \/ ResumeVm
    BY <2>9 DEF GiveUp, ResumeVm, HandlerInv, Idle
  <2>10. CASE MintNft
    <3>1. /\ job.step = "mint" /\ nfts' \in {nfts, nfts \cup {job.vm}}
          /\ job' \in {[job EXCEPT !.step = "mark"], Idle}
          /\ UNCHANGED <<vms, nextVm, diff>>
      BY <2>10 DEF MintNft
    <3>2. job' = [step |-> "mark", vm |-> job.vm] \/ job' = Idle
      BY <3>1 DEF HandlerInv
    <3>3. nfts' \subseteq 1..(nextVm - 1)
      BY <3>1 DEF HandlerInv
    <3> QED
      BY <3>1, <3>2, <3>3 DEF HandlerInv, Idle
  <2>11. CASE MarkNftMinted
    <3>1. UNCHANGED <<nextVm, nfts, diff>> /\ job' = Idle
      BY <2>11 DEF MarkNftMinted
    <3>2. DOMAIN vms' = DOMAIN vms /\ \A v \in DOMAIN vms : IsEntry(vms'[v])
      BY <2>11, VmsSteps
    <3> QED
      BY <3>1, <3>2 DEF HandlerInv, Idle
  <2>12. CASE UNCHANGED vars
    BY <2>12 DEF vars, provVars, HandlerInv
  <2> QED
    BY <2>1, <2>2, <2>3, <2>4, <2>5, <2>6, <2>7, <2>8, <2>9, <2>10, <2>11, <2>12 DEF Next
<1> QED
  BY <1>1, <1>2, PTL DEF Spec
-----------------------------------------------------------------------------
\* What loadKnownBeacons would restore after each handler step.
LEMMA RecordedKept ==
  ASSUME HandlerInv,
         \/ UNCHANGED vms
         \/ \E b \in Beacons : CreateVm(b) \/ ExtendVm(b)
         \/ MarkNftMinted
  PROVE  Recorded' = Recorded
<1>1. CASE UNCHANGED vms
  BY <1>1 DEF Recorded
<1>2. ASSUME NEW b \in Beacons, CreateVm(b) PROVE Recorded' = Recorded
  <2>1. /\ DOMAIN vms' = DOMAIN vms \cup {nextVm}
        /\ \A v \in DOMAIN vms : vms'[v] = vms[v]
        /\ vms'[nextVm].beacon = None
    BY <1>2, VmsSteps
  <2> QED
    BY <2>1 DEF Recorded
<1>3. CASE MarkNftMinted \/ \E b \in Beacons : ExtendVm(b)
  <2>1. DOMAIN vms' = DOMAIN vms /\ \A v \in DOMAIN vms : vms'[v].beacon = vms[v].beacon
    BY <1>3, VmsSteps
  <2> QED
    BY <2>1 DEF Recorded
<1> QED
  BY <1>1, <1>2, <1>3

LEMMA RecordedByRecord ==
  ASSUME HandlerInv, RecordBeacon
  PROVE  Recorded' \in {Recorded, Recorded \cup {vms[job.vm].madeFor}}
<1>1. /\ DOMAIN vms' = DOMAIN vms
      /\ \A v \in DOMAIN vms : \/ vms'[v].beacon = vms[v].beacon
                               \/ v = job.vm /\ vms'[v].beacon = vms[v].madeFor
  BY VmsSteps
<1>2. /\ job.vm \in DOMAIN vms
      /\ vms[job.vm].beacon \in {None, vms[job.vm].madeFor}
      /\ vms[job.vm].madeFor # None
  BY ProvisioningAssumption DEF RecordBeacon, HandlerInv, IsEntry
<1>3. CASE vms'[job.vm].beacon = vms[job.vm].beacon
  <2>1. \A v \in DOMAIN vms : vms'[v].beacon = vms[v].beacon
    BY <1>1, <1>3
  <2> QED
    BY <1>1, <2>1 DEF Recorded
<1>4. CASE vms'[job.vm].beacon = vms[job.vm].madeFor
  <2>1. \A v \in DOMAIN vms : v # job.vm => vms'[v].beacon = vms[v].beacon
    BY <1>1
  <2>2. Recorded' = {vms'[v].beacon : v \in DOMAIN vms} \ {None}
    BY <1>1 DEF Recorded
  <2>3. Recorded' \subseteq Recorded \cup {vms[job.vm].madeFor}
    BY <1>4, <2>1, <2>2 DEF Recorded
  <2>4. vms[job.vm].madeFor \in Recorded'
    BY <1>2, <1>4, <2>2
  <2>5. ASSUME NEW x \in Recorded PROVE x \in Recorded'
    <3>1. PICK v \in DOMAIN vms : x = vms[v].beacon /\ x # None
      BY DEF Recorded
    <3>2. CASE v = job.vm
      BY <1>2, <2>4, <3>1, <3>2
    <3>3. CASE v # job.vm
      BY <2>1, <2>2, <3>1, <3>3
    <3> QED
      BY <3>2, <3>3
  <2> QED
    BY <2>3, <2>4, <2>5
<1> QED
  BY <1>1, <1>2, <1>3, <1>4

LEMMA RecordedByDestroy ==
  ASSUME HandlerInv, NEW b \in Beacons, DestroyVm(b)
  PROVE  Recorded' \in {Recorded} \cup
           {Recorded \ {c} : c \in Scanner!RemovalTargets(b, diff.removed[b])}
<1>1. PICK v \in LookupVm(b, diff.removed[b]) :
        /\ v \in DOMAIN vms /\ DOMAIN vms' = DOMAIN vms \ {v}
        /\ \A w \in DOMAIN vms' : vms'[w] = vms[w]
  BY VmsSteps
<1> DEFINE c == vms[v].beacon
<1>2. Recorded' = {vms[w].beacon : w \in DOMAIN vms \ {v}} \ {None}
  BY <1>1 DEF Recorded
<1>3. Recorded' \in {Recorded, Recorded \ {c}}
  <2>1. CASE \E w \in DOMAIN vms \ {v} : vms[w].beacon = c
    BY <1>2, <2>1 DEF Recorded
  <2>2. CASE \A w \in DOMAIN vms \ {v} : vms[w].beacon # c
    BY <1>1, <1>2, <2>2 DEF Recorded
  <2> QED
    BY <2>1, <2>2
<1>4. c = None => Recorded' = Recorded
  BY <1>3 DEF Recorded
<1>5. c # None => c \in Scanner!RemovalTargets(b, diff.removed[b])
  <2> SUFFICES ASSUME c # None PROVE c \in Scanner!RemovalTargets(b, diff.removed[b])
    OBVIOUS
  <2>1. c \in Recorded /\ c = vms[v].madeFor /\ b # None
    BY <1>1, ProvisioningAssumption DEF Recorded, HandlerInv, IsEntry
  <2>2. CASE VmsOfBeacon(b) # {}
    <3>1. c = b
      BY <1>1, <2>2 DEF LookupVm, VmsOfBeacon
    <3> QED
      BY <2>1, <3>1 DEF Scanner!RemovalTargets
  <2>3. CASE VmsOfBeacon(b) = {}
    <3>1. b \notin Recorded
      BY <2>3 DEF VmsOfBeacon, Recorded
    <3>2. ~diff.removed[b].placeholder /\ Owner[c] = Owner[b]
      BY <1>1, <2>1, <2>3 DEF LookupVm
    <3> QED
      BY <2>1, <3>1, <3>2 DEF Scanner!RemovalTargets
  <2> QED
    BY <2>2, <2>3
<1> QED
  BY <1>3, <1>4, <1>5

\* With the handlers' detail hidden Provisioning is BeaconScanner: each step
\* of a handler is the scanner's handler for the same event, or nothing.
THEOREM ImplementsScanner == Spec => ScannerSpec
<1>1. Init => Scanner!Init
  <2> SUFFICES ASSUME Init PROVE Scanner!Init
    OBVIOUS
  <2> QED
    BY DEF Init
<1>2. HandlerInv /\ [Next]_vars => [Scanner!Next]_(Scanner!vars)
  <2> SUFFICES ASSUME HandlerInv, [Next]_vars
               PROVE  Scanner!Next \/ UNCHANGED Scanner!vars
    OBVIOUS
  <2> USE DEF Scanner!chainVars, Scanner!scannerVars, Scanner!historyVars, pollVars
  <2>1. CASE ChainStep
    BY <2>1 DEF ChainStep, Scanner!Next
  <2>2. CASE ScanStep
    BY <2>2 DEF ScanStep, Scanner!Next
  <2>3. CASE TickStep
    BY <2>3 DEF TickStep, Scanner!Next
  <2>4. CASE Crash
    BY <2>4 DEF Crash, Scanner!Next
  <2>5. ASSUME NEW b \in Beacons, AbortCreated(b) PROVE Scanner!Next
    <3>1. Recorded' = Recorded
      BY <2>5, RecordedKept DEF AbortCreated
    <3>2. diff' = [diff EXCEPT !.created = Scanner!Without(@, b)]
      BY <2>5, TakenEvent DEF AbortCreated
    <3>3. Scanner!HandleCreated(b)
      BY <2>5, <3>1, <3>2 DEF AbortCreated, Scanner!HandleCreated
    <3> QED
      BY <3>3 DEF Scanner!Next
  <2>6. ASSUME NEW b \in Beacons, CreateVm(b) PROVE UNCHANGED Scanner!vars
    BY <2>6, RecordedKept DEF CreateVm, Scanner!vars
  <2>7. ASSUME NEW b \in Beacons, ExtendVm(b) \/ AbortExtended(b) PROVE Scanner!Next
    <3>1. Recorded' = Recorded
      BY <2>7, RecordedKept DEF AbortExtended
    <3>2. diff' = [diff EXCEPT !.extended = Scanner!Without(@, b)]
      BY <2>7, TakenEvent DEF ExtendVm, AbortExtended
    <3>3. Scanner!HandleExtended(b)
      BY <2>7, <3>1, <3>2 DEF ExtendVm, AbortExtended, Scanner!HandleExtended
    <3> QED
      BY <3>3 DEF Scanner!Next
  <2>8. ASSUME NEW b \in Beacons, DestroyVm(b) \/ AbortRemoved(b) PROVE Scanner!Next
    <3>1. Recorded' \in {Recorded} \cup
            {Recorded \ {c} : c \in Scanner!RemovalTargets(b, diff.removed[b])}
      BY <2>8, RecordedKept, RecordedByDestroy DEF AbortRemoved
    <3>2. diff' = [diff EXCEPT !.removed = Scanner!Without(@, b)]
      BY <2>8, TakenEvent DEF DestroyVm, AbortRemoved
    <3>3. Scanner!HandleRemoved(b)
      BY <2>8, <3>1, <3>2 DEF DestroyVm, AbortRemoved, RemovalIsNext, Scanner!HandleRemoved
    <3> QED
      BY <3>3 DEF Scanner!Next
  <2>9. CASE RecordBeacon
    <3> DEFINE b == vms[job.vm].madeFor
    <3>1. b \in Beacons /\ b \in DOMAIN diff.created
      BY <2>9 DEF RecordBeacon, HandlerInv, IsEntry
    <3>2. Recorded' \in {Recorded, Recorded \cup {b}}
      BY <2>9, RecordedByRecord
    <3>3. diff' = [diff EXCEPT !.created = Scanner!Without(@, b)]
      BY <2>9, TakenEvent DEF RecordBeacon
    <3>4. Scanner!HandleCreated(b)
      BY <2>9, <3>1, <3>2, <3>3 DEF RecordBeacon, Scanner!HandleCreated
    <3> QED
      BY <3>1, <3>4 DEF Scanner!Next
  <2>10. CASE GiveUp \/ MintNft \/ MarkNftMinted \/ ResumeVm
    BY <2>10, RecordedKept DEF GiveUp, MintNft, MarkNftMinted, ResumeVm, Scanner!vars
  <2>11. CASE UNCHANGED vars
    BY <2>11, RecordedKept DEF vars, provVars, Scanner!vars
  <2> QED
    BY <2>1, <2>2, <2>3, <2>4, <2>5, <2>6, <2>7, <2>8, <2>9, <2>10, <2>11 DEF Next
<1> QED
  BY <1>1, <1>2, HandlersAreSound, PTL DEF Spec, ScannerSpec, Scanner!Spec
-----------------------------------------------------------------------------
\* What BeaconScannerProofs shows of the scanner holds here; its instance of
\* the scanner and Provisioning's are the same formulas, operator by operator.
ScannerInv == Proved!TypeOK /\ Proved!RecordedInv /\ Proved!ReportInv

LEMMA ScannerFacts == Spec => []ScannerInv
<1>1. Proved!ScannerAssumption
  BY ScannerConstants
<1>2. ScannerSpec => Proved!Spec
  <2>1. Scanner!Init => Proved!Init
    BY DEF Scanner!Init, Proved!Init, Scanner!EmptyMap, Proved!EmptyMap, Scanner!EmptyDiff,
           Proved!EmptyDiff
  <2>2. UNCHANGED Scanner!vars => UNCHANGED Proved!vars
    BY DEF Scanner!vars, Proved!vars, Scanner!chainVars, Proved!chainVars, Scanner!scannerVars,
           Proved!scannerVars, Scanner!historyVars, Proved!historyVars
  <2>3. Scanner!Next => Proved!Next
    BY DEF Scanner!Next, Proved!Next,
           Scanner!Subscribe, Proved!Subscribe, Scanner!Respend,
           Proved!Respend, Scanner!Burn, Proved!Burn, Scanner!HandleCreated,
           Proved!HandleCreated, Scanner!HandleExtended, Proved!HandleExtended,
           Scanner!HandleRemoved, Proved!HandleRemoved, Scanner!ScanComplete,
           Proved!ScanComplete, Scanner!ScanPartial, Proved!ScanPartial,
           Scanner!ScanThrows, Proved!ScanThrows, Scanner!Tick, Proved!Tick,
           Scanner!Restart, Proved!Restart, Scanner!Scan, Proved!Scan,
           Scanner!chainVars, Proved!chainVars, Scanner!scannerVars,
           Proved!scannerVars, Scanner!historyVars, Proved!historyVars,
           Scanner!EmptyMap, Proved!EmptyMap, Scanner!EmptyDiff,
           Proved!EmptyDiff, Scanner!Without, Proved!Without, Scanner!Older,
           Proved!Older, Scanner!ConfirmSpan, Proved!ConfirmSpan,
           Scanner!Answers, Proved!Answers, Scanner!Restored, Proved!Restored,
           Scanner!PLACEHOLDER, Proved!PLACEHOLDER, Scanner!Observed,
           Proved!Observed, Scanner!IsVerifyTime, Proved!IsVerifyTime,
           Scanner!NewlyAbsent, Proved!NewlyAbsent, Scanner!Rechecked,
           Proved!Rechecked, Scanner!Confirmed, Proved!Confirmed,
           Scanner!Extended, Proved!Extended, Scanner!Created, Proved!Created,
           Scanner!DiffOf, Proved!DiffOf, Scanner!PendingAfter,
           Proved!PendingAfter, Scanner!KnownAfter, Proved!KnownAfter,
           Scanner!RemovalTargets, Proved!RemovalTargets
  <2>4. [Scanner!Next]_(Scanner!vars) => [Proved!Next]_(Proved!vars)
    BY <2>2, <2>3
  <2> QED
    BY <2>1, <2>4, PTL DEF ScannerSpec, Scanner!Spec, Proved!Spec
<1>3. Proved!Spec => []Proved!TypeOK
  BY <1>1, Proved!TypeCorrect
<1>4. Proved!Spec => []Proved!RecordedInv
  BY <1>1, Proved!RecordedIsKnown
<1>5. Proved!Spec => []Proved!ReportInv
  BY <1>1, Proved!ReportsAreKnown
<1> QED
  BY <1>2, <1>3, <1>4, <1>5, ImplementsScanner, PTL DEF ScannerInv

LEMMA SameTypeOK == Proved!TypeOK => Scanner!TypeOK
BY DEF Proved!TypeOK, Scanner!TypeOK, Proved!Utxo, Scanner!Utxo, Proved!ConfirmSpan,
       Scanner!ConfirmSpan, Proved!Tracked, Scanner!Tracked
\* The values a handler can find in an event, and in what it is compared with.
LEMMA EventValues ==
  ASSUME ScannerInv
  PROVE  /\ \A b \in DOMAIN utxo : b \in minted /\ utxo[b].expiry \in Nat
         /\ \A b \in DOMAIN known : b \in minted /\ known[b].expiry \in Nat
         /\ \A b \in DOMAIN known \cap DOMAIN utxo : known[b].expiry <= utxo[b].expiry
         /\ \A b \in DOMAIN diff.created :
              /\ b \in DOMAIN known /\ ~known[b].placeholder
              /\ diff.created[b].expiry \in Nat \ {0}
              /\ diff.created[b].expiry = known[b].expiry
              /\ b \notin DOMAIN diff.extended
         /\ \A b \in DOMAIN diff.extended :
              /\ b \in DOMAIN known /\ ~known[b].placeholder
              /\ diff.extended[b].old.expiry \in Nat /\ diff.extended[b].new.expiry \in Nat
              /\ diff.extended[b].new.expiry = known[b].expiry
              /\ diff.extended[b].old.expiry <= diff.extended[b].new.expiry
<1> USE DEF ScannerInv, Proved!TypeOK, Proved!ReportInv
<1>1. \A b \in DOMAIN utxo : b \in minted /\ utxo[b].expiry \in Nat
  BY DEF Proved!Utxo
<1>2. \A b \in DOMAIN known : b \in minted /\ known[b].expiry \in Nat
  BY DEF Proved!KnownInv, Proved!Tracked
<1>3. \A b \in DOMAIN known \cap DOMAIN utxo : known[b].expiry <= utxo[b].expiry
  BY DEF Proved!KnownInv
<1>4. ASSUME NEW b \in DOMAIN diff.created
      PROVE  /\ b \in DOMAIN known /\ ~known[b].placeholder
             /\ diff.created[b].expiry \in Nat \ {0}
             /\ diff.created[b].expiry = known[b].expiry
             /\ b \notin DOMAIN diff.extended
  BY <1>2, <1>4 DEF Proved!CreatedInv
<1>5. ASSUME NEW b \in DOMAIN diff.extended
      PROVE  /\ b \in DOMAIN known /\ ~known[b].placeholder
             /\ diff.extended[b].old.expiry \in Nat /\ diff.extended[b].new.expiry \in Nat
             /\ diff.extended[b].new.expiry = known[b].expiry
             /\ diff.extended[b].old.expiry <= diff.extended[b].new.expiry
  BY <1>2, <1>5 DEF Proved!ExtendedInv, Proved!Tracked
<1> QED
  BY <1>1, <1>2, <1>3, <1>4, <1>5

-----------------------------------------------------------------------------
\* Both calculations give whole days, at most the span but for the day that
\* less than a day is raised to.
LEMMA DaysBounds ==
  ASSUME NEW span \in Nat
  PROVE  /\ Days(span) \in Nat /\ Raised(span) \in Nat
         /\ DAY * Days(span) \in Nat /\ DAY * Raised(span) \in Nat
         /\ DAY * Days(span) <= span + DAY * Raised(span)
<1>1. DAY \in Nat \ {0}
  BY ProvisioningAssumption
<1>2. CASE span < DAY
  <2>1. Days(span) = 1 /\ Raised(span) = 1 /\ DAY * 1 = DAY
    BY <1>1, <1>2 DEF Days, Raised
  <2> QED
    BY <1>1, <2>1
<1>3. CASE ~(span < DAY)
  <2>1. Days(span) = span \div DAY /\ Raised(span) = 0 /\ DAY * 0 = 0
    BY <1>1, <1>3 DEF Days, Raised
  <2>2. \A a \in Nat, d \in Nat \ {0} : a \div d \in Nat /\ (a \div d) * d <= a
    OBVIOUS
  <2>3. span \div DAY \in Nat /\ (span \div DAY) * DAY <= span
    BY <1>1, <2>2
  <2>4. \A m, n \in Nat : m * n \in Nat /\ m * n = n * m
    OBVIOUS
  <2> QED
    BY <1>1, <2>1, <2>3, <2>4
<1> QED
  BY <1>2, <1>3

\* calculateExpiryDays: from the moment the VM is made to the datum's expiry, and
\* from a moment after the expiry a day.
LEMMA CreatedTerm ==
  ASSUME NEW expiry \in Nat \ {0}, NEW now \in Delays
  PROVE  /\ now + DAY * ExpiryDays(expiry, now) \in Nat
         /\ Raised(Left(expiry, now)) \in Nat /\ Late(expiry, now) \in Nat
         /\ now + DAY * ExpiryDays(expiry, now)
              <= expiry + Late(expiry, now) + DAY * Raised(Left(expiry, now))
<1> DEFINE span == Left(expiry, now)
<1>1. now \in Nat
  BY ProvisioningAssumption
<1>2. /\ span \in Nat /\ Late(expiry, now) \in Nat
      /\ now + span = expiry + Late(expiry, now)
  BY <1>1 DEF Left, Late
<1>3. ExpiryDays(expiry, now) = Days(span)
  BY DEF ExpiryDays
<1> HIDE DEF span
<1>4. /\ Raised(span) \in Nat /\ DAY * Days(span) \in Nat /\ DAY * Raised(span) \in Nat
      /\ DAY * Days(span) <= span + DAY * Raised(span)
  BY <1>2, DaysBounds
<1>5. now + DAY * Days(span) <= expiry + Late(expiry, now) + DAY * Raised(span)
  BY <1>1, <1>2, <1>4
<1> QED
  BY <1>1, <1>2, <1>3, <1>4, <1>5 DEF span

\* calculateAdditionalDays: from the old datum's expiry to the new one's.
LEMMA AddedTerm ==
  ASSUME NEW old \in Nat, NEW new \in Nat, old <= new
  PROVE  LET times == IF new > old THEN Raised(new - old) ELSE 0
         IN  /\ DAY * AdditionalDays(old, new) \in Nat
             /\ times \in Nat /\ DAY * times \in Nat
             /\ old + DAY * AdditionalDays(old, new) <= new + DAY * times
<1>1. DAY \in Nat /\ DAY * 0 = 0
  BY ProvisioningAssumption
<1>2. CASE new = old
  BY <1>1, <1>2 DEF AdditionalDays
<1>3. CASE new > old
  <2>1. new - old \in Nat /\ AdditionalDays(old, new) = Days(new - old)
    BY <1>3 DEF AdditionalDays
  <2> QED
    BY <1>3, <2>1, DaysBounds
<1> QED
  BY <1>2, <1>3
-----------------------------------------------------------------------------
\* What the steps do to the terms of the entries, for the two proofs below:
\* only a creation and an extension write one.
LEMMA TermsKept ==
  ASSUME HandlerInv,
         \/ ChainStep \/ ScanStep \/ TickStep \/ Crash
         \/ RecordBeacon \/ GiveUp \/ MintNft \/ MarkNftMinted \/ ResumeVm
         \/ \E b \in Beacons : AbortCreated(b) \/ AbortExtended(b) \/ DestroyVm(b)
                               \/ AbortRemoved(b)
         \/ UNCHANGED vars
  PROVE  /\ DOMAIN vms' \subseteq DOMAIN vms
         /\ \A v \in DOMAIN vms' : /\ vms'[v].madeFor = vms[v].madeFor
                                   /\ vms'[v].expiry = vms[v].expiry
                                   /\ vms'[v].late = vms[v].late
                                   /\ vms'[v].raised = vms[v].raised
<1>1. CASE RecordBeacon \/ MarkNftMinted
  BY <1>1, VmsSteps
<1>2. CASE \E b \in Beacons : DestroyVm(b)
  <2>1. DOMAIN vms' \subseteq DOMAIN vms /\ \A v \in DOMAIN vms' : vms'[v] = vms[v]
    BY <1>2, VmsSteps
  <2> QED
    BY <2>1
<1>3. CASE ChainStep \/ ScanStep \/ TickStep
  BY <1>3, ScannerSteps DEF provVars
<1>4. CASE \/ Crash \/ GiveUp \/ MintNft \/ ResumeVm \/ UNCHANGED vars
           \/ \E b \in Beacons : AbortCreated(b) \/ AbortExtended(b) \/ AbortRemoved(b)
  BY <1>4 DEF Crash, GiveUp, MintNft, ResumeVm, AbortCreated, AbortExtended, AbortRemoved,
              vars, provVars
<1> QED
  BY <1>1, <1>2, <1>3, <1>4

\* The terms written into vms.json are whole, never negative.
TermsInv ==
  \A v \in DOMAIN vms : /\ vms[v].expiry \in Nat /\ vms[v].raised \in Nat
                         /\ vms[v].late \in Nat

LEMMA TermsAreWhole == Spec => []TermsInv
<1>1. Init => TermsInv
  BY DEF Init, TermsInv
<1>2. HandlerInv /\ ScannerInv /\ TermsInv /\ [Next]_vars => TermsInv'
  <2> SUFFICES ASSUME HandlerInv, ScannerInv, TermsInv, [Next]_vars PROVE TermsInv'
    OBVIOUS
  <2> USE DEF TermsInv
  <2>1. ASSUME NEW b \in Beacons, CreateVm(b) PROVE TermsInv'
    <3>1. b \in DOMAIN diff.created
      BY <2>1 DEF CreateVm
    <3> DEFINE expiry == diff.created[b].expiry
    <3>2. expiry \in Nat \ {0}
      BY <3>1, EventValues
    <3>3. /\ DOMAIN vms' = DOMAIN vms \cup {nextVm}
          /\ \A v \in DOMAIN vms : vms'[v] = vms[v]
          /\ \E now \in Delays :
               /\ vms'[nextVm].expiry = now + DAY * ExpiryDays(expiry, now)
               /\ vms'[nextVm].late = Late(expiry, now)
               /\ vms'[nextVm].raised = Raised(Left(expiry, now))
      BY <2>1, VmsSteps
    <3>4. /\ vms'[nextVm].expiry \in Nat /\ vms'[nextVm].raised \in Nat
          /\ vms'[nextVm].late \in Nat
      BY <3>2, <3>3, CreatedTerm
    <3> QED
      BY <3>3, <3>4
  <2>2. ASSUME NEW b \in Beacons, ExtendVm(b) PROVE TermsInv'
    <3> DEFINE old == diff.extended[b].old.expiry
               new == diff.extended[b].new.expiry
    <3>1. b \in DOMAIN diff.extended
      BY <2>2 DEF ExtendVm
    <3>2. old \in Nat /\ new \in Nat /\ old <= new
      BY <3>1, EventValues
    <3>3. PICK v \in DOMAIN vms :
            /\ DOMAIN vms' = DOMAIN vms
            /\ \A w \in DOMAIN vms : w # v => vms'[w] = vms[w]
            /\ vms'[v].late = vms[v].late
            /\ vms'[v].expiry = vms[v].expiry + DAY * AdditionalDays(old, new)
            /\ vms'[v].raised = vms[v].raised
                                  + (IF new > old THEN Raised(new - old) ELSE 0)
      BY <2>2, ExtendStep
    <3>4. /\ DAY * AdditionalDays(old, new) \in Nat
          /\ (IF new > old THEN Raised(new - old) ELSE 0) \in Nat
      BY <3>2, AddedTerm
    <3>5. vms'[v].expiry \in Nat /\ vms'[v].raised \in Nat /\ vms'[v].late \in Nat
      BY <3>3, <3>4
    <3> QED
      BY <3>3, <3>5
  <2>3. CASE \/ ChainStep \/ ScanStep \/ TickStep \/ Crash
             \/ RecordBeacon \/ GiveUp \/ MintNft \/ MarkNftMinted \/ ResumeVm
             \/ \E b \in Beacons : AbortCreated(b) \/ AbortExtended(b) \/ DestroyVm(b)
                                   \/ AbortRemoved(b)
             \/ UNCHANGED vars
    BY <2>3, TermsKept
  <2> QED
    BY <2>1, <2>2, <2>3 DEF Next
<1> QED
  BY <1>1, <1>2, HandlersAreSound, ScannerFacts, PTL DEF Spec

\* The scanner's variables, the database and the handler keep their kinds.
THEOREM TypeCorrect == Spec => []TypeOK
<1>1. HandlerInv /\ ScannerInv /\ TermsInv => TypeOK
  <2> SUFFICES ASSUME HandlerInv, ScannerInv, TermsInv PROVE TypeOK
    OBVIOUS
  <2>1. Scanner!TypeOK
    BY SameTypeOK DEF ScannerInv
  <2>2. ASSUME NEW v \in DOMAIN vms PROVE vms[v] \in Entry
    <3>1. /\ IsEntry(vms[v]) /\ vms[v].expiry \in Nat /\ vms[v].raised \in Nat
          /\ vms[v].late \in Nat
      BY <2>2 DEF HandlerInv, TermsInv
    <3> QED
      BY <3>1 DEF IsEntry, Entry
  <2> QED
    BY <2>1, <2>2 DEF HandlerInv, TypeOK
<1> QED
  BY <1>1, HandlersAreSound, ScannerFacts, TermsAreWhole, PTL

-----------------------------------------------------------------------------
\* A second VM for a beacon that has one recorded comes only from an answer
\* that hid the beacon, or from an unreadable vms.json: no order of handlers
\* and no crash between two of their steps is enough.
THEOREM SecondVmIsHidden == Spec => SecondVmOnlyIfHidden
<1> DEFINE Hidden == \A v \in DOMAIN vms' \ DOMAIN vms :
                       vms'[v].madeFor \in Recorded => vms'[v].madeFor \in missed
<1>1. HandlerInv /\ ScannerInv /\ [Next]_vars => [Hidden]_vars
  <2> SUFFICES ASSUME HandlerInv, ScannerInv, Next PROVE Hidden
    OBVIOUS
  <2>1. ASSUME NEW b \in Beacons, CreateVm(b) PROVE Hidden
    <3>1. DOMAIN vms' \ DOMAIN vms \subseteq {nextVm} /\ vms'[nextVm].madeFor = b
      BY <2>1, VmsSteps
    <3>2. b \in Recorded => b \in missed
      BY <2>1 DEF CreateVm, ScannerInv, Proved!ReportInv, Proved!CreatedInv
    <3> QED
      BY <3>1, <3>2
  <2>2. ASSUME NEW b \in Beacons, ExtendVm(b) PROVE Hidden
    BY <2>2, VmsSteps
  <2>3. CASE \/ ChainStep \/ ScanStep \/ TickStep \/ Crash
             \/ RecordBeacon \/ GiveUp \/ MintNft \/ MarkNftMinted \/ ResumeVm
             \/ \E b \in Beacons : AbortCreated(b) \/ AbortExtended(b) \/ DestroyVm(b)
                                   \/ AbortRemoved(b)
    <3>1. DOMAIN vms' \subseteq DOMAIN vms
      BY <2>3, TermsKept
    <3> QED
      BY <3>1
  <2> QED
    BY <2>1, <2>2, <2>3 DEF Next
<1> QED
  BY <1>1, HandlersAreSound, ScannerFacts, PTL DEF Spec, SecondVmOnlyIfHidden

\* When no two subscriptions share a subscriber, both ways of finding a VM
\* find one that was made for the beacon.
LEMMA LookupFindsOwn ==
  ASSUME OneSubscriptionEach, HandlerInv, NEW b \in Beacons, NEW entry,
         NEW v \in LookupVm(b, entry)
  PROVE  v \in DOMAIN vms /\ vms[v].madeFor = b
<1>1. v \in DOMAIN vms /\ (vms[v].beacon = b \/ Owner[vms[v].madeFor] = Owner[b])
  BY DEF LookupVm, VmsOfBeacon
<1>2. vms[v].madeFor \in Beacons /\ vms[v].beacon \in {None, vms[v].madeFor} /\ b # None
  BY <1>1, ProvisioningAssumption DEF HandlerInv, IsEntry
<1> QED
  BY <1>1, <1>2 DEF OneSubscriptionEach

\* When no two subscriptions share a subscriber, the VM of a live one is
\* destroyed only if an answer hid its beacon from this process.
THEOREM LiveVmIsKept == OneSubscriptionEach => (Spec => LiveVmKept)
<1> SUFFICES ASSUME OneSubscriptionEach PROVE Spec => LiveVmKept
  OBVIOUS
<1> DEFINE Kept == \A v \in DOMAIN vms \ DOMAIN vms' :
                     vms[v].madeFor \in DOMAIN utxo => vms[v].madeFor \in missed
<1>1. HandlerInv /\ ScannerInv /\ [Next]_vars => [Kept]_vars
  <2> SUFFICES ASSUME HandlerInv, ScannerInv, Next PROVE Kept
    OBVIOUS
  <2>1. ASSUME NEW b \in Beacons, DestroyVm(b) PROVE Kept
    <3>1. PICK v \in LookupVm(b, diff.removed[b]) : DOMAIN vms' = DOMAIN vms \ {v}
      BY <2>1, VmsSteps
    <3>2. vms[v].madeFor = b
      BY <3>1, LookupFindsOwn
    <3>3. b \in DOMAIN utxo => b \in missed
      BY <2>1 DEF DestroyVm, RemovalIsNext, ScannerInv, Proved!ReportInv, Proved!RemovedInv
    <3> QED
      BY <3>1, <3>2, <3>3
  <2>2. ASSUME ~ \E b \in Beacons : DestroyVm(b) PROVE DOMAIN vms \subseteq DOMAIN vms'
    <3>1. CASE ChainStep \/ ScanStep \/ TickStep
      BY <3>1, ScannerSteps DEF provVars
    <3>2. CASE \/ RecordBeacon \/ MarkNftMinted
               \/ \E b \in Beacons : CreateVm(b) \/ ExtendVm(b)
      BY <3>2, VmsSteps
    <3>3. CASE \/ Crash \/ GiveUp \/ MintNft \/ ResumeVm
               \/ \E b \in Beacons : AbortCreated(b) \/ AbortExtended(b) \/ AbortRemoved(b)
      BY <3>3 DEF Crash, GiveUp, MintNft, ResumeVm, AbortCreated, AbortExtended, AbortRemoved
    <3> QED
      BY <2>2, <3>1, <3>2, <3>3 DEF Next
  <2> QED
    BY <2>1, <2>2
<1> QED
  BY <1>1, HandlersAreSound, ScannerFacts, PTL DEF Spec, LiveVmKept
-----------------------------------------------------------------------------
\* How far a subscription's VM may have been credited: up to the expiry the
\* next extension will be counted from, which is that of the datum only when
\* no event about it is queued and nothing older is known of it.
PaidUpTo(b) ==
  IF b \in DOMAIN diff.extended THEN diff.extended[b].old.expiry
  ELSE IF b \in DOMAIN known /\ ~known[b].placeholder THEN known[b].expiry
  ELSE utxo[b].expiry

CreditInv ==
  \A v \in DOMAIN vms :
    LET b == vms[v].madeFor IN
    /\ b \in minted
    /\ b \in DOMAIN utxo =>
         vms[v].expiry <= PaidUpTo(b) + vms[v].late + DAY * vms[v].raised

LEMMA PaidIsDue ==
  ASSUME ScannerInv, NEW b \in DOMAIN utxo
  PROVE  PaidUpTo(b) \in Nat /\ PaidUpTo(b) <= utxo[b].expiry
<1>1. CASE b \in DOMAIN diff.extended
  <2>1. /\ PaidUpTo(b) = diff.extended[b].old.expiry
        /\ diff.extended[b].old.expiry \in Nat
        /\ diff.extended[b].old.expiry <= known[b].expiry
        /\ b \in DOMAIN known
    BY <1>1, EventValues DEF PaidUpTo
  <2> QED
    BY <2>1, EventValues
<1>2. CASE b \notin DOMAIN diff.extended
  BY <1>2, EventValues DEF PaidUpTo
<1> QED
  BY <1>1, <1>2

LEMMA PaidType == ScannerInv => \A b \in DOMAIN utxo : PaidUpTo(b) \in Nat
BY PaidIsDue

\* A scan, a spend, a restart or a handler never takes back what is paid: the
\* extension of a beacon is counted from what was known of it.
LEMMA PaidNeverShrinks ==
  ASSUME ScannerInv, HandlerInv, NEW b \in DOMAIN utxo, b \in DOMAIN utxo',
         \/ ChainStep \/ ScanStep \/ TickStep \/ Crash
         \/ UNCHANGED <<utxo, known>>
            /\ \/ UNCHANGED diff.extended
               \/ \E c \in DOMAIN diff.extended :
                    diff'.extended = Scanner!Without(diff.extended, c)
  PROVE  PaidUpTo(b) <= PaidUpTo(b)'
<1>1. /\ PaidUpTo(b) \in Nat
      /\ PaidUpTo(b) <= utxo[b].expiry /\ utxo[b].expiry \in Nat
  BY PaidIsDue, EventValues
<1>2. CASE ChainStep
  <2>1. UNCHANGED <<known, diff>>
    BY <1>2 DEF ChainStep, Scanner!Subscribe, Scanner!Respend, Scanner!Burn,
                Scanner!scannerVars
  <2>2. utxo[b].expiry <= utxo'[b].expiry
    <3>1. ASSUME NEW c \in Beacons, Scanner!Subscribe(c) PROVE utxo'[b] = utxo[b]
      BY <3>1, EventValues DEF Scanner!Subscribe
    <3>2. ASSUME NEW c \in Beacons, Scanner!Burn(c) PROVE utxo'[b] = utxo[b]
      BY <3>2 DEF Scanner!Burn, Scanner!Without
    <3>3. ASSUME NEW c \in Beacons, NEW days \in Renewals, Scanner!Respend(c, days)
          PROVE  utxo[b].expiry <= utxo'[b].expiry
      <4>1. days \in Nat /\ utxo[b] \in Proved!Utxo
        BY ProvisioningAssumption DEF ScannerInv, Proved!TypeOK
      <4> QED
        BY <3>3, <4>1, <1>1 DEF Scanner!Respend, Proved!Utxo
    <3> QED
      BY <1>1, <1>2, <3>1, <3>2, <3>3 DEF ChainStep
  <2> QED
    BY <1>1, <2>1, <2>2 DEF PaidUpTo
<1>3. CASE ScanStep
  <2>1. utxo' = utxo
    BY <1>3 DEF ScanStep, Scanner!ScanPartial, Scanner!Scan, Scanner!ScanThrows,
                Scanner!chainVars
  <2>2. ASSUME NEW seen, Scanner!Scan(seen) PROVE PaidUpTo(b) <= PaidUpTo(b)'
    <3>1. PICK base \in Scanner!Restored :
            /\ diff' = Scanner!DiffOf(base, seen)
            /\ known' = Scanner!KnownAfter(base, seen)
      BY <2>2 DEF Scanner!Scan
    <3>2. DOMAIN diff.extended = {}
      BY <2>2 DEF Scanner!Scan, Scanner!EmptyDiff, Scanner!EmptyMap
    <3>3. b \in DOMAIN base /\ ~base[b].placeholder => base = known
      BY DEF Scanner!Restored, Scanner!PLACEHOLDER, Scanner!EmptyMap
    <3>4. CASE b \in DOMAIN diff'.extended
      <4>1. /\ b \in DOMAIN base /\ ~base[b].placeholder
            /\ diff'.extended[b] = [old |-> base[b], new |-> Scanner!Observed(b)]
        BY <3>1, <3>4 DEF Scanner!DiffOf, Scanner!Extended
      <4>2. diff'.extended[b].old = known[b] /\ base = known
        BY <3>3, <4>1 DEF Scanner!Observed
      <4> QED
        BY <1>1, <3>2, <3>4, <4>1, <4>2 DEF PaidUpTo
    <3>5. CASE /\ b \notin DOMAIN diff'.extended
               /\ b \in DOMAIN known' /\ ~known'[b].placeholder /\ b \notin seen
      <4>1. b \in DOMAIN base /\ known'[b] = base[b]
        BY <3>1, <3>5 DEF Scanner!KnownAfter
      <4>2. known'[b] = known[b] /\ b \in DOMAIN known
        BY <3>3, <3>5, <4>1
      <4> QED
        BY <1>1, <3>2, <3>5, <4>2 DEF PaidUpTo
    <3>6. CASE b \notin DOMAIN diff'.extended /\ b \in seen
      <4>1. b \in DOMAIN known' /\ known'[b] = Scanner!Observed(b)
        BY <3>1, <3>6 DEF Scanner!KnownAfter
      <4>2. PaidUpTo(b)' = utxo[b].expiry
        BY <3>6, <4>1 DEF PaidUpTo, Scanner!Observed
      <4> QED
        BY <1>1, <4>2
    <3>7. CASE /\ b \notin DOMAIN diff'.extended
               /\ ~(b \in DOMAIN known' /\ ~known'[b].placeholder)
      BY <1>1, <2>1, <3>7 DEF PaidUpTo
    <3> QED
      BY <3>4, <3>5, <3>6, <3>7
  <2>3. CASE Scanner!ScanThrows
    <3>1. DOMAIN diff'.extended = {} /\ known' \in Scanner!Restored /\ ~loaded
      BY <2>3 DEF Scanner!ScanThrows, Scanner!EmptyDiff, Scanner!EmptyMap
    <3>2. b \in DOMAIN known' => known'[b].placeholder
      BY <3>1 DEF Scanner!Restored, Scanner!EmptyMap, Scanner!PLACEHOLDER
    <3> QED
      BY <1>1, <2>1, <3>1, <3>2 DEF PaidUpTo
  <2> QED
    BY <1>3, <2>2, <2>3 DEF ScanStep, Scanner!ScanPartial
<1>4. CASE TickStep
  <2>1. UNCHANGED <<utxo, known, diff>>
    BY <1>4 DEF TickStep, Scanner!Tick, Scanner!chainVars
  <2> QED
    BY <1>1, <2>1 DEF PaidUpTo
<1>5. CASE Crash
  <2>1. DOMAIN diff'.extended = {} /\ DOMAIN known' = {} /\ utxo' = utxo
    BY <1>5 DEF Crash, Scanner!Restart, Scanner!EmptyDiff, Scanner!EmptyMap,
                Scanner!chainVars
  <2> QED
    BY <1>1, <2>1 DEF PaidUpTo
<1>6. CASE /\ UNCHANGED <<utxo, known>>
           /\ \/ UNCHANGED diff.extended
              \/ \E c \in DOMAIN diff.extended :
                   diff'.extended = Scanner!Without(diff.extended, c)
  <2>1. \/ UNCHANGED diff.extended
        \/ /\ DOMAIN diff'.extended \subseteq DOMAIN diff.extended
           /\ \A x \in DOMAIN diff'.extended : diff'.extended[x] = diff.extended[x]
    BY <1>6 DEF Scanner!Without
  <2>2. CASE b \in DOMAIN diff.extended /\ b \notin DOMAIN diff'.extended
    <3>1. /\ b \in DOMAIN known /\ ~known[b].placeholder
          /\ diff.extended[b].old.expiry <= known[b].expiry
      BY <2>2, EventValues
    <3> QED
      BY <1>6, <2>2, <3>1 DEF PaidUpTo
  <2>3. CASE b \in DOMAIN diff.extended <=> b \in DOMAIN diff'.extended
    BY <1>1, <1>6, <2>1, <2>3 DEF PaidUpTo
  <2> QED
    BY <2>1, <2>2, <2>3
<1> QED
  BY <1>2, <1>3, <1>4, <1>5, <1>6
\* What is credited stays within what is paid for: a creation is counted from
\* its event, an extension from the datum the last credit was counted to.
LEMMA CreditIsSound == OneSubscriptionEach => (Spec => []CreditInv)
<1> SUFFICES ASSUME OneSubscriptionEach PROVE Spec => []CreditInv
  OBVIOUS
<1>1. Init => CreditInv
  BY DEF Init, CreditInv
<1>2. ScannerInv' => (\A b \in DOMAIN utxo : PaidUpTo(b) \in Nat)'
  BY PaidType, PTL
<1>3. /\ HandlerInv /\ TermsInv /\ ScannerInv /\ CreditInv
      /\ HandlerInv' /\ TermsInv' /\ ScannerInv' /\ [Next]_vars
      => CreditInv'
  <2> SUFFICES ASSUME HandlerInv, TermsInv, ScannerInv, CreditInv,
                      HandlerInv', TermsInv', ScannerInv', [Next]_vars,
                      NEW v \in DOMAIN vms', NEW b, b = vms'[v].madeFor
               PROVE  /\ b \in minted'
                      /\ b \in DOMAIN utxo' =>
                           vms'[v].expiry <= PaidUpTo(b)' + vms'[v].late + DAY * vms'[v].raised
    BY DEF CreditInv
  <2>1. /\ minted \subseteq minted'
        /\ b \in minted /\ b \in DOMAIN utxo' => b \in DOMAIN utxo
    <3>1. CASE ChainStep
      BY <3>1 DEF ChainStep, Scanner!Subscribe, Scanner!Respend, Scanner!Burn,
                  Scanner!Without
    <3>2. CASE ScanStep \/ TickStep \/ Crash
      BY <3>2 DEF ScanStep, TickStep, Crash, Scanner!ScanPartial, Scanner!Scan,
                  Scanner!ScanThrows, Scanner!Tick, Scanner!Restart, Scanner!chainVars
    <3>3. CASE ~(ChainStep \/ ScanStep \/ TickStep \/ Crash)
      BY <3>3 DEF Next, AbortCreated, CreateVm, ExtendVm, AbortExtended, DestroyVm,
                  AbortRemoved, RecordBeacon, GiveUp, MintNft, MarkNftMinted, ResumeVm,
                  pollVars, vars
    <3> QED
      BY <3>1, <3>2, <3>3
  <2>2. b \in DOMAIN utxo' => PaidUpTo(b)' \in Nat
    BY <1>2
  <2>3. vms'[v].expiry \in Nat /\ vms'[v].raised \in Nat /\ DAY \in Nat /\ vms'[v].late \in Nat
        /\ DAY * vms'[v].raised \in Nat
    BY ProvisioningAssumption DEF TermsInv
  <2>4. ASSUME NEW c \in Beacons, CreateVm(c), v = nextVm
        PROVE  /\ b \in minted'
               /\ b \in DOMAIN utxo' =>
                    vms'[v].expiry <= PaidUpTo(b)' + vms'[v].late + DAY * vms'[v].raised
    <3>1. c \in DOMAIN diff.created /\ UNCHANGED <<utxo, minted, known, diff>>
      BY <2>4 DEF CreateVm, pollVars
    <3> DEFINE expiry == diff.created[c].expiry
    <3>2. PICK now \in Delays : /\ b = c
                                /\ vms'[v].expiry = now + DAY * ExpiryDays(expiry, now)
                                /\ vms'[v].late = Late(expiry, now)
                                /\ vms'[v].raised = Raised(Left(expiry, now))
      BY <2>4, VmsSteps
    <3>3. /\ c \in DOMAIN known /\ c \in minted /\ ~known[c].placeholder
          /\ c \notin DOMAIN diff.extended
          /\ expiry \in Nat \ {0} /\ expiry = known[c].expiry
      BY <3>1, EventValues
    <3>4. vms'[v].expiry <= expiry + vms'[v].late + DAY * vms'[v].raised
      BY <3>2, <3>3, CreatedTerm
    <3>5. PaidUpTo(b)' = expiry
      BY <3>1, <3>2, <3>3 DEF PaidUpTo
    <3> QED
      BY <3>1, <3>2, <3>3, <3>4, <3>5
  <2>5. ASSUME NEW c \in Beacons, ExtendVm(c), v \in LookupVm(c, diff.extended[c].new),
               \/ vms'[v].expiry # vms[v].expiry \/ vms'[v].raised # vms[v].raised
               \/ vms'[v].late # vms[v].late
        PROVE  /\ b \in minted'
               /\ b \in DOMAIN utxo' =>
                    vms'[v].expiry <= PaidUpTo(b)' + vms'[v].late + DAY * vms'[v].raised
    <3> DEFINE old == diff.extended[c].old.expiry
               new == diff.extended[c].new.expiry
               times == IF new > old THEN Raised(new - old) ELSE 0
    <3>1. /\ c \in DOMAIN diff.extended /\ UNCHANGED <<utxo, minted, known>>
          /\ diff'.extended = Scanner!Without(diff.extended, c)
      BY <2>5, TakenEvent DEF ExtendVm, pollVars
    <3>2. /\ v \in DOMAIN vms /\ vms[v].madeFor = c /\ b = c
          /\ vms'[v].late = vms[v].late
          /\ vms'[v].expiry = vms[v].expiry + DAY * AdditionalDays(old, new)
          /\ vms'[v].raised = vms[v].raised + times
      BY <2>5, ExtendStep, LookupFindsOwn
    <3>3. /\ c \in DOMAIN known /\ ~known[c].placeholder
          /\ old \in Nat /\ new \in Nat /\ old <= new /\ new = known[c].expiry
      BY <3>1, EventValues
    <3>4. PaidUpTo(c) = old /\ PaidUpTo(c)' = new
      BY <3>1, <3>3 DEF PaidUpTo, Scanner!Without
    <3>5. c \in minted /\ (c \in DOMAIN utxo =>
                             vms[v].expiry <= old + vms[v].late + DAY * vms[v].raised)
      BY <3>2, <3>4 DEF CreditInv
    <3>6. /\ DAY * AdditionalDays(old, new) \in Nat /\ times \in Nat
          /\ DAY * times \in Nat
          /\ old + DAY * AdditionalDays(old, new) <= new + DAY * times
      BY <3>3, AddedTerm
    <3>7. /\ vms[v].expiry \in Nat /\ vms[v].raised \in Nat /\ vms[v].late \in Nat
          /\ DAY * vms[v].raised \in Nat
          /\ DAY * (vms[v].raised + times) = DAY * vms[v].raised + DAY * times
      BY <3>2, <3>6, ProvisioningAssumption DEF TermsInv
    <3>8. ASSUME c \in DOMAIN utxo
          PROVE  vms'[v].expiry <= new + vms'[v].late + DAY * vms'[v].raised
      <4> DEFINE A == DAY * AdditionalDays(old, new)
                 R == DAY * vms[v].raised
                 T == DAY * times
      <4>1. /\ vms'[v].expiry = vms[v].expiry + A /\ DAY * vms'[v].raised = R + T
            /\ vms'[v].late = vms[v].late
        BY <3>2, <3>7
      <4>2. vms[v].expiry <= old + vms[v].late + R /\ old + A <= new + T
        BY <3>5, <3>6, <3>8
      <4>3. A \in Nat /\ R \in Nat /\ T \in Nat
        BY <3>6, <3>7
      <4> HIDE DEF A, R, T, old, new
      <4> QED
        BY <4>1, <4>2, <4>3, <3>3, <3>7
    <3> QED
      BY <3>1, <3>2, <3>4, <3>5, <3>8
  <2>6. ASSUME v \in DOMAIN vms, vms'[v].madeFor = vms[v].madeFor,
               vms'[v].expiry = vms[v].expiry, vms'[v].raised = vms[v].raised,
               vms'[v].late = vms[v].late
        PROVE  /\ b \in minted'
               /\ b \in DOMAIN utxo' =>
                    vms'[v].expiry <= PaidUpTo(b)' + vms'[v].late + DAY * vms'[v].raised
    <3>1. b \in minted'
      BY <2>1, <2>6 DEF CreditInv
    <3>2. SUFFICES ASSUME b \in DOMAIN utxo'
                   PROVE  vms[v].expiry <= PaidUpTo(b)' + vms[v].late + DAY * vms[v].raised
      BY <2>6, <3>1
    <3>3. b \in DOMAIN utxo /\ vms[v].expiry <= PaidUpTo(b) + vms[v].late + DAY * vms[v].raised
      BY <2>1, <2>6, <3>2 DEF CreditInv
    <3>4. \/ ChainStep \/ ScanStep \/ TickStep \/ Crash
          \/ UNCHANGED <<utxo, known>>
             /\ \/ UNCHANGED diff.extended
                \/ \E c \in DOMAIN diff.extended :
                     diff'.extended = Scanner!Without(diff.extended, c)
      <4>1. CASE \E c \in Beacons : AbortCreated(c) \/ AbortRemoved(c) \/ DestroyVm(c)
        BY <4>1, TakenEvent DEF AbortCreated, AbortRemoved, DestroyVm, RemovalIsNext, pollVars
      <4>2. CASE \E c \in Beacons : AbortExtended(c) \/ ExtendVm(c)
        BY <4>2, TakenEvent DEF AbortExtended, ExtendVm, pollVars
      <4>3. CASE RecordBeacon
        BY <4>3, TakenEvent DEF RecordBeacon, pollVars
      <4>4. CASE \/ GiveUp \/ MintNft \/ MarkNftMinted \/ ResumeVm \/ UNCHANGED vars
                 \/ \E c \in Beacons : CreateVm(c)
        BY <4>4 DEF GiveUp, MintNft, MarkNftMinted, ResumeVm, CreateVm, vars, pollVars
      <4> QED
        BY <4>1, <4>2, <4>3, <4>4 DEF Next
    <3>5. PaidUpTo(b) <= PaidUpTo(b)' /\ PaidUpTo(b) \in Nat
      BY <3>2, <3>3, <3>4, PaidNeverShrinks, PaidIsDue
    <3> QED
      BY <2>2, <2>3, <2>6, <3>2, <3>3, <3>5
  <2>7. \/ \E c \in Beacons : CreateVm(c) /\ v = nextVm
        \/ \E c \in Beacons : /\ ExtendVm(c) /\ v \in LookupVm(c, diff.extended[c].new)
                              /\ \/ vms'[v].expiry # vms[v].expiry
                                 \/ vms'[v].raised # vms[v].raised
                                 \/ vms'[v].late # vms[v].late
        \/ /\ v \in DOMAIN vms /\ vms'[v].madeFor = vms[v].madeFor
           /\ vms'[v].expiry = vms[v].expiry /\ vms'[v].raised = vms[v].raised
           /\ vms'[v].late = vms[v].late
    <3>1. ASSUME NEW c \in Beacons, CreateVm(c)
          PROVE  v = nextVm \/ (v \in DOMAIN vms /\ vms'[v] = vms[v])
      BY <3>1, VmsSteps
    <3>2. ASSUME NEW c \in Beacons, ExtendVm(c)
          PROVE  /\ v \in DOMAIN vms /\ vms'[v].madeFor = vms[v].madeFor
                 /\ v \in LookupVm(c, diff.extended[c].new) \/ vms'[v] = vms[v]
      BY <3>2, ExtendStep
    <3>3. CASE ~ \E c \in Beacons : CreateVm(c) \/ ExtendVm(c)
      BY <3>3, TermsKept DEF Next
    <3> QED
      BY <3>1, <3>2, <3>3
  <2> QED
    BY <2>4, <2>5, <2>6, <2>7
<1> QED
  BY <1>1, <1>3, HandlersAreSound, TermsAreWhole, ScannerFacts, PTL DEF Spec

\* When no two subscriptions share a subscriber, no VM is credited beyond the
\* expiry of its subscription's datum, but for the days raised to a whole one and
\* for what a VM made after that expiry was late.
THEOREM CreditIsPaid == OneSubscriptionEach => (Spec => []CreditedIsPaid)
<1> SUFFICES ASSUME OneSubscriptionEach PROVE Spec => []CreditedIsPaid
  OBVIOUS
<1>1. TermsInv /\ ScannerInv /\ CreditInv => CreditedIsPaid
  <2> SUFFICES ASSUME TermsInv, ScannerInv, CreditInv,
                      NEW v \in DOMAIN vms, vms[v].madeFor \in DOMAIN utxo
               PROVE  vms[v].expiry <= utxo[vms[v].madeFor].expiry
                                           + vms[v].late + DAY * vms[v].raised
    BY DEF CreditedIsPaid
  <2> DEFINE b == vms[v].madeFor
  <2>1. vms[v].expiry <= PaidUpTo(b) + vms[v].late + DAY * vms[v].raised
    BY DEF CreditInv
  <2>2. PaidUpTo(b) \in Nat /\ utxo[b].expiry \in Nat /\ PaidUpTo(b) <= utxo[b].expiry
    BY PaidIsDue, EventValues
  <2>3. vms[v].expiry \in Nat /\ DAY * vms[v].raised \in Nat /\ vms[v].late \in Nat
    BY ProvisioningAssumption DEF TermsInv
  <2> QED
    BY <2>1, <2>2, <2>3
<1> QED
  BY <1>1, CreditIsSound, TermsAreWhole, ScannerFacts, PTL
=============================================================================
