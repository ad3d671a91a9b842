------------------------ MODULE BeaconScannerProofs ------------------------
(***************************************************************************)
(* Theorems about BeaconScanner, for any beacons, intervals and counts.    *)
(***************************************************************************)
EXTENDS BeaconScanner, TLAPS

\* The steps of a scan, complete or not, are Scan steps on live beacons.
LEMMA ScanCases ==
  ASSUME ScanComplete \/ ScanPartial
  PROVE  \E seen \in SUBSET DOMAIN utxo : Scan(seen)
BY DEF ScanComplete, ScanPartial, Answers

LEMMA SpanType ==
  /\ ConfirmSpan \in Nat
  /\ CONFIRM_INTERVAL \in Nat /\ VERIFY_INTERVAL \in Nat
<1>1. CONFIRM_COUNT - 1 \in Nat /\ CONFIRM_INTERVAL \in Nat
  BY ScannerAssumption
<1>2. \A m, n \in Nat : m * n \in Nat
  OBVIOUS
<1> QED
  BY <1>1, <1>2, ScannerAssumption DEF ConfirmSpan

\* What a scan starts from is a map of tracked beacons.
LEMMA RestoredType ==
  ASSUME TypeOK, NEW base \in Restored
  PROVE  /\ DOMAIN base \subseteq Beacons
         /\ \A b \in DOMAIN base : base[b] \in Tracked
<1>1. PLACEHOLDER \in Tracked
  BY ScannerAssumption DEF PLACEHOLDER, Tracked
<1>2. CASE base = known
  BY <1>2 DEF TypeOK
<1>3. CASE base = [b \in recorded |-> PLACEHOLDER]
  BY <1>1, <1>3 DEF TypeOK
<1>4. CASE base = EmptyMap
  BY <1>4 DEF EmptyMap
<1> QED
  BY <1>2, <1>3, <1>4 DEF Restored

\* Every variable keeps a value of its kind: the base of every other proof.
THEOREM TypeCorrect == Spec => []TypeOK
<1>1. ASSUME Init PROVE TypeOK
  <2>1. DOMAIN EmptyMap = {}
    BY DEF EmptyMap
  <2>2. DOMAIN utxo = {} /\ DOMAIN known = {} /\ DOMAIN pending = {}
    BY <1>1, <2>1 DEF Init
  <2>3. /\ diff = [created |-> diff.created, extended |-> diff.extended,
                   removed |-> diff.removed]
        /\ DOMAIN diff.created = {}
        /\ DOMAIN diff.extended = {}
        /\ DOMAIN diff.removed = {}
    BY <1>1, <2>1 DEF Init, EmptyDiff
  <2>4. sinceSeen \in [Beacons -> 0..ConfirmSpan]
    BY <1>1, SpanType DEF Init
  <2>5. sinceVerify \in 0..VERIFY_INTERVAL /\ restarts \in 0..MaxRestarts
    BY <1>1, ScannerAssumption DEF Init
  <2>6. /\ minted = {} /\ recorded = {} /\ missed = {}
        /\ loaded \in BOOLEAN
    BY <1>1 DEF Init
  <2> QED
    BY <2>2, <2>3, <2>4, <2>5, <2>6 DEF TypeOK
<1>2. TypeOK /\ [Next]_vars => TypeOK'
  <2> SUFFICES ASSUME TypeOK, [Next]_vars PROVE TypeOK'
    OBVIOUS
  <2> USE SpanType, ScannerAssumption DEF TypeOK
  <2>1. ASSUME NEW b \in Beacons, Subscribe(b) PROVE TypeOK'
    BY <2>1 DEF Subscribe, Utxo, scannerVars, historyVars
  <2>2. ASSUME NEW b \in Beacons, NEW days \in Renewals, Respend(b, days) PROVE TypeOK'
    <3>1. /\ b \in DOMAIN utxo /\ utxo[b] \in Utxo /\ utxo[b].ref < MaxRef
          /\ utxo' = [utxo EXCEPT ![b].ref = @ + 1, ![b].expiry = @ + days]
      BY <2>2 DEF Respend
    <3>2. [utxo[b] EXCEPT !.ref = @ + 1, !.expiry = @ + days] \in Utxo
      BY <3>1 DEF Utxo
    <3>3. /\ DOMAIN utxo' = DOMAIN utxo
          /\ \A c \in DOMAIN utxo' : utxo'[c] \in Utxo
      BY <3>1, <3>2 DEF Utxo
    <3> QED
      BY <2>2, <3>3 DEF Respend, scannerVars, historyVars
  <2>3. ASSUME NEW b \in Beacons, Burn(b) PROVE TypeOK'
    BY <2>3 DEF Burn, Without, scannerVars, historyVars
  <2>4. ASSUME NEW b \in Beacons, HandleCreated(b) PROVE TypeOK'
    BY <2>4 DEF HandleCreated, Without, scannerVars, historyVars, chainVars
  <2>5. ASSUME NEW b \in Beacons, HandleExtended(b) PROVE TypeOK'
    BY <2>5 DEF HandleExtended, Without, scannerVars, historyVars, chainVars
  <2>6. ASSUME NEW b \in Beacons, HandleRemoved(b) PROVE TypeOK'
    BY <2>6 DEF HandleRemoved, Without, scannerVars, historyVars, chainVars
  <2>7. ASSUME NEW seen \in SUBSET DOMAIN utxo, Scan(seen) PROVE TypeOK'
    <3>1. PICK base \in Restored :
            /\ diff' = DiffOf(base, seen)
            /\ pending' = PendingAfter(base, seen)
            /\ known' = KnownAfter(base, seen)
            /\ missed' = missed \cup (DOMAIN utxo \ seen)
                           \cup (IF loaded THEN {} ELSE recorded \ DOMAIN base)
      BY <2>7 DEF Scan
    <3>2. /\ DOMAIN base \subseteq Beacons
          /\ \A b \in DOMAIN base : base[b] \in Tracked
      BY <3>1, RestoredType
    <3>3. /\ utxo' = utxo /\ minted' = minted /\ recorded' = recorded
          /\ restarts' = restarts /\ loaded' = TRUE
      BY <2>7 DEF Scan, chainVars
    <3>4. sinceVerify' \in 0..VERIFY_INTERVAL
      BY <2>7 DEF Scan
    <3>5. sinceSeen' \in [Beacons -> 0..ConfirmSpan]
      BY <2>7 DEF Scan
    <3>6. missed' \subseteq Beacons
      BY <3>1, <3>2
    <3>7. /\ diff' = [created |-> diff'.created, extended |-> diff'.extended,
                      removed |-> diff'.removed]
          /\ DOMAIN diff'.created \subseteq Beacons
          /\ DOMAIN diff'.extended \subseteq Beacons
          /\ DOMAIN diff'.removed \subseteq Beacons
      BY <3>1, <3>2 DEF DiffOf, Created, Extended, Confirmed, Rechecked
    <3>8. /\ DOMAIN pending' \subseteq Beacons
          /\ \A b \in DOMAIN pending' :
               pending'[b] \in [missCount  : 1..(CONFIRM_COUNT - 1),
                               sinceCheck : 0..CONFIRM_INTERVAL]
      <4>1. /\ DOMAIN pending' =
                 (DOMAIN pending \ (seen \cup Confirmed(base, seen)))
                   \cup NewlyAbsent(base, seen)
            /\ NewlyAbsent(base, seen) \subseteq DOMAIN base
        BY <3>1 DEF PendingAfter, NewlyAbsent
      <4> SUFFICES ASSUME NEW b \in DOMAIN pending'
                   PROVE  pending'[b] \in [missCount  : 1..(CONFIRM_COUNT - 1),
                                           sinceCheck : 0..CONFIRM_INTERVAL]
        BY <3>2, <4>1
      <4>2. CASE b \in NewlyAbsent(base, seen)
        <5>1. pending'[b] = [missCount |-> 1, sinceCheck |-> 0]
          BY <3>1, <4>2 DEF PendingAfter
        <5> QED
          BY <5>1
      <4>3. CASE b \notin NewlyAbsent(base, seen) /\ b \in Rechecked(base, seen)
        <5>1. b \in DOMAIN pending /\ b \notin Confirmed(base, seen)
          BY <4>1, <4>3
        <5>2. ~ (pending[b].missCount + 1 >= CONFIRM_COUNT)
          BY <4>3, <5>1 DEF Confirmed
        <5>3. pending'[b] = [missCount |-> pending[b].missCount + 1, sinceCheck |-> 0]
          BY <3>1, <4>3 DEF PendingAfter
        <5>4. pending[b].missCount + 1 \in 1..(CONFIRM_COUNT - 1)
          BY <5>1, <5>2
        <5> QED
          BY <5>3, <5>4
      <4>4. CASE b \notin NewlyAbsent(base, seen) /\ b \notin Rechecked(base, seen)
        BY <3>1, <4>1, <4>4 DEF PendingAfter
      <4> QED
        BY <4>2, <4>3, <4>4
    <3>9. /\ DOMAIN known' \subseteq Beacons
          /\ \A b \in DOMAIN known' : known'[b] \in Tracked
      BY <3>1, <3>2 DEF KnownAfter, Observed, Utxo, Tracked
    <3> QED
      BY <3>3, <3>4, <3>5, <3>6, <3>7, <3>8, <3>9
  <2>8. CASE ScanThrows
    <3>1. known' \in Restored
      BY <2>8 DEF ScanThrows
    <3>2. /\ DOMAIN known' \subseteq Beacons
          /\ \A b \in DOMAIN known' : known'[b] \in Tracked
      BY <3>1, RestoredType
    <3> QED
      BY <2>8, <3>2 DEF ScanThrows, chainVars
  <2>9. CASE Tick
    <3>1. /\ DOMAIN pending' \subseteq Beacons
          /\ \A b \in DOMAIN pending' :
               pending'[b] \in [missCount  : 1..(CONFIRM_COUNT - 1),
                               sinceCheck : 0..CONFIRM_INTERVAL]
      BY <2>9 DEF Tick, Older
    <3>2. /\ sinceVerify' \in 0..VERIFY_INTERVAL
          /\ sinceSeen' \in [Beacons -> 0..ConfirmSpan]
      BY <2>9 DEF Tick, Older
    <3> QED
      BY <2>9, <3>1, <3>2 DEF Tick, chainVars
  <2>10. CASE Restart
    <3>1. DOMAIN EmptyMap = {}
      BY DEF EmptyMap
    <3>2. /\ diff' = [created |-> diff'.created, extended |-> diff'.extended,
                      removed |-> diff'.removed]
          /\ DOMAIN diff'.created = {}
          /\ DOMAIN diff'.extended = {}
          /\ DOMAIN diff'.removed = {}
      BY <2>10, <3>1 DEF Restart, EmptyDiff
    <3>3. DOMAIN known' = {} /\ DOMAIN pending' = {}
      BY <2>10, <3>1 DEF Restart
    <3>4. sinceSeen' \in [Beacons -> 0..ConfirmSpan]
      BY <2>10 DEF Restart
    <3>5. restarts' \in 0..MaxRestarts /\ sinceVerify' \in 0..VERIFY_INTERVAL
      BY <2>10 DEF Restart
    <3>6. /\ utxo' = utxo /\ minted' = minted /\ recorded' = recorded
          /\ loaded' = FALSE /\ missed' = {}
      BY <2>10 DEF Restart, chainVars
    <3> QED
      BY <3>2, <3>3, <3>4, <3>5, <3>6
  <2>11. CASE UNCHANGED vars
    BY <2>11 DEF vars, chainVars, scannerVars, historyVars
  <2> QED
    BY ScanCases, <2>1, <2>2, <2>3, <2>4, <2>5, <2>6, <2>7, <2>8, <2>9, <2>10, <2>11
    DEF Next
<1> QED
  BY <1>1, <1>2, PTL DEF Spec

-----------------------------------------------------------------------------
\* PendingSound is inductive once a fresh process is known to have no pending
\* removal: it is what lets a scan start from restored placeholders.
PendingInv ==
  /\ TypeOK
  /\ PendingSound
  /\ ~loaded => DOMAIN pending = {}

\* How long a beacon pending since its missCount-th check has gone unseen.
UnseenFor(b) ==
  \/ sinceSeen[b] >= (pending[b].missCount - 1) * CONFIRM_INTERVAL + pending[b].sinceCheck
  \/ sinceSeen[b] = ConfirmSpan

\* One more spaced check adds CONFIRM_INTERVAL to the time covered.
LEMMA OneMoreCheck ==
  ASSUME NEW m \in Nat
  PROVE  /\ (m - 1) * CONFIRM_INTERVAL \in Int
         /\ m * CONFIRM_INTERVAL = (m - 1) * CONFIRM_INTERVAL + CONFIRM_INTERVAL
<1>1. \A x \in Int, c \in Nat : x * c \in Int /\ (x + 1) * c = x * c + c
  OBVIOUS
<1>2. m - 1 \in Int /\ m = (m - 1) + 1
  OBVIOUS
<1> QED
  BY <1>1, <1>2, SpanType

\* A beacon due for its last check has been unseen for the whole span.
LEMMA ConfirmedIsUnseen ==
  ASSUME PendingInv, NEW base, NEW seen, NEW b \in Confirmed(base, seen)
  PROVE  sinceSeen[b] >= ConfirmSpan
<1>1. /\ b \in DOMAIN pending
      /\ pending[b].sinceCheck >= CONFIRM_INTERVAL
      /\ pending[b].missCount + 1 >= CONFIRM_COUNT
  BY DEF Confirmed, Rechecked
<1>2. /\ pending[b].missCount \in Nat /\ pending[b].sinceCheck \in Nat
      /\ pending[b].missCount = CONFIRM_COUNT - 1
      /\ sinceSeen[b] \in Nat
  BY <1>1, SpanType, ScannerAssumption DEF PendingInv, TypeOK, PendingSound
<1>3. UnseenFor(b)
  BY <1>1 DEF PendingInv, PendingSound, UnseenFor
<1>4. ConfirmSpan = (pending[b].missCount - 1) * CONFIRM_INTERVAL + CONFIRM_INTERVAL
  BY <1>2, OneMoreCheck DEF ConfirmSpan
<1> QED
  BY <1>1, <1>2, <1>3, <1>4, OneMoreCheck, SpanType DEF UnseenFor

\* A scan keeps every pending removal sound.
LEMMA ScanKeepsPending ==
  ASSUME PendingInv, NEW seen \in SUBSET DOMAIN utxo, Scan(seen)
  PROVE  PendingSound'
<1> USE SpanType, ScannerAssumption
<1>1. PICK base \in Restored :
        /\ pending' = PendingAfter(base, seen)
        /\ known' = KnownAfter(base, seen)
        /\ sinceSeen' = [b \in Beacons |-> IF b \in seen THEN 0 ELSE sinceSeen[b]]
  BY DEF Scan
<1>2. DOMAIN pending \subseteq DOMAIN base
  BY DEF PendingInv, PendingSound, Restored
<1>3. DOMAIN base \subseteq Beacons
  BY RestoredType DEF PendingInv
<1> SUFFICES ASSUME NEW b \in DOMAIN pending'
             PROVE  /\ b \in DOMAIN known'
                    /\ pending'[b].missCount \in 1..(CONFIRM_COUNT - 1)
                    /\ UnseenFor(b)'
  BY DEF PendingSound, UnseenFor
<1>4. b \in DOMAIN base /\ b \notin seen /\ b \in Beacons
  BY <1>1, <1>2, <1>3 DEF PendingAfter, NewlyAbsent
<1>5. b \in DOMAIN known'
  BY <1>1, <1>4 DEF KnownAfter
<1>6. sinceSeen'[b] = sinceSeen[b] /\ sinceSeen[b] \in Nat
  BY <1>1, <1>4 DEF PendingInv, TypeOK
<1>7. CASE b \in NewlyAbsent(base, seen)
  <2>1. pending'[b] = [missCount |-> 1, sinceCheck |-> 0]
    BY <1>1, <1>7 DEF PendingAfter
  <2> QED
    BY <1>5, <1>6, <2>1 DEF UnseenFor
<1>8. CASE b \notin NewlyAbsent(base, seen) /\ b \in Rechecked(base, seen)
  <2>1. /\ b \in DOMAIN pending /\ b \notin Confirmed(base, seen)
        /\ pending'[b] = [missCount |-> pending[b].missCount + 1, sinceCheck |-> 0]
    BY <1>1, <1>8 DEF PendingAfter
  <2>2. /\ pending[b].missCount \in 1..(CONFIRM_COUNT - 1)
        /\ pending[b].missCount + 1 < CONFIRM_COUNT
        /\ pending[b].sinceCheck = CONFIRM_INTERVAL
    BY <1>8, <2>1 DEF Confirmed, Rechecked, PendingInv, PendingSound, TypeOK
  <2>3. UnseenFor(b)
    BY <2>1 DEF PendingInv, PendingSound, UnseenFor
  <2>4. UnseenFor(b)'
    BY <1>6, <2>1, <2>2, <2>3, OneMoreCheck DEF UnseenFor, ConfirmSpan
  <2> QED
    BY <1>5, <2>1, <2>2, <2>4
<1>9. CASE b \notin NewlyAbsent(base, seen) /\ b \notin Rechecked(base, seen)
  <2>1. b \in DOMAIN pending /\ pending'[b] = pending[b]
    BY <1>1, <1>9 DEF PendingAfter
  <2> QED
    BY <1>5, <1>6, <2>1 DEF PendingInv, PendingSound, UnseenFor, ConfirmSpan
<1> QED
  BY <1>7, <1>8, <1>9

\* Time passing adds as much to the time unseen as to the last check's age.
LEMMA TickKeepsPending ==
  ASSUME PendingInv, Tick
  PROVE  PendingSound'
<1> USE SpanType, ScannerAssumption
<1> SUFFICES ASSUME NEW b \in DOMAIN pending'
             PROVE  /\ b \in DOMAIN known'
                    /\ pending'[b].missCount \in 1..(CONFIRM_COUNT - 1)
                    /\ UnseenFor(b)'
  BY DEF PendingSound, UnseenFor
<1>1. /\ b \in DOMAIN pending /\ b \in Beacons
      /\ known' = known
      /\ pending'[b] = [pending[b] EXCEPT !.sinceCheck = Older(@, CONFIRM_INTERVAL)]
      /\ sinceSeen'[b] = Older(sinceSeen[b], ConfirmSpan)
  BY DEF Tick, PendingInv, TypeOK
<1>2. /\ pending[b] \in [missCount : Nat, sinceCheck : 0..CONFIRM_INTERVAL]
      /\ sinceSeen[b] \in 0..ConfirmSpan
      /\ pending[b].missCount \in 1..(CONFIRM_COUNT - 1)
      /\ b \in DOMAIN known
      /\ UnseenFor(b)
  BY <1>1 DEF PendingInv, TypeOK, PendingSound, UnseenFor
<1>3. /\ pending'[b].missCount = pending[b].missCount
      /\ pending'[b].sinceCheck = Older(pending[b].sinceCheck, CONFIRM_INTERVAL)
  BY <1>1, <1>2
<1>4. (pending[b].missCount - 1) * CONFIRM_INTERVAL \in Int
  BY <1>2, OneMoreCheck
<1>5. UnseenFor(b)'
  BY <1>1, <1>2, <1>3, <1>4 DEF UnseenFor, Older, ConfirmSpan
<1> QED
  BY <1>1, <1>2, <1>3, <1>5

\* The confirmation in scanBeacons keeps every pending removal sound: known,
\* missed less than CONFIRM_COUNT times, unseen for as long as its checks took.
THEOREM PendingIsSound == Spec => []PendingInv
<1>1. Init => PendingSound /\ (~loaded => DOMAIN pending = {})
  BY DEF Init, PendingSound, EmptyMap
<1>2. PendingInv /\ TypeOK' /\ [Next]_vars
        => PendingSound' /\ (~loaded => DOMAIN pending = {})'
  <2> SUFFICES ASSUME PendingInv, [Next]_vars
               PROVE  PendingSound' /\ (~loaded => DOMAIN pending = {})'
    OBVIOUS
  <2>1. CASE \E b \in Beacons : \/ Subscribe(b) \/ (\E days \in Renewals : Respend(b, days))
                                \/ Burn(b) \/ HandleCreated(b)
                                \/ HandleExtended(b) \/ HandleRemoved(b)
    <3>1. UNCHANGED <<loaded, known, pending, sinceSeen>>
      BY <2>1 DEF Subscribe, Respend, Burn, HandleCreated, HandleExtended,
                  HandleRemoved, scannerVars, historyVars
    <3> QED
      BY <3>1 DEF PendingInv, PendingSound
  <2>2. ASSUME NEW seen \in SUBSET DOMAIN utxo, Scan(seen)
        PROVE  PendingSound' /\ (~loaded => DOMAIN pending = {})'
    BY <2>2, ScanKeepsPending DEF Scan
  <2>3. CASE ScanThrows
    BY <2>3 DEF ScanThrows, PendingInv, PendingSound
  <2>4. CASE Tick
    <3>1. DOMAIN pending' = DOMAIN pending /\ loaded' = loaded
      BY <2>4 DEF Tick
    <3> QED
      BY <2>4, <3>1, TickKeepsPending DEF PendingInv
  <2>5. CASE Restart
    BY <2>5 DEF Restart, PendingSound, EmptyMap
  <2>6. CASE UNCHANGED vars
    BY <2>6 DEF vars, scannerVars, historyVars, PendingInv, PendingSound
  <2> QED
    BY ScanCases, <2>1, <2>2, <2>3, <2>4, <2>5, <2>6 DEF Next
<1> QED
  BY <1>1, <1>2, TypeCorrect, PTL DEF Spec, PendingInv

\* The property of the run: every pending removal is sound.
THEOREM PendingSoundAlways == Spec => []PendingSound
<1>1. PendingInv => PendingSound
  BY DEF PendingInv
<1> QED
  BY <1>1, PendingIsSound, PTL

\* A REMOVED event comes only after ConfirmSpan without an observation,
\* whatever the provider answered and however often the process restarted.
THEOREM RemovalIsSustained == Spec => RemovedOnlyAfterSustainedAbsence
<1> DEFINE Sustained == \A b \in DOMAIN diff'.removed \ DOMAIN diff.removed :
                          sinceSeen[b] >= ConfirmSpan
<1>1. PendingInv /\ [Next]_vars => [Sustained]_vars
  <2> SUFFICES ASSUME PendingInv, Next PROVE Sustained
    OBVIOUS
  <2>1. CASE \E b \in Beacons : \/ Subscribe(b) \/ (\E days \in Renewals : Respend(b, days))
                                \/ Burn(b) \/ HandleCreated(b)
                                \/ HandleExtended(b) \/ HandleRemoved(b)
    <3>1. DOMAIN diff'.removed \subseteq DOMAIN diff.removed
      <4>1. diff = [created |-> diff.created, extended |-> diff.extended,
                    removed |-> diff.removed]
        BY DEF PendingInv, TypeOK
      <4> QED
        BY <2>1, <4>1 DEF Subscribe, Respend, Burn, HandleCreated, HandleExtended,
                          HandleRemoved, Without
    <3> QED
      BY <3>1
  <2>2. ASSUME NEW seen \in SUBSET DOMAIN utxo, Scan(seen) PROVE Sustained
    <3>1. PICK base \in Restored : diff' = DiffOf(base, seen)
      BY <2>2 DEF Scan
    <3>2. DOMAIN diff'.removed = Confirmed(base, seen)
      BY <3>1 DEF DiffOf, Created
    <3> QED
      BY <3>2, ConfirmedIsUnseen
  <2>3. CASE ScanThrows \/ Tick
    BY <2>3 DEF ScanThrows, Tick
  <2>4. CASE Restart
    <3>1. DOMAIN diff'.removed = {}
      BY <2>4 DEF Restart, EmptyDiff, EmptyMap
    <3> QED
      BY <3>1
  <2> QED
    BY ScanCases, <2>1, <2>2, <2>3, <2>4 DEF Next
<1> QED
  BY <1>1, PendingIsSound, PTL DEF Spec, RemovedOnlyAfterSustainedAbsence

-----------------------------------------------------------------------------
\* A live beacon with an entry in vms.json is known to a process that has
\* loaded, or an incomplete answer hid it; what is announced is known.
RecordedInv ==
  /\ recorded \subseteq minted
  /\ DOMAIN diff.created \subseteq minted \cap DOMAIN known
  /\ loaded => \A b \in recorded \cap DOMAIN utxo : b \in DOMAIN known \cup missed

\* RecordedInv holds throughout: HandleCreated only records what is known.
LEMMA RecordedIsKnown == Spec => []RecordedInv
<1>1. Init => RecordedInv
  BY DEF Init, RecordedInv, EmptyDiff, EmptyMap
<1>2. TypeOK /\ RecordedInv /\ [Next]_vars => RecordedInv'
  <2> SUFFICES ASSUME TypeOK, RecordedInv, [Next]_vars PROVE RecordedInv'
    OBVIOUS
  <2> USE DEF RecordedInv
  <2>1. ASSUME NEW b \in Beacons, Subscribe(b) PROVE RecordedInv'
    BY <2>1 DEF Subscribe, scannerVars, historyVars
  <2>2. ASSUME NEW b \in Beacons,
               (\E days \in Renewals : Respend(b, days)) \/ Burn(b)
        PROVE RecordedInv'
    <3>1. DOMAIN utxo' \subseteq DOMAIN utxo
      BY <2>2 DEF Respend, Burn, Without
    <3> QED
      BY <2>2, <3>1 DEF Respend, Burn, scannerVars, historyVars
  <2>3. ASSUME NEW b \in Beacons,
               HandleCreated(b) \/ HandleExtended(b) \/ HandleRemoved(b)
        PROVE RecordedInv'
    <3>1. DOMAIN diff'.created \subseteq DOMAIN diff.created
      BY <2>3 DEF HandleCreated, HandleExtended, HandleRemoved, Without, TypeOK
    <3>2. recorded' \subseteq recorded \cup DOMAIN diff.created
      BY <2>3 DEF HandleCreated, HandleExtended, HandleRemoved
    <3>3. UNCHANGED <<utxo, minted, known, loaded, missed>>
      BY <2>3 DEF HandleCreated, HandleExtended, HandleRemoved, chainVars,
                  scannerVars, historyVars
    <3> QED
      BY <3>1, <3>2, <3>3
  <2>4. ASSUME NEW seen \in SUBSET DOMAIN utxo, Scan(seen) PROVE RecordedInv'
    <3>1. PICK base \in Restored :
            /\ diff' = DiffOf(base, seen)
            /\ known' = KnownAfter(base, seen)
            /\ DOMAIN utxo \ seen \subseteq missed'
      BY <2>4 DEF Scan
    <3>2. seen \subseteq DOMAIN known' /\ DOMAIN diff'.created \subseteq seen
      BY <3>1 DEF KnownAfter, DiffOf, Created
    <3>3. utxo' = utxo /\ minted' = minted /\ recorded' = recorded
      BY <2>4 DEF Scan, chainVars
    <3> QED
      BY <3>1, <3>2, <3>3 DEF TypeOK
  <2>5. CASE ScanThrows
    <3>1. DOMAIN diff.created = {}
      BY <2>5 DEF ScanThrows, EmptyDiff, EmptyMap
    <3> QED
      BY <2>5, <3>1 DEF ScanThrows, chainVars
  <2>6. CASE Tick
    BY <2>6 DEF Tick, chainVars
  <2>7. CASE Restart
    <3>1. DOMAIN diff'.created = {} /\ ~loaded'
      BY <2>7 DEF Restart, EmptyDiff, EmptyMap
    <3> QED
      BY <2>7, <3>1 DEF Restart, chainVars
  <2>8. CASE UNCHANGED vars
    BY <2>8 DEF vars, chainVars, scannerVars, historyVars
  <2> QED
    BY ScanCases, <2>1, <2>2, <2>3, <2>4, <2>5, <2>6, <2>7, <2>8 DEF Next
<1> QED
  BY <1>1, <1>2, TypeCorrect, PTL DEF Spec

\* A recorded beacon is announced as new again only if an incomplete answer,
\* or an unreadable vms.json, hid it from this process: a restart never is
\* enough to give a subscriber a second VM.
THEOREM RecordedIsNotRecreated == Spec => RecordedNeverRecreated
<1> DEFINE Fresh == \A b \in DOMAIN diff'.created \ DOMAIN diff.created :
                      b \in recorded => b \in missed'
<1>1. TypeOK /\ RecordedInv /\ [Next]_vars => [Fresh]_vars
  <2> SUFFICES ASSUME TypeOK, RecordedInv, Next PROVE Fresh
    OBVIOUS
  <2>1. CASE \E b \in Beacons : \/ Subscribe(b) \/ (\E days \in Renewals : Respend(b, days))
                                \/ Burn(b) \/ HandleCreated(b)
                                \/ HandleExtended(b) \/ HandleRemoved(b)
    <3>1. DOMAIN diff'.created \subseteq DOMAIN diff.created
      BY <2>1 DEF Subscribe, Respend, Burn, HandleCreated, HandleExtended,
                  HandleRemoved, Without, TypeOK
    <3> QED
      BY <3>1
  <2>2. ASSUME NEW seen \in SUBSET DOMAIN utxo, Scan(seen) PROVE Fresh
    <3>1. PICK base \in Restored :
            /\ diff' = DiffOf(base, seen)
            /\ missed \subseteq missed'
            /\ ~loaded => recorded \ DOMAIN base \subseteq missed'
      BY <2>2 DEF Scan
    <3>2. DOMAIN diff'.created = seen \ DOMAIN base
      BY <3>1 DEF DiffOf, Created
    <3>3. loaded => base = known
      BY DEF Restored
    <3> QED
      BY <3>1, <3>2, <3>3 DEF RecordedInv
  <2>3. CASE ScanThrows \/ Tick
    BY <2>3 DEF ScanThrows, Tick
  <2>4. CASE Restart
    <3>1. DOMAIN diff'.created = {}
      BY <2>4 DEF Restart, EmptyDiff, EmptyMap
    <3> QED
      BY <3>1
  <2> QED
    BY ScanCases, <2>1, <2>2, <2>3, <2>4 DEF Next
<1> QED
  BY <1>1, TypeCorrect, RecordedIsKnown, PTL DEF Spec, RecordedNeverRecreated
-----------------------------------------------------------------------------
\* What the scanner has announced and no handler has taken yet is what it
\* still knows: the handlers read diff, not known, and this is why a stale
\* event cannot reach them.  An event about a beacon that has a VM, or about
\* the end of a live one, comes from an incomplete answer.
CreatedInv ==
  \A b \in DOMAIN diff.created :
    /\ b \in DOMAIN known /\ diff.created[b] = known[b]
    /\ ~known[b].placeholder /\ known[b].expiry > 0
    /\ b \notin DOMAIN diff.extended
    /\ b \in recorded => b \in missed

ExtendedInv ==
  \A b \in DOMAIN diff.extended :
    /\ b \in DOMAIN known /\ diff.extended[b].new = known[b]
    /\ ~known[b].placeholder
    /\ diff.extended[b].old \in Tracked
    /\ diff.extended[b].old.expiry <= known[b].expiry

RemovedInv ==
  /\ DOMAIN diff.removed \subseteq minted
  /\ \A b \in DOMAIN diff.removed \cap DOMAIN utxo : b \in missed

\* The expiry of a datum never goes back: what is known of it is not later.
KnownInv ==
  /\ DOMAIN known \subseteq minted
  /\ \A b \in DOMAIN known \cap DOMAIN utxo : known[b].expiry <= utxo[b].expiry

ReportInv == CreatedInv /\ ExtendedInv /\ RemovedInv /\ KnownInv

\* A scan announces what it then knows.
LEMMA ScanReports ==
  ASSUME TypeOK, RecordedInv, ReportInv, NEW seen \in SUBSET DOMAIN utxo, Scan(seen)
  PROVE  ReportInv'
<1>1. PICK base \in Restored :
        /\ diff' = DiffOf(base, seen)
        /\ known' = KnownAfter(base, seen)
        /\ missed' = missed \cup (DOMAIN utxo \ seen)
                       \cup (IF loaded THEN {} ELSE recorded \ DOMAIN base)
  BY DEF Scan
<1>2. utxo' = utxo /\ minted' = minted /\ recorded' = recorded
  BY DEF Scan, chainVars
<1>3. /\ DOMAIN base \subseteq minted
      /\ \A b \in DOMAIN base : base[b] \in Tracked
      /\ \A b \in DOMAIN base \cap DOMAIN utxo : base[b].expiry <= utxo[b].expiry
  <2>1. \A b \in DOMAIN base : base[b] \in Tracked
    BY RestoredType
  <2>2. \A b \in DOMAIN utxo : utxo[b].expiry \in Nat \ {0}
    BY DEF TypeOK, Utxo
  <2>3. CASE base = known
    BY <2>1, <2>3 DEF ReportInv, KnownInv
  <2>4. CASE base = [b \in recorded |-> PLACEHOLDER]
    BY <2>1, <2>2, <2>4 DEF RecordedInv, PLACEHOLDER
  <2>5. CASE base = EmptyMap
    BY <2>5 DEF EmptyMap
  <2> QED
    BY <2>3, <2>4, <2>5 DEF Restored
<1>4. \A b \in seen : /\ b \in DOMAIN known' /\ known'[b] = Observed(b)
                      /\ ~Observed(b).placeholder
                      /\ Observed(b).expiry = utxo[b].expiry
                      /\ utxo[b].expiry \in Nat \ {0}
  BY <1>1 DEF KnownAfter, Observed, TypeOK, Utxo
<1>5. CreatedInv'
  <2>1. /\ DOMAIN diff'.created = seen \ DOMAIN base
        /\ DOMAIN diff'.extended = Extended(base, seen)
        /\ \A b \in DOMAIN diff'.created : diff'.created[b] = Observed(b)
    BY <1>1 DEF DiffOf, Created
  <2>2. Extended(base, seen) \subseteq DOMAIN base
    BY DEF Extended
  <2>3. \A b \in DOMAIN diff'.created : b \in recorded' => b \in missed'
    BY <1>1, <1>2, <2>1 DEF RecordedInv, Restored
  <2> QED
    BY <1>4, <2>1, <2>2, <2>3 DEF CreatedInv
<1>6. ExtendedInv'
  <2>1. /\ DOMAIN diff'.extended = Extended(base, seen)
        /\ \A b \in Extended(base, seen) :
             diff'.extended[b] = [old |-> base[b], new |-> Observed(b)]
    BY <1>1 DEF DiffOf
  <2>2. Extended(base, seen) \subseteq seen \cap DOMAIN base
    BY DEF Extended
  <2> SUFFICES ASSUME NEW b \in Extended(base, seen)
               PROVE  /\ b \in DOMAIN known' /\ diff'.extended[b].new = known'[b]
                      /\ ~known'[b].placeholder
                      /\ diff'.extended[b].old \in Tracked
                      /\ diff'.extended[b].old.expiry <= known'[b].expiry
    BY <2>1 DEF ExtendedInv
  <2>3. diff'.extended[b].old = base[b] /\ diff'.extended[b].new = Observed(b)
    <3>1. diff'.extended[b] = [old |-> base[b], new |-> Observed(b)]
      BY <1>1 DEF DiffOf
    <3> QED
      BY <3>1 DEF Observed
  <2>4. b \in seen /\ b \in DOMAIN base /\ b \in DOMAIN utxo
    BY <2>2
  <2> QED
    BY <1>3, <1>4, <2>3, <2>4
<1>7. RemovedInv'
  <2>1. DOMAIN diff'.removed \subseteq DOMAIN base \ seen
    BY <1>1 DEF DiffOf, Confirmed, Rechecked
  <2> QED
    BY <1>1, <1>2, <1>3, <2>1 DEF RemovedInv
<1>8. KnownInv'
  <2>1. /\ DOMAIN known' \subseteq seen \cup DOMAIN base
        /\ \A b \in DOMAIN known' \ seen : known'[b] = base[b]
    BY <1>1 DEF KnownAfter
  <2>2. seen \subseteq minted
    BY DEF TypeOK
  <2> QED
    BY <1>2, <1>3, <1>4, <2>1, <2>2 DEF KnownInv
<1> QED
  BY <1>5, <1>6, <1>7, <1>8 DEF ReportInv

\* Handlers take an event each; only the first kind records anything, and
\* then its event is gone.
LEMMA HandlersKeepReports ==
  ASSUME TypeOK, ReportInv, NEW b \in Beacons,
         HandleCreated(b) \/ HandleExtended(b) \/ HandleRemoved(b)
  PROVE  ReportInv'
<1> USE DEF ReportInv, CreatedInv, ExtendedInv, RemovedInv, KnownInv
<1>1. UNCHANGED <<utxo, minted, known, missed>>
  BY DEF HandleCreated, HandleExtended, HandleRemoved, chainVars, scannerVars, historyVars
<1>2. CASE HandleCreated(b)
  <2>1. /\ DOMAIN diff'.created = DOMAIN diff.created \ {b}
        /\ \A c \in DOMAIN diff'.created : diff'.created[c] = diff.created[c]
        /\ diff'.extended = diff.extended /\ diff'.removed = diff.removed
        /\ recorded' \subseteq recorded \cup {b}
    BY <1>2 DEF HandleCreated, Without, TypeOK
  <2> QED
    BY <1>1, <2>1
<1>3. CASE HandleExtended(b)
  <2>1. /\ DOMAIN diff'.extended = DOMAIN diff.extended \ {b}
        /\ \A c \in DOMAIN diff'.extended : diff'.extended[c] = diff.extended[c]
        /\ diff'.created = diff.created /\ diff'.removed = diff.removed
        /\ recorded' = recorded
    BY <1>3 DEF HandleExtended, Without, TypeOK
  <2> QED
    BY <1>1, <2>1
<1>4. CASE HandleRemoved(b)
  <2>1. /\ DOMAIN diff'.removed = DOMAIN diff.removed \ {b}
        /\ diff'.created = diff.created /\ diff'.extended = diff.extended
        /\ recorded' \subseteq recorded
    BY <1>4 DEF HandleRemoved, Without, TypeOK
  <2> QED
    BY <1>1, <2>1
<1> QED
  BY <1>2, <1>3, <1>4

\* Whatever the handlers are still to be told is true of what the scanner
\* knows, whatever the chain has done since.
LEMMA ReportsAreKnown == Spec => []ReportInv
<1>1. Init => ReportInv
  BY DEF Init, ReportInv, CreatedInv, ExtendedInv, RemovedInv, KnownInv, EmptyDiff, EmptyMap
<1>2. TypeOK /\ RecordedInv /\ ReportInv /\ [Next]_vars => ReportInv'
  <2> SUFFICES ASSUME TypeOK, RecordedInv, ReportInv, [Next]_vars PROVE ReportInv'
    OBVIOUS
  <2> USE DEF ReportInv, CreatedInv, ExtendedInv, RemovedInv, KnownInv
  <2>1. ASSUME NEW b \in Beacons, Subscribe(b) PROVE ReportInv'
    <3>1. /\ DOMAIN utxo' = DOMAIN utxo \cup {b} /\ minted' = minted \cup {b}
          /\ b \notin minted
          /\ \A c \in DOMAIN utxo : c # b => utxo'[c] = utxo[c]
      BY <2>1 DEF Subscribe
    <3>2. UNCHANGED <<recorded, known, diff, missed>>
      BY <2>1 DEF Subscribe, scannerVars, historyVars
    <3> QED
      BY <3>1, <3>2
  <2>2. ASSUME NEW b \in Beacons, NEW days \in Renewals, Respend(b, days) PROVE ReportInv'
    <3>1. /\ DOMAIN utxo' = DOMAIN utxo
          /\ \A c \in DOMAIN utxo : utxo'[c].expiry >= utxo[c].expiry
                                    /\ utxo'[c].expiry \in Int /\ utxo[c].expiry \in Int
      BY <2>2, ScannerAssumption DEF Respend, TypeOK, Utxo
    <3>2. UNCHANGED <<minted, recorded, known, diff, missed>>
      BY <2>2 DEF Respend, scannerVars, historyVars
    <3>3. \A c \in DOMAIN known : known[c].expiry \in Int
      BY DEF TypeOK, Tracked
    <3> QED
      BY <3>1, <3>2, <3>3
  <2>3. ASSUME NEW b \in Beacons, Burn(b) PROVE ReportInv'
    BY <2>3 DEF Burn, Without, scannerVars, historyVars
  <2>4. ASSUME NEW b \in Beacons,
               HandleCreated(b) \/ HandleExtended(b) \/ HandleRemoved(b)
        PROVE ReportInv'
    BY <2>4, HandlersKeepReports
  <2>5. ASSUME NEW seen \in SUBSET DOMAIN utxo, Scan(seen) PROVE ReportInv'
    BY <2>5, ScanReports
  <2>6. CASE ScanThrows
    <3>1. \/ known' = EmptyMap
          \/ known' = [b \in recorded |-> PLACEHOLDER]
      BY <2>6 DEF ScanThrows, Restored
    <3>2. /\ DOMAIN diff.created = {} /\ DOMAIN diff.extended = {}
          /\ DOMAIN diff.removed = {}
      BY <2>6 DEF ScanThrows, EmptyDiff, EmptyMap
    <3>3. UNCHANGED <<utxo, minted, diff>>
      BY <2>6 DEF ScanThrows, chainVars
    <3>4. \A b \in DOMAIN utxo : utxo[b].expiry \in Nat
      BY DEF TypeOK, Utxo
    <3> QED
      BY <3>1, <3>2, <3>3, <3>4 DEF EmptyMap, PLACEHOLDER, RecordedInv
  <2>7. CASE Tick
    BY <2>7 DEF Tick, chainVars
  <2>8. CASE Restart
    BY <2>8 DEF Restart, chainVars, EmptyDiff, EmptyMap
  <2>9. CASE UNCHANGED vars
    BY <2>9 DEF vars, chainVars, scannerVars, historyVars
  <2> QED
    BY ScanCases, <2>1, <2>2, <2>3, <2>4, <2>5, <2>6, <2>7, <2>8, <2>9 DEF Next
<1> QED
  BY <1>1, <1>2, TypeCorrect, RecordedIsKnown, PTL DEF Spec
=============================================================================
