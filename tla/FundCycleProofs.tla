-------------------------- MODULE FundCycleProofs --------------------------
(***************************************************************************)
(* Fund cycles are an interval apart, no wallet promises more than it has, *)
(* and the shares of a cycle are those of the share file: for every        *)
(* interval, every balance, every share file and any number of restarts    *)
(* and failed steps.                                                       *)
(***************************************************************************)
EXTENDS FundCycle, FiniteSetTheorems, WellFoundedInduction, SequenceTheorems, TLAPS

-----------------------------------------------------------------------------
(***************************************************************************)
(* 1. When cycles begin                                                    *)
(***************************************************************************)
Ages == [cycle : 0..Interval, collateral : 0..1]
Resting == turn.step \in {"idle", "checked"}

\* What the schedule depends on has its type; only a loaded state is worked on.
ClockInv ==
  /\ cached \in Ages \cup {NotLoaded}
  /\ file \in Ages
  /\ begun \in 0..Interval
  /\ excused \in BOOLEAN
  /\ "step" \in DOMAIN turn
  /\ cached = NotLoaded => turn.step = "idle"

(***************************************************************************)
(* Between cycles neither the state in memory nor, where it is the one     *)
(* that will be loaded, the file is older than the last cycle.             *)
(***************************************************************************)
SpacedInv ==
  /\ ClockInv
  /\ ~excused /\ cached = NotLoaded => file.cycle <= begun
  /\ ~excused /\ cached # NotLoaded /\ Resting => cached.cycle <= begun

LEMMA IntervalIsNat == Interval \in Nat
BY FundAssumption

LEMMA NotLoadedIsNoAge == NotLoaded \notin Ages
BY IntervalIsNat DEF NotLoaded, Ages

LEMMA DefaultStateIsOld == DefaultState \in Ages /\ DefaultState.cycle = Interval
BY IntervalIsNat DEF DefaultState, Ages

LEMMA OlderIsBounded ==
  ASSUME NEW max \in Nat, NEW h \in 0..max, NEW k \in 0..max
  PROVE  /\ Older(h, max) \in 0..max
         /\ h <= k => Older(h, max) <= Older(k, max)
BY DEF Older

LEMMA SpacedInit == Init => SpacedInv
<1> SUFFICES ASSUME Init PROVE SpacedInv
  OBVIOUS
<1>1. cached = NotLoaded /\ file = DefaultState /\ begun = Interval /\ excused = FALSE
  BY DEF Init
<1>2. "step" \in DOMAIN turn /\ turn.step = "idle"
  BY DEF Init, Idle
<1>3. begun \in 0..Interval
  BY <1>1, IntervalIsNat
<1>4. excused \in BOOLEAN
  BY <1>1
<1>5. ClockInv
  BY <1>1, <1>2, <1>3, <1>4, DefaultStateIsOld DEF ClockInv
<1>6. file.cycle <= begun
  BY <1>1, IntervalIsNat, DefaultStateIsOld
<1> QED
  BY <1>1, <1>5, <1>6 DEF SpacedInv

\* updateState with a new age of one of the tasks.
LEMMA UpdateStateFacts ==
  ASSUME ClockInv, cached # NotLoaded, NEW new \in Ages, UpdateState(new)
  PROVE  cached' = new /\ file' \in Ages
BY DEF UpdateState, ClockInv

LEMMA SpacedStep == SpacedInv /\ [Next]_vars => SpacedInv'
<1> SUFFICES ASSUME SpacedInv, [Next]_vars PROVE SpacedInv'
  OBVIOUS
<1> USE IntervalIsNat, NotLoadedIsNoAge
<1>1. CASE LoadState
  <2>1. cached = NotLoaded /\ UNCHANGED <<file, turn, begun>>
    BY <1>1 DEF LoadState
  <2>2. \/ cached' = file /\ excused' = excused
        \/ cached' = DefaultState /\ excused' = TRUE
    BY <1>1 DEF LoadState
  <2> QED
    BY <2>1, <2>2, DefaultStateIsOld DEF SpacedInv, ClockInv
<1>2. CASE StartCycle
  <2>1. cached' = cached /\ file' = file /\ begun' = 0 /\ excused' = FALSE
    BY <1>2 DEF StartCycle, state
  <2>2. cached # NotLoaded
    BY <1>2 DEF StartCycle, Due
  <2>3. "step" \in DOMAIN turn' /\ turn'.step \in {"collect", "end"}
    BY <1>2 DEF StartCycle, Idle
  <2>4. ~Resting' /\ 0 \in 0..Interval
    BY <2>3 DEF Resting
  <2> QED
    BY <2>1, <2>2, <2>3, <2>4 DEF SpacedInv, ClockInv
<1>3. CASE Collect \/ TopUpHotWalletGas \/ TopUpServerStablecoinBuffer
             \/ LoadRevenueShares \/ SendShare \/ SendRemainderToAdmin
  <2>1. ~Resting /\ turn.step # "idle"
    BY <1>3 DEF Collect, TopUpHotWalletGas, TopUpServerStablecoinBuffer, Distributes,
                LoadRevenueShares, SendShare, SendRemainderToAdmin, At, Resting
  <2>2. UNCHANGED <<state, history>>
    BY <1>3 DEF Collect, TopUpHotWalletGas, TopUpServerStablecoinBuffer, Distributes,
                LoadRevenueShares, SendShare, SendRemainderToAdmin
  <2>3. "step" \in DOMAIN turn' /\ turn'.step \notin {"idle", "checked"}
    <3>1. CASE Collect
      BY <3>1 DEF Collect, GoesTo, SpacedInv, ClockInv
    <3>2. CASE TopUpHotWalletGas \/ TopUpServerStablecoinBuffer
      BY <3>2 DEF TopUpHotWalletGas, TopUpServerStablecoinBuffer, Distributes, GoesTo,
                  SpacedInv, ClockInv
    <3>3. CASE LoadRevenueShares
      BY <3>3 DEF LoadRevenueShares, SpacedInv, ClockInv
    <3>4. CASE SendShare
      BY <3>4 DEF SendShare, SpacedInv, ClockInv
    <3>5. CASE SendRemainderToAdmin
      BY <3>5 DEF SendRemainderToAdmin, Idle
    <3> QED
      BY <1>3, <3>1, <3>2, <3>3, <3>4, <3>5
  <2> QED
    BY <2>1, <2>2, <2>3 DEF SpacedInv, ClockInv, Resting, state, history
<1>4. CASE Finish
  <2>1. cached \in Ages
    BY <1>4 DEF Finish, At, SpacedInv, ClockInv
  <2>2. [cached EXCEPT !.cycle = 0] \in Ages
    BY <2>1 DEF Ages
  <2>3. cached' = [cached EXCEPT !.cycle = 0] /\ file' \in Ages
    BY <1>4, <2>1, <2>2, UpdateStateFacts DEF Finish, SpacedInv
  <2>4. cached'.cycle = 0
    BY <2>1, <2>3 DEF Ages
  <2>5. turn' = Idle /\ UNCHANGED history
    BY <1>4 DEF Finish
  <2> QED
    BY <2>2, <2>3, <2>4, <2>5 DEF SpacedInv, ClockInv, Idle, history
<1>5. CASE EnsureCollateral
  <2>1. UNCHANGED <<state, history>> /\ turn' = [Idle EXCEPT !.step = "checked"]
    BY <1>5 DEF EnsureCollateral
  <2>2. Resting /\ cached # NotLoaded
    BY <1>5 DEF EnsureCollateral, At, Resting, NotLoaded
  <2> QED
    BY <2>1, <2>2 DEF SpacedInv, ClockInv, Resting, Idle, state, history
<1>6. CASE FinishCheck
  <2>1. cached \in Ages /\ Resting
    BY <1>6 DEF FinishCheck, At, SpacedInv, ClockInv, Resting
  <2>2. [cached EXCEPT !.collateral = 0] \in Ages
    BY <2>1 DEF Ages
  <2>3. cached' = [cached EXCEPT !.collateral = 0] /\ file' \in Ages
    BY <1>6, <2>1, <2>2, UpdateStateFacts DEF FinishCheck, SpacedInv
  <2>4. cached'.cycle = cached.cycle
    BY <2>1, <2>3 DEF Ages
  <2>5. turn' = Idle /\ UNCHANGED history
    BY <1>6 DEF FinishCheck
  <2> QED
    BY <2>1, <2>2, <2>3, <2>4, <2>5 DEF SpacedInv, ClockInv, Idle, history
<1>7. CASE Tick
  <2>1. begun' = Older(begun, Interval) /\ file' = Aged(file) /\ UNCHANGED <<turn, excused>>
    BY <1>7 DEF Tick
  <2>2. /\ cached = NotLoaded => cached' = NotLoaded
        /\ cached # NotLoaded => cached' = Aged(cached)
    BY <1>7 DEF Tick
  <2>3. begun' \in 0..Interval
    BY <2>1, OlderIsBounded DEF SpacedInv, ClockInv
  <2>4. ASSUME NEW s \in Ages
        PROVE  /\ Aged(s) \in Ages
               /\ s.cycle <= begun => Aged(s).cycle <= begun'
    <3>1. s.cycle \in 0..Interval /\ s.collateral \in 0..1
      BY DEF Ages
    <3>2. Older(s.cycle, Interval) \in 0..Interval
          /\ (s.cycle <= begun => Older(s.cycle, Interval) <= Older(begun, Interval))
      BY <3>1, OlderIsBounded DEF SpacedInv, ClockInv
    <3>3. Older(s.collateral, 1) \in 0..1
      BY <3>1 DEF Older
    <3> QED
      BY <2>1, <3>2, <3>3 DEF Aged, Ages
  <2>5. file' \in Ages /\ cached' \in Ages \cup {NotLoaded}
    BY <2>1, <2>2, <2>4 DEF SpacedInv, ClockInv
  <2>6. cached # NotLoaded => cached' # NotLoaded
    BY <2>2, <2>4 DEF SpacedInv, ClockInv
  <2> QED
    BY <2>1, <2>2, <2>3, <2>4, <2>5, <2>6 DEF SpacedInv, ClockInv, Resting
<1>8. CASE Restart
  <2>1. /\ cached' = NotLoaded /\ turn' = Idle /\ file' = file /\ begun' = begun
        /\ excused' = \/ excused
                      \/ ~Resting
                      \/ cached # NotLoaded /\ cached.cycle # file.cycle
    BY <1>8 DEF Restart, Resting
  <2> QED
    BY <2>1 DEF SpacedInv, ClockInv, Idle
<1>9. CASE SpendCollateral \/ (\E i \in DOMAIN pool : Confirm(i) \/ Lose(i)) \/ UNCHANGED vars
  <2>1. UNCHANGED <<state, turn, history>>
    BY <1>9 DEF SpendCollateral, Confirm, Lose, vars
  <2> QED
    BY <2>1 DEF SpacedInv, ClockInv, Resting, state, history
<1> QED
  BY <1>1, <1>2, <1>3, <1>4, <1>5, <1>6, <1>7, <1>8, <1>9 DEF Next, Monitor, Cycle

(***************************************************************************)
(* state.ts: the last run survives restarts.  No cycle begins sooner than  *)
(* an interval after the one before, unless that one was cut short, its    *)
(* end was not saved before a restart, or the file could not be read.      *)
(***************************************************************************)
THEOREM CyclesSpacedAlways == Spec => CyclesSpaced
<1>1. SpacedInv /\ [Next]_vars => [StartCycle => begun >= Interval \/ excused]_vars
  <2> SUFFICES ASSUME SpacedInv, StartCycle, ~excused PROVE begun >= Interval
    OBVIOUS
  <2>1. Resting /\ cached \in Ages /\ cached.cycle >= Interval
    BY DEF StartCycle, Due, At, Resting, SpacedInv, ClockInv
  <2>2. cached.cycle \in 0..Interval /\ begun \in 0..Interval
    BY <2>1 DEF Ages, SpacedInv, ClockInv
  <2>3. cached.cycle <= begun
    BY <2>1, NotLoadedIsNoAge DEF SpacedInv
  <2> QED
    BY <2>1, <2>2, <2>3, IntervalIsNat
<1> QED
  BY <1>1, SpacedInit, SpacedStep, PTL DEF Spec, CyclesSpaced

-----------------------------------------------------------------------------
(***************************************************************************)
(* 2. Induction and sums: a set of numbers that holds 0 and what follows   *)
(* each of its members holds them all, because the rest would have a least *)
(* member.                                                                 *)
(***************************************************************************)
\* Every set of numbers with a member has a least one.
LEMMA LeastNumber ==
  ASSUME NEW T \in SUBSET Nat, T # {}
  PROVE  \E n \in T : \A m \in T : n <= m
<1> DEFINE R == OpToRel(<, Nat)
<1>1. IsWellFoundedOn(R, Nat)
  BY NatLessThanWellFounded
<1>2. \A m, n \in T : m < n => <<m, n>> \in R
  BY DEF OpToRel
<1> HIDE DEF R
<1>3. PICK n \in T : \A m \in T : ~ (<<m, n>> \in R)
  BY <1>1, WFMin
<1>4. ASSUME NEW m \in T PROVE n <= m
  <2>1. ~ (m < n)
    BY <1>2, <1>3
  <2>2. m \in Nat /\ n \in Nat
    OBVIOUS
  <2> QED
    BY <2>1, <2>2
<1> QED
  BY <1>4

\* Induction for a set of numbers, where the library's is for an operator.
LEMMA AllNumbers ==
  ASSUME NEW G \in SUBSET Nat, 0 \in G, \A n \in G : n + 1 \in G
  PROVE  Nat \subseteq G
<1> SUFFICES ASSUME Nat \ G # {} PROVE FALSE
  OBVIOUS
<1>1. PICK n \in Nat \ G : \A m \in Nat \ G : n <= m
  <2>1. Nat \ G \in SUBSET Nat
    OBVIOUS
  <2> QED
    BY <2>1, LeastNumber
<1>2. n - 1 \in Nat /\ ~(n <= n - 1)
  OBVIOUS
<1>3. n - 1 \in G
  BY <1>1, <1>2
<1> QED
  BY <1>2, <1>3

\* The same for the subsets of a finite set.
LEMMA AllSubsets ==
  ASSUME NEW S, IsFiniteSet(S), NEW G \in SUBSET (SUBSET S), {} \in G,
         \A T \in SUBSET S : T # {} /\ (\A x \in T : T \ {x} \in G) => T \in G
  PROVE  \A T \in SUBSET S : T \in G
<1> DEFINE N == {n \in Nat : \A T \in SUBSET S : Cardinality(T) = n => T \in G}
<1>1. \A T \in SUBSET S : IsFiniteSet(T) /\ Cardinality(T) \in Nat
  BY FS_Subset, FS_CardinalityType
<1>2. 0 \in N
  BY <1>1, FS_EmptySet
<1>3. ASSUME NEW n \in N PROVE n + 1 \in N
  <2>1. n \in Nat /\ \A T \in SUBSET S : Cardinality(T) = n => T \in G
    BY <1>3
  <2> SUFFICES ASSUME NEW T \in SUBSET S, Cardinality(T) = n + 1 PROVE T \in G
    BY <2>1
  <2>2. T # {}
    BY <2>1, FS_EmptySet
  <2>3. ASSUME NEW x \in T PROVE T \ {x} \in G
    <3>1. Cardinality(T \ {x}) = Cardinality(T) - 1
      BY <1>1, FS_RemoveElement
    <3>2. Cardinality(T \ {x}) = n
      BY <2>1, <3>1
    <3> QED
      BY <2>1, <3>2
  <2> QED
    BY <2>2, <2>3
<1> HIDE DEF N
<1>4. Nat \subseteq N
  <2>1. N \in SUBSET Nat
    BY DEF N
  <2> QED
    BY <1>2, <1>3, <2>1, AllNumbers
<1> QED
  BY <1>1, <1>4 DEF N

-----------------------------------------------------------------------------
\* The sum of f over the set S, and what it is to be one, for every part of S.
SumOver(f, S) == MapThenSumSet(LAMBDA x : f[x], S)

Summing(f, S, g) ==
  /\ g \in [SUBSET S -> Int]
  /\ g[{}] = 0
  /\ \A T \in SUBSET S : \A x \in T : g[T] = f[x] + g[T \ {x}]

\* There is such a function, defined for ever larger parts of S.
LEMMA SummingExists ==
  ASSUME NEW S, IsFiniteSet(S), NEW f, \A x \in S : f[x] \in Int
  PROVE  \E g : Summing(f, S, g)
<1> DEFINE Small(n) == {T \in SUBSET S : Cardinality(T) <= n}
           Adds(n, g) == /\ g \in [Small(n) -> Int]
                         /\ g[{}] = 0
                         /\ \A T \in Small(n) : \A x \in T : g[T] = f[x] + g[T \ {x}]
           N == {n \in Nat : \E g : Adds(n, g)}
<1>1. \A T \in SUBSET S : /\ IsFiniteSet(T) /\ Cardinality(T) \in Nat
                          /\ Cardinality(T) <= Cardinality(S)
  BY FS_Subset, FS_CardinalityType
<1>2. \A T \in SUBSET S : \A x \in T : Cardinality(T \ {x}) = Cardinality(T) - 1
  BY <1>1, FS_RemoveElement
<1>3. {} \in SUBSET S /\ Cardinality({}) = 0
  BY FS_EmptySet
<1>4. 0 \in N
  <2>1. \A T \in Small(0) : T = {}
    BY <1>1, FS_EmptySet
  <2>2. Adds(0, [T \in Small(0) |-> 0])
    BY <1>3, <2>1
  <2> QED
    BY <2>2
<1>5. ASSUME NEW n \in N PROVE n + 1 \in N
  <2>1. n \in Nat
    OBVIOUS
  <2>2. PICK g : Adds(n, g)
    OBVIOUS
  <2> DEFINE Some(T) == CHOOSE x \in T : TRUE
             h == [T \in Small(n + 1) |->
                     IF T \in Small(n) THEN g[T] ELSE f[Some(T)] + g[T \ {Some(T)}]]
  <2>3. Small(n) \subseteq Small(n + 1)
    BY <1>1, <2>1
  <2>4. ASSUME NEW T \in Small(n + 1), NEW x \in T PROVE T \ {x} \in Small(n)
    BY <1>1, <1>2, <2>1, <2>4
  <2>5. ASSUME NEW T \in Small(n + 1), T \notin Small(n) PROVE Some(T) \in T
    <3>1. T # {}
      <4>1. {} \in Small(n)
        BY <1>3, <2>1
      <4> QED
        BY <2>5, <4>1
    <3> QED
      BY <3>1
  <2>6. \A T \in Small(n) : g[T] \in Int
    BY <2>2
  <2>7. h \in [Small(n + 1) -> Int]
    <3> SUFFICES ASSUME NEW T \in Small(n + 1), T \notin Small(n)
                 PROVE  f[Some(T)] + g[T \ {Some(T)}] \in Int
      BY <2>6
    <3>1. Some(T) \in T
      BY <2>5
    <3> HIDE DEF Some
    <3>2. Some(T) \in S
      BY <3>1
    <3>3. T \ {Some(T)} \in Small(n)
      BY <2>4, <3>1
    <3>4. g[T \ {Some(T)}] \in Int
      BY <2>6, <3>3
    <3> HIDE DEF Small, Adds, h
    <3> QED
      BY <3>2, <3>4
  <2>8. h[{}] = 0
    BY <1>3, <2>1, <2>2
  <2>9. ASSUME NEW T \in Small(n + 1), NEW x \in T
        PROVE  h[T] = f[x] + h[T \ {x}]
    <3>1. T \ {x} \in Small(n) /\ h[T \ {x}] = g[T \ {x}]
      BY <2>3, <2>4
    <3>2. CASE T \in Small(n)
      <4>1. h[T] = g[T]
        BY <3>2
      <4> QED
        BY <2>2, <3>1, <3>2, <4>1
    <3>3. CASE T \notin Small(n)
      <4>1. Some(T) \in T
        BY <2>5, <3>3
      <4>2. h[T] = f[Some(T)] + g[T \ {Some(T)}]
        BY <3>3
      <4> HIDE DEF Some
      <4>3. T \ {Some(T)} \in Small(n)
        BY <2>4, <4>1
      <4>4. CASE Some(T) = x
        BY <3>1, <4>2, <4>4
      <4>5. CASE Some(T) # x
        <5>1. g[T \ {x}] = f[Some(T)] + g[(T \ {x}) \ {Some(T)}]
          BY <2>2, <3>1, <4>1, <4>5
        <5>2. g[T \ {Some(T)}] = f[x] + g[(T \ {Some(T)}) \ {x}]
          BY <2>2, <4>3, <4>5
        <5>3. (T \ {x}) \ {Some(T)} = (T \ {Some(T)}) \ {x}
          OBVIOUS
        <5>4. (T \ {Some(T)}) \ {x} \in Small(n)
          BY <2>3, <2>4, <4>3, <4>5
        <5>5. f[x] \in Int /\ f[Some(T)] \in Int /\ g[(T \ {Some(T)}) \ {x}] \in Int
          BY <2>6, <4>1, <5>4
        <5> HIDE DEF Small, Adds, h
        <5>6. g[(T \ {x}) \ {Some(T)}] = g[(T \ {Some(T)}) \ {x}]
          BY <5>3
        <5> QED
          BY <3>1, <4>2, <5>1, <5>2, <5>5, <5>6
      <4> QED
        BY <4>4, <4>5
    <3> QED
      BY <3>2, <3>3
  <2>10. Adds(n + 1, h)
    <3> HIDE DEF h, Small
    <3> QED
      BY <2>7, <2>8, <2>9
  <2> HIDE DEF h, Adds
  <2> QED
    BY <2>1, <2>10
<1> HIDE DEF N
<1>6. Nat \subseteq N
  <2>1. N \in SUBSET Nat
    BY DEF N
  <2> QED
    BY <1>4, <1>5, <2>1, AllNumbers
<1>7. PICK g : Adds(Cardinality(S), g)
  BY <1>1, <1>6 DEF N
<1>8. Small(Cardinality(S)) = SUBSET S
  BY <1>1
<1> QED
  BY <1>7, <1>8 DEF Summing

\* The fold that MapThenSumSet is gives the same sums.
LEMMA FoldIsSumming ==
  ASSUME NEW S, IsFiniteSet(S), NEW f, NEW g, Summing(f, S, g)
  PROVE  SumOver(f, S) = g[S]
<1> DEFINE Iter(it) == it = [T \in SUBSET S |->
             IF T = {} THEN 0
             ELSE f[CHOOSE x \in T : TRUE] + it[T \ {CHOOSE x \in T : TRUE}]]
           it0 == CHOOSE it : Iter(it)
           G == {T \in SUBSET S : it0[T] = g[T]}
<1>1. SumOver(f, S) = it0[S]
  BY DEF SumOver, MapThenSumSet, MapThenFoldSet
<1>2. Iter(g)
  <2>1. \A T \in SUBSET S : g[T] = IF T = {} THEN 0
             ELSE f[CHOOSE x \in T : TRUE] + g[T \ {CHOOSE x \in T : TRUE}]
    <3> SUFFICES ASSUME NEW T \in SUBSET S, T # {}
                 PROVE  g[T] = f[CHOOSE x \in T : TRUE] + g[T \ {CHOOSE x \in T : TRUE}]
      BY DEF Summing
    <3>1. (CHOOSE x \in T : TRUE) \in T
      OBVIOUS
    <3> QED
      BY <3>1 DEF Summing
  <2> QED
    BY <2>1 DEF Summing
<1>3. Iter(it0)
  <2> HIDE DEF Iter
  <2> QED
    BY <1>2
<1> HIDE DEF it0
<1>4. {} \in G
  BY <1>3 DEF Summing
<1>5. ASSUME NEW T \in SUBSET S, T # {}, \A x \in T : T \ {x} \in G PROVE T \in G
  <2>1. PICK y \in T : y = CHOOSE x \in T : TRUE
    BY <1>5
  <2>2. it0[T] = f[y] + it0[T \ {y}]
    BY <1>3, <1>5, <2>1
  <2>3. g[T] = f[y] + g[T \ {y}]
    BY DEF Summing
  <2> QED
    BY <1>5, <2>2, <2>3
<1>6. G \in SUBSET (SUBSET S)
  OBVIOUS
<1> HIDE DEF G
<1>7. S \in G
  BY <1>4, <1>5, <1>6, AllSubsets
<1> QED
  BY <1>1, <1>7 DEF G

\* Any term may be taken out of a sum first.
LEMMA SumByRemoval ==
  ASSUME NEW S, IsFiniteSet(S), NEW f, \A x \in S : f[x] \in Int
  PROVE  /\ SumOver(f, S) \in Int
         /\ \A x \in S : SumOver(f, S) = f[x] + SumOver(f, S \ {x})
<1>1. PICK g : Summing(f, S, g)
  BY SummingExists
<1>2. ASSUME NEW T \in SUBSET S PROVE SumOver(f, T) = g[T]
  <2>1. IsFiniteSet(T)
    BY FS_Subset
  <2> DEFINE h == [U \in SUBSET T |-> g[U]]
  <2>2. Summing(f, T, h)
    BY <1>1 DEF Summing
  <2> QED
    BY <2>1, <2>2, FoldIsSumming
<1>3. /\ S \in SUBSET S /\ g[S] \in Int
      /\ \A x \in S : S \ {x} \in SUBSET S /\ g[S] = f[x] + g[S \ {x}]
  BY <1>1 DEF Summing
<1> QED
  BY <1>2, <1>3

\* Nothing adds up to zero.
LEMMA SumOfNothing == ASSUME NEW f PROVE SumOver(f, {}) = 0
<1> DEFINE g == [T \in SUBSET {} |-> 0]
<1>1. Summing(f, {}, g)
  BY DEF Summing
<1>2. SumOver(f, {}) = g[{}]
  BY <1>1, FoldIsSumming, FS_EmptySet
<1> QED
  BY <1>2

\* No part of a sum is larger than it where nothing is negative.
LEMMA SumOfNaturals ==
  ASSUME NEW S, IsFiniteSet(S), NEW f, \A x \in S : f[x] \in Nat
  PROVE  /\ SumOver(f, S) \in Nat
         /\ \A x \in S : f[x] <= SumOver(f, S)
<1> DEFINE G == {T \in SUBSET S : SumOver(f, T) \in Nat}
<1>1. ASSUME NEW T \in SUBSET S, NEW x \in T
      PROVE  SumOver(f, T) = f[x] + SumOver(f, T \ {x})
  <2>1. IsFiniteSet(T) /\ \A y \in T : f[y] \in Int
    BY FS_Subset
  <2> QED
    BY <2>1, SumByRemoval
<1>2. {} \in G
  BY SumOfNothing
<1>3. ASSUME NEW T \in SUBSET S, T # {}, \A x \in T : T \ {x} \in G PROVE T \in G
  <2>1. PICK x \in T : TRUE
    BY <1>3
  <2>2. f[x] \in Nat /\ SumOver(f, T \ {x}) \in Nat
    BY <1>3, <2>1
  <2> QED
    BY <1>1, <2>1, <2>2
<1>4. G \in SUBSET (SUBSET S)
  OBVIOUS
<1> HIDE DEF G
<1>5. \A T \in SUBSET S : T \in G
  BY <1>2, <1>3, <1>4, AllSubsets
<1>6. SumOver(f, S) \in Nat /\ \A x \in S : SumOver(f, S \ {x}) \in Nat
  BY <1>5 DEF G
<1>7. ASSUME NEW x \in S PROVE f[x] <= SumOver(f, S)
  <2>1. SumOver(f, S) = f[x] + SumOver(f, S \ {x})
    BY <1>1
  <2>2. f[x] \in Nat /\ SumOver(f, S \ {x}) \in Nat
    BY <1>6
  <2> QED
    BY <2>1, <2>2
<1> QED
  BY <1>6, <1>7

\* A sum does not change when its terms are numbered differently.
LEMMA SumRenumbered ==
  ASSUME NEW S, IsFiniteSet(S), NEW f, \A x \in S : f[x] \in Int,
         NEW e, NEW b, \A x \in S : e[b[x]] = f[x],
         \A x, y \in S : b[x] = b[y] => x = y
  PROVE  SumOver(e, {b[x] : x \in S}) = SumOver(f, S)
<1> DEFINE Im(T) == {b[x] : x \in T}
           G == {T \in SUBSET S : IsFiniteSet(Im(T)) /\ SumOver(e, Im(T)) = SumOver(f, T)}
<1>1. {} \in G
  <2>1. Im({}) = {}
    OBVIOUS
  <2> QED
    BY <2>1, SumOfNothing, FS_EmptySet
<1>2. ASSUME NEW T \in SUBSET S, T # {}, \A x \in T : T \ {x} \in G PROVE T \in G
  <2>1. PICK x \in T : TRUE
    BY <1>2
  <2>2. IsFiniteSet(Im(T \ {x})) /\ SumOver(e, Im(T \ {x})) = SumOver(f, T \ {x})
    BY <1>2, <2>1
  <2>3. Im(T) = Im(T \ {x}) \cup {b[x]} /\ Im(T) \ {b[x]} = Im(T \ {x})
    BY <2>1
  <2>5. \A y \in Im(T) : e[y] \in Int
    OBVIOUS
  <2>6. b[x] \in Im(T)
    BY <2>1
  <2> HIDE DEF Im
  <2>4. IsFiniteSet(Im(T))
    <3>1. IsFiniteSet(Im(T \ {x}) \cup {b[x]})
      BY <2>2, FS_AddElement
    <3> QED
      BY <2>3, <3>1
  <2>7. SumOver(e, Im(T)) = e[b[x]] + SumOver(e, Im(T) \ {b[x]})
    BY <2>4, <2>5, <2>6, SumByRemoval
  <2>8. SumOver(f, T) = f[x] + SumOver(f, T \ {x})
    BY <2>1, FS_Subset, SumByRemoval
  <2> QED
    BY <2>1, <2>2, <2>3, <2>4, <2>7, <2>8
<1>3. G \in SUBSET (SUBSET S)
  OBVIOUS
<1> HIDE DEF G
<1>4. S \in G
  BY <1>1, <1>2, <1>3, AllSubsets
<1> QED
  BY <1>4 DEF G

\* Equal terms have equal sums.
LEMMA SameSum ==
  ASSUME NEW S, IsFiniteSet(S), NEW f, NEW e, \A x \in S : f[x] \in Int /\ e[x] = f[x]
  PROVE  SumOver(e, S) = SumOver(f, S)
<1> DEFINE b == [x \in S |-> x]
<1>1. SumOver(e, {b[x] : x \in S}) = SumOver(f, S)
  <2>1. \A x \in S : e[b[x]] = f[x]
    OBVIOUS
  <2>2. \A x, y \in S : b[x] = b[y] => x = y
    OBVIOUS
  <2> HIDE DEF b
  <2> QED
    BY <2>1, <2>2, SumRenumbered
<1>2. {b[x] : x \in S} = S
  OBVIOUS
<1> QED
  BY <1>1, <1>2

-----------------------------------------------------------------------------
\* Sum of a sequence.
LEMMA SumIsSumOver == ASSUME NEW s PROVE Sum(s) = SumOver(s, DOMAIN s)
BY DEF Sum, SumOver, MapThenSumSet, FoldSeq, FoldFunction, FoldFunctionOnSet, MapThenFoldSet

\* A share more adds itself to the sum of the shares.
LEMMA SumOfSequence ==
  ASSUME NEW s \in Seq(Nat), NEW x \in Nat
  PROVE  Sum(s) \in Nat /\ Sum(Append(s, x)) = Sum(s) + x
<1> DEFINE n == Len(s)
           t == Append(s, x)
<1>1. /\ n \in Nat /\ DOMAIN s = 1..n /\ DOMAIN t = 1..(n + 1)
      /\ t[n + 1] = x /\ \A i \in 1..n : t[i] = s[i] /\ s[i] \in Nat
      /\ \A i \in 1..(n + 1) : t[i] \in Nat
  OBVIOUS
<1> HIDE DEF t, n
<1>2. IsFiniteSet(1..n) /\ IsFiniteSet(1..(n + 1))
  BY <1>1, FS_Interval
<1>3. SumOver(s, 1..n) \in Nat
  BY <1>1, <1>2, SumOfNaturals
<1>4. SumOver(t, 1..n) = SumOver(s, 1..n)
  <2>1. \A i \in 1..n : s[i] \in Int /\ t[i] = s[i]
    BY <1>1
  <2> QED
    BY <1>2, <2>1, SameSum
<1>5. SumOver(t, 1..(n + 1)) = t[n + 1] + SumOver(t, (1..(n + 1)) \ {n + 1})
  <2>1. \A i \in 1..(n + 1) : t[i] \in Int
    BY <1>1
  <2>2. n + 1 \in 1..(n + 1)
    BY <1>1
  <2> QED
    BY <1>2, <2>1, <2>2, SumByRemoval
<1>6. SumOver(t, (1..(n + 1)) \ {n + 1}) = SumOver(t, 1..n)
  <2>1. (1..(n + 1)) \ {n + 1} = 1..n
    BY <1>1
  <2> QED
    BY <2>1
<1>7. Sum(s) = SumOver(s, 1..n) /\ Sum(t) = SumOver(t, 1..(n + 1))
  BY <1>1, SumIsSumOver
<1>8. Sum(s) \in Nat /\ Sum(t) = Sum(s) + x
  BY <1>1, <1>3, <1>4, <1>5, <1>6, <1>7
<1> QED
  BY <1>8 DEF t

\* No shares add up to zero.
LEMMA SumOfEmptySequence == Sum(<<>>) = 0
<1>1. DOMAIN <<>> = {}
  OBVIOUS
<1> QED
  BY <1>1, SumIsSumOver, SumOfNothing

-----------------------------------------------------------------------------
(***************************************************************************)
(* 3. What a wallet has still to pay                                       *)
(***************************************************************************)
\* The transactions of w in the pool p, their costs, and what those add up to.
From(p, w) == {i \in DOMAIN p : p[i].from = w}
AdaCosts(p) == [i \in DOMAIN p |-> p[i].costs.ada]
TokenCosts(p) == [i \in DOMAIN p |-> p[i].costs.tokens]
Owed(p, w) == [ada    |-> SumOver(AdaCosts(p), From(p, w)),
               tokens |-> SumOver(TokenCosts(p), From(p, w))]

\* What is in a pool.
LEMMA TransactionTypes ==
  ASSUME NEW p \in Seq(Transaction)
  PROVE  /\ Len(p) \in Nat /\ DOMAIN p = 1..Len(p)
         /\ \A i \in 1..Len(p) : p[i] \in Transaction /\ AdaCosts(p)[i] \in Nat
                                  /\ TokenCosts(p)[i] \in Nat
         /\ \A w : IsFiniteSet(From(p, w)) /\ From(p, w) \in SUBSET (1..Len(p))
<1>1. Len(p) \in Nat /\ DOMAIN p = 1..Len(p)
  OBVIOUS
<1>2. \A i \in 1..Len(p) : p[i] \in Transaction
  BY <1>1
<1>3. \A i \in 1..Len(p) : AdaCosts(p)[i] \in Nat /\ TokenCosts(p)[i] \in Nat
  BY <1>1, <1>2 DEF AdaCosts, TokenCosts, Transaction, Money
<1>4. ASSUME NEW w
      PROVE  IsFiniteSet(From(p, w)) /\ From(p, w) \in SUBSET (1..Len(p))
  <2>1. From(p, w) \in SUBSET (1..Len(p))
    BY <1>1 DEF From
  <2>2. IsFiniteSet(1..Len(p))
    BY <1>1, FS_Interval
  <2> QED
    BY <2>1, <2>2, FS_Subset
<1> QED
  BY <1>1, <1>2, <1>3, <1>4

\* What is owed is an amount of money.
LEMMA OwedType ==
  ASSUME NEW p \in Seq(Transaction), NEW w
  PROVE  Owed(p, w) \in Money
<1>1. SumOver(AdaCosts(p), From(p, w)) \in Nat /\ SumOver(TokenCosts(p), From(p, w)) \in Nat
  BY TransactionTypes, SumOfNaturals
<1> QED
  BY <1>1 DEF Owed, Money

\* Unspent is what a wallet has less what it owes.
LEMMA UnspentIs ==
  ASSUME NEW w
  PROVE  Unspent(w) = [ada    |-> balance[w].ada - Owed(pool, w).ada,
                       tokens |-> balance[w].tokens - Owed(pool, w).tokens]
<1>1. MapThenSumSet(LAMBDA i : pool[i].costs.ada, Pending(w))
      = SumOver(AdaCosts(pool), From(pool, w))
  BY DEF SumOver, MapThenSumSet, MapThenFoldSet, Pending, From, AdaCosts
<1>2. MapThenSumSet(LAMBDA i : pool[i].costs.tokens, Pending(w))
      = SumOver(TokenCosts(pool), From(pool, w))
  BY DEF SumOver, MapThenSumSet, MapThenFoldSet, Pending, From, TokenCosts
<1> QED
  BY <1>1, <1>2 DEF Unspent, Owed

\* A term more in a sum.
LEMMA OneMoreTerm ==
  ASSUME NEW S, IsFiniteSet(S), NEW x, x \notin S, NEW f, NEW e,
         \A y \in S : f[y] \in Nat, \A y \in S : e[y] = f[y], e[x] \in Nat
  PROVE  SumOver(e, S \cup {x}) = SumOver(f, S) + e[x]
<1>1. IsFiniteSet(S \cup {x})
  BY FS_AddElement
<1>2. SumOver(e, S) = SumOver(f, S)
  <2>1. \A y \in S : f[y] \in Int /\ e[y] = f[y]
    OBVIOUS
  <2> QED
    BY <2>1, SameSum
<1>6. SumOver(e, (S \cup {x}) \ {x}) = SumOver(e, S)
  <2>1. (S \cup {x}) \ {x} = S
    OBVIOUS
  <2> QED
    BY <2>1
<1>3. /\ x \in S \cup {x}
      /\ \A y \in S \cup {x} : e[y] \in Int
  OBVIOUS
<1>4. SumOver(e, S \cup {x}) = e[x] + SumOver(e, (S \cup {x}) \ {x})
  BY <1>1, <1>3, SumByRemoval
<1>5. SumOver(f, S) \in Nat
  BY SumOfNaturals
<1> QED
  BY <1>2, <1>4, <1>5, <1>6

\* A transaction more is owed by the wallet it is from.
LEMMA OwedMore ==
  ASSUME NEW p \in Seq(Transaction), NEW t \in Transaction, NEW w
  PROVE  Owed(Append(p, t), w) =
           IF t.from = w THEN [ada    |-> Owed(p, w).ada + t.costs.ada,
                               tokens |-> Owed(p, w).tokens + t.costs.tokens]
           ELSE Owed(p, w)
<1> DEFINE n == Len(p)
           q == Append(p, t)
<1>1. n \in Nat /\ q \in Seq(Transaction) /\ Len(q) = n + 1
      /\ DOMAIN p = 1..n /\ DOMAIN q = 1..(n + 1)
      /\ q[n + 1] = t /\ \A i \in 1..n : q[i] = p[i]
  OBVIOUS
<1> HIDE DEF q, n
<1>2. From(q, w) = IF t.from = w THEN From(p, w) \cup {n + 1} ELSE From(p, w)
  BY <1>1 DEF From
<1>3. From(p, w) \in SUBSET (1..n) /\ IsFiniteSet(From(p, w))
  BY TransactionTypes DEF n
<1>4. \A i \in 1..n : AdaCosts(p)[i] \in Nat /\ TokenCosts(p)[i] \in Nat
  BY TransactionTypes DEF n
<1>5. /\ SumOver(AdaCosts(q), From(p, w)) = SumOver(AdaCosts(p), From(p, w))
      /\ SumOver(AdaCosts(q), From(p, w) \cup {n + 1}) =
           SumOver(AdaCosts(p), From(p, w)) + t.costs.ada
  <2>1. t.costs.ada \in Nat
    BY DEF Transaction, Money
  <2>2. AdaCosts(q)[n + 1] = t.costs.ada
    BY <1>1 DEF AdaCosts
  <2>3. \A i \in 1..n : AdaCosts(q)[i] = AdaCosts(p)[i]
    BY <1>1 DEF AdaCosts
  <2> DEFINE f == AdaCosts(p)
             e == AdaCosts(q)
             S == From(p, w)
             x == n + 1
  <2>4. e[x] = t.costs.ada /\ e[x] \in Nat
    BY <2>1, <2>2
  <2>5. IsFiniteSet(S) /\ x \notin S
    BY <1>1, <1>3
  <2>6. /\ \A i \in S : f[i] \in Nat
        /\ \A i \in S : e[i] = f[i]
    BY <1>3, <1>4, <2>3
  <2> HIDE DEF f, e, S, x
  <2>7. SumOver(e, S \cup {x}) = SumOver(f, S) + e[x]
    <3>1. e[x] \in Nat
      BY <2>4
    <3> QED
      BY <2>5, <2>6, <3>1, OneMoreTerm
  <2>8. SumOver(e, S) = SumOver(f, S)
    <3>1. \A i \in S : f[i] \in Int /\ e[i] = f[i]
      BY <2>6
    <3> QED
      BY <2>5, <3>1, SameSum
  <2> QED
    BY <2>4, <2>7, <2>8 DEF f, e, S, x
<1>6. /\ SumOver(TokenCosts(q), From(p, w)) = SumOver(TokenCosts(p), From(p, w))
      /\ SumOver(TokenCosts(q), From(p, w) \cup {n + 1}) =
           SumOver(TokenCosts(p), From(p, w)) + t.costs.tokens
  <2>1. t.costs.tokens \in Nat
    BY DEF Transaction, Money
  <2>2. TokenCosts(q)[n + 1] = t.costs.tokens
    BY <1>1 DEF TokenCosts
  <2>3. \A i \in 1..n : TokenCosts(q)[i] = TokenCosts(p)[i]
    BY <1>1 DEF TokenCosts
  <2> DEFINE f == TokenCosts(p)
             e == TokenCosts(q)
             S == From(p, w)
             x == n + 1
  <2>4. e[x] = t.costs.tokens /\ e[x] \in Nat
    BY <2>1, <2>2
  <2>5. IsFiniteSet(S) /\ x \notin S
    BY <1>1, <1>3
  <2>6. /\ \A i \in S : f[i] \in Nat
        /\ \A i \in S : e[i] = f[i]
    BY <1>3, <1>4, <2>3
  <2> HIDE DEF f, e, S, x
  <2>7. SumOver(e, S \cup {x}) = SumOver(f, S) + e[x]
    <3>1. e[x] \in Nat
      BY <2>4
    <3> QED
      BY <2>5, <2>6, <3>1, OneMoreTerm
  <2>8. SumOver(e, S) = SumOver(f, S)
    <3>1. \A i \in S : f[i] \in Int /\ e[i] = f[i]
      BY <2>6
    <3> QED
      BY <2>5, <3>1, SameSum
  <2> QED
    BY <2>4, <2>7, <2>8 DEF f, e, S, x
<1>7. CASE t.from = w
  BY <1>2, <1>5, <1>6, <1>7 DEF Owed, q
<1>8. CASE t.from # w
  BY <1>2, <1>5, <1>6, <1>8 DEF Owed, q
<1> QED
  BY <1>7, <1>8

\* Where RemoveAt puts the others.
Moved(i, x) == IF x < i THEN x ELSE x - 1

\* A term less in a sum.
LEMMA OneTermLess ==
  ASSUME NEW S, IsFiniteSet(S), NEW i, NEW f, \A x \in S : f[x] \in Nat
  PROVE  SumOver(f, S) = SumOver(f, S \ {i}) + IF i \in S THEN f[i] ELSE 0
<1>1. IsFiniteSet(S \ {i}) /\ \A x \in S \ {i} : f[x] \in Nat
  BY FS_RemoveElement
<1>2. SumOver(f, S \ {i}) \in Nat
  BY <1>1, SumOfNaturals
<1>3. CASE i \in S
  <2>1. SumOver(f, S) = f[i] + SumOver(f, S \ {i})
    BY <1>3, SumByRemoval
  <2>2. f[i] \in Nat
    BY <1>3
  <2> QED
    BY <1>2, <1>3, <2>1, <2>2
<1>4. CASE i \notin S
  <2>1. S \ {i} = S
    BY <1>4
  <2>2. SumOver(f, S) = SumOver(f, S \ {i})
    BY <2>1
  <2> QED
    BY <1>2, <1>4, <2>2
<1> QED
  BY <1>3, <1>4

\* The pool without one of its transactions.
LEMMA RemoveAtIs ==
  ASSUME NEW p \in Seq(Transaction), NEW i \in DOMAIN p
  PROVE  /\ RemoveAt(p, i) \in Seq(Transaction)
         /\ Len(RemoveAt(p, i)) = Len(p) - 1
         /\ \A x \in (1..Len(p)) \ {i} : RemoveAt(p, i)[Moved(i, x)] = p[x]
<1>1. Len(p) \in Nat /\ DOMAIN p = 1..Len(p) /\ i \in 1..Len(p)
  OBVIOUS
<1> DEFINE a == SubSeq(p, 1, i - 1)
           z == SubSeq(p, i + 1, Len(p))
<1>2. /\ a \in Seq(Transaction) /\ Len(a) = i - 1
      /\ \A x \in 1..(i - 1) : a[x] = p[x]
  BY <1>1
<1>3. /\ z \in Seq(Transaction) /\ Len(z) = Len(p) - i
      /\ \A x \in 1..(Len(p) - i) : z[x] = p[x + i]
  BY <1>1
<1>4. RemoveAt(p, i) = a \o z
  BY DEF RemoveAt
<1> HIDE DEF a, z
<1>5. /\ a \o z \in Seq(Transaction) /\ Len(a \o z) = Len(p) - 1
      /\ \A x \in 1..(Len(p) - 1) : (a \o z)[x] = IF x <= i - 1 THEN a[x] ELSE z[x - (i - 1)]
  <2>1. Len(a) + Len(z) = Len(p) - 1
    BY <1>1, <1>2, <1>3
  <2>2. /\ a \o z \in Seq(Transaction)
        /\ Len(a \o z) = Len(a) + Len(z)
        /\ \A x \in 1..(Len(a) + Len(z)) :
             (a \o z)[x] = IF x <= Len(a) THEN a[x] ELSE z[x - Len(a)]
    BY <1>2, <1>3, ConcatProperties
  <2>3. \A x \in 1..(Len(p) - 1) :
          (a \o z)[x] = IF x <= Len(a) THEN a[x] ELSE z[x - Len(a)]
    BY <2>1, <2>2
  <2>4. Len(a) = i - 1
    BY <1>2
  <2> QED
    BY <2>1, <2>2, <2>3, <2>4
<1>6. ASSUME NEW x \in (1..Len(p)) \ {i} PROVE (a \o z)[Moved(i, x)] = p[x]
  <2>1. CASE x < i
    <3>1. x \in 1..(Len(p) - 1) /\ x <= i - 1 /\ x \in 1..(i - 1) /\ Moved(i, x) = x
      BY <1>1, <2>1 DEF Moved
    <3> QED
      BY <1>2, <1>5, <3>1
  <2>2. CASE x > i
    <3>1. x - 1 \in 1..(Len(p) - 1) /\ ~(x - 1 <= i - 1) /\ x - 1 - (i - 1) = x - i
          /\ x - i \in 1..(Len(p) - i) /\ Moved(i, x) = x - 1
      BY <1>1, <2>2 DEF Moved
    <3>2. (a \o z)[x - 1] = z[x - i]
      BY <1>5, <3>1
    <3>3. z[x - i] = p[x - i + i]
      BY <1>3, <3>1
    <3>4. x - i + i = x
      BY <1>1
    <3> QED
      BY <3>1, <3>2, <3>3, <3>4
  <2>3. x < i \/ x > i
    BY <1>1
  <2> QED
    BY <2>1, <2>2, <2>3, Zenon
<1> QED
  BY <1>4, <1>5, <1>6

\* A transaction less is no longer owed by the wallet it is from.
LEMMA OwedLess ==
  ASSUME NEW p \in Seq(Transaction), NEW i \in DOMAIN p, NEW w
  PROVE  Owed(p, w) =
           IF p[i].from = w
           THEN [ada    |-> Owed(RemoveAt(p, i), w).ada + p[i].costs.ada,
                 tokens |-> Owed(RemoveAt(p, i), w).tokens + p[i].costs.tokens]
           ELSE Owed(RemoveAt(p, i), w)
<1> DEFINE q == RemoveAt(p, i)
           S == From(p, w)
           n == Len(p)
           b == [x \in 1..n |-> Moved(i, x)]
<1>1. /\ n \in Nat /\ DOMAIN p = 1..n /\ i \in 1..n /\ DOMAIN q = 1..(n - 1)
      /\ IsFiniteSet(S) /\ S \in SUBSET (1..n)
      /\ i \in S <=> p[i].from = w
  <2>1. n \in Nat /\ DOMAIN p = 1..n /\ i \in 1..n
    OBVIOUS
  <2>2. DOMAIN q = 1..(n - 1)
    BY <2>1, RemoveAtIs
  <2>3. IsFiniteSet(S) /\ S \in SUBSET (1..n)
    BY TransactionTypes
  <2>4. i \in S <=> p[i].from = w
    BY DEF From
  <2> QED
    BY <2>1, <2>2, <2>3, <2>4
<1>2. \A x \in (1..n) \ {i} : q[b[x]] = p[x] /\ b[x] \in DOMAIN q
  <2>1. \A x \in (1..n) \ {i} : q[Moved(i, x)] = p[x]
    BY RemoveAtIs
  <2>2. \A x \in (1..n) \ {i} : b[x] = Moved(i, x) /\ b[x] \in 1..(n - 1)
    BY <1>1 DEF Moved
  <2> HIDE DEF q, b, n
  <2> QED
    BY <1>1, <2>1, <2>2
<1>3. \A x, y \in (1..n) \ {i} : b[x] = b[y] => x = y
  BY <1>1 DEF Moved
<1>4. From(q, w) = {b[x] : x \in S \ {i}}
  <2>1. ASSUME NEW y \in From(q, w) PROVE y \in {b[x] : x \in S \ {i}}
    <3> DEFINE x == IF y < i THEN y ELSE y + 1
    <3>1. y \in 1..(n - 1)
      BY <1>1 DEF From
    <3>2. x \in (1..n) \ {i} /\ b[x] = y
      BY <1>1, <3>1 DEF Moved
    <3> HIDE DEF x
    <3>3. p[x].from = w
      <4>1. q[y].from = w
        BY DEF From
      <4> HIDE DEF q, b
      <4> QED
        BY <1>2, <3>2, <4>1
    <3>4. x \in S \ {i}
      BY <1>1, <3>2, <3>3 DEF From
    <3> HIDE DEF b, S
    <3> QED
      BY <3>2, <3>4
  <2>2. ASSUME NEW x \in S \ {i} PROVE b[x] \in From(q, w)
    <3>1. x \in (1..n) \ {i} /\ p[x].from = w
      BY <1>1 DEF From
    <3> HIDE DEF b, q, S
    <3> QED
      BY <1>2, <3>1 DEF From
  <2> HIDE DEF b, q, S
  <2> QED
    BY <2>1, <2>2
<1>5. SumOver(AdaCosts(p), S) = SumOver(AdaCosts(q), From(q, w))
                                  + IF i \in S THEN p[i].costs.ada ELSE 0
  <2> DEFINE f == AdaCosts(p)
             e == AdaCosts(q)
  <2>1. \A x \in S : f[x] \in Nat
    BY TransactionTypes
  <2>2. \A x \in S \ {i} : e[b[x]] = f[x]
    <3> HIDE DEF q, b, S
    <3> QED
      BY <1>1, <1>2 DEF AdaCosts
  <2>3. \A x, y \in S \ {i} : b[x] = b[y] => x = y
    <3> HIDE DEF b, S
    <3> QED
      BY <1>1, <1>3
  <2>4. f[i] = p[i].costs.ada
    BY DEF AdaCosts
  <2> HIDE DEF f, e, b, S, q
  <2>5. SumOver(f, S) = SumOver(e, {b[x] : x \in S \ {i}}) + IF i \in S THEN f[i] ELSE 0
    <3> DEFINE R == S \ {i}
    <3>1. \A x \in R : e[b[x]] = f[x]
      BY <2>2
    <3>2. \A x, y \in R : b[x] = b[y] => x = y
      BY <2>3
    <3>3. IsFiniteSet(R) /\ \A x \in R : f[x] \in Int
      BY <1>1, <2>1, FS_RemoveElement
    <3>4. SumOver(f, S) = SumOver(f, R) + IF i \in S THEN f[i] ELSE 0
      BY <1>1, <2>1, OneTermLess
    <3> HIDE DEF R
    <3>5. SumOver(e, {b[x] : x \in R}) = SumOver(f, R)
      BY <3>1, <3>2, <3>3, SumRenumbered
    <3>6. SumOver(f, S) = SumOver(e, {b[x] : x \in R}) + IF i \in S THEN f[i] ELSE 0
      BY <3>4, <3>5
    <3> QED
      BY <3>6 DEF R
  <2>6. SumOver(e, {b[x] : x \in S \ {i}}) = SumOver(e, From(q, w))
    BY <1>4
  <2>7. SumOver(f, S) = SumOver(e, From(q, w)) + IF i \in S THEN p[i].costs.ada ELSE 0
    BY <2>4, <2>5, <2>6
  <2> QED
    BY <2>7 DEF f, e
<1>6. SumOver(TokenCosts(p), S) = SumOver(TokenCosts(q), From(q, w))
                                  + IF i \in S THEN p[i].costs.tokens ELSE 0
  <2> DEFINE f == TokenCosts(p)
             e == TokenCosts(q)
  <2>1. \A x \in S : f[x] \in Nat
    BY TransactionTypes
  <2>2. \A x \in S \ {i} : e[b[x]] = f[x]
    <3> HIDE DEF q, b, S
    <3> QED
      BY <1>1, <1>2 DEF TokenCosts
  <2>3. \A x, y \in S \ {i} : b[x] = b[y] => x = y
    <3> HIDE DEF b, S
    <3> QED
      BY <1>1, <1>3
  <2>4. f[i] = p[i].costs.tokens
    BY DEF TokenCosts
  <2> HIDE DEF f, e, b, S, q
  <2>5. SumOver(f, S) = SumOver(e, {b[x] : x \in S \ {i}}) + IF i \in S THEN f[i] ELSE 0
    <3> DEFINE R == S \ {i}
    <3>1. \A x \in R : e[b[x]] = f[x]
      BY <2>2
    <3>2. \A x, y \in R : b[x] = b[y] => x = y
      BY <2>3
    <3>3. IsFiniteSet(R) /\ \A x \in R : f[x] \in Int
      BY <1>1, <2>1, FS_RemoveElement
    <3>4. SumOver(f, S) = SumOver(f, R) + IF i \in S THEN f[i] ELSE 0
      BY <1>1, <2>1, OneTermLess
    <3> HIDE DEF R
    <3>5. SumOver(e, {b[x] : x \in R}) = SumOver(f, R)
      BY <3>1, <3>2, <3>3, SumRenumbered
    <3>6. SumOver(f, S) = SumOver(e, {b[x] : x \in R}) + IF i \in S THEN f[i] ELSE 0
      BY <3>4, <3>5
    <3> QED
      BY <3>6 DEF R
  <2>6. SumOver(e, {b[x] : x \in S \ {i}}) = SumOver(e, From(q, w))
    BY <1>4
  <2>7. SumOver(f, S) = SumOver(e, From(q, w)) + IF i \in S THEN p[i].costs.tokens ELSE 0
    BY <2>4, <2>5, <2>6
  <2> QED
    BY <2>7 DEF f, e
<1>7. Owed(q, w) \in Money
  <2>1. q \in Seq(Transaction)
    BY RemoveAtIs
  <2> QED
    BY <2>1, OwedType
<1> HIDE DEF q, b
<1>8. CASE p[i].from = w
  BY <1>1, <1>5, <1>6, <1>8 DEF Owed, q
<1>9. CASE p[i].from # w
  <2>1. SumOver(AdaCosts(q), From(q, w)) \in Nat /\ SumOver(TokenCosts(q), From(q, w)) \in Nat
    BY <1>7 DEF Owed, Money
  <2>2. SumOver(AdaCosts(p), S) = SumOver(AdaCosts(q), From(q, w))
    BY <1>1, <1>5, <1>9, <2>1
  <2>3. SumOver(TokenCosts(p), S) = SumOver(TokenCosts(q), From(q, w))
    BY <1>1, <1>6, <1>9, <2>1
  <2> QED
    BY <1>9, <2>2, <2>3 DEF Owed, q
<1> QED
  BY <1>8, <1>9

-----------------------------------------------------------------------------
(***************************************************************************)
(* 4. No wallet promises more than it has                                  *)
(***************************************************************************)
\* Transactions that spend more than a wallet has are not all accepted.
FundsInv ==
  \A w \in Wallet : /\ Owed(pool, w).ada <= balance[w].ada
                    /\ Owed(pool, w).tokens <= balance[w].tokens

\* What is known of balances and pool before and after every step.
BooksOK ==
  /\ balance \in [Wallet -> Money]
  /\ pool \in Seq(Transaction)
  /\ faults \in 0..MaxFaults
  /\ FundsInv

\* submit: the wallet covers what it owes and this transaction too.
LEMMA SubmitsKeeps ==
  ASSUME BooksOK, balance' = balance, NEW from \in Wallet, NEW to \in Destination,
         NEW gets \in Money, NEW costs \in Money, Submits(from, to, gets, costs)
  PROVE  BooksOK'
<1> DEFINE t == [from |-> from, to |-> to, gets |-> gets, costs |-> costs]
<1>1. t \in Transaction /\ t.from = from /\ t.costs = costs
  BY DEF Transaction
<1>2. pool' = Append(pool, t) /\ faults' = faults /\ pool \in Seq(Transaction)
  BY DEF Submits, BooksOK
<1> HIDE DEF t
<1>3. ASSUME NEW w \in Wallet
      PROVE  Owed(pool', w).ada <= balance[w].ada /\ Owed(pool', w).tokens <= balance[w].tokens
  <2>1. /\ Owed(pool, w) \in Money /\ balance[w] \in Money
        /\ Owed(pool, w).ada <= balance[w].ada /\ Owed(pool, w).tokens <= balance[w].tokens
    BY <1>2, OwedType DEF BooksOK, FundsInv
  <2>2. CASE w # from
    <3>1. Owed(pool', w) = Owed(pool, w)
      BY <1>1, <1>2, <2>2, OwedMore
    <3> QED
      BY <2>1, <3>1
  <2>3. CASE w = from
    <3>1. Owed(pool', w) = [ada |-> Owed(pool, w).ada + costs.ada,
                            tokens |-> Owed(pool, w).tokens + costs.tokens]
      BY <1>1, <1>2, <2>3, OwedMore
    <3>2. /\ balance[w].ada - Owed(pool, w).ada >= costs.ada
          /\ balance[w].tokens - Owed(pool, w).tokens >= costs.tokens
      <4>1. Covers(Unspent(w), costs)
        BY <2>3 DEF Submits
      <4> QED
        BY <4>1, UnspentIs DEF Covers
    <3> QED
      BY <2>1, <3>1, <3>2 DEF Money
  <2> QED
    BY <2>2, <2>3
<1>4. pool' \in Seq(Transaction)
  BY <1>1, <1>2
<1> QED
  BY <1>2, <1>3, <1>4 DEF BooksOK, FundsInv

\* A step that submits nothing.
LEMMA SameBooks ==
  ASSUME BooksOK, UNCHANGED <<balance, pool>>, UNCHANGED faults \/ Fault
  PROVE  BooksOK'
<1>1. faults' \in 0..MaxFaults
  BY FundAssumption DEF Fault, BooksOK
<1> QED
  BY <1>1 DEF BooksOK, FundsInv

\* executeSend, in each of its outcomes.
LEMMA SendsKeeps ==
  ASSUME BooksOK, balance' = balance, NEW from \in Wallet, NEW to \in Destination,
         NEW m \in Money, Sends(from, to, m)
  PROVE  BooksOK'
<1>1. Fee \in Nat
  BY FundAssumption
<1>2. Plus(m, Fee) \in Money /\ (m.ada >= Fee => Plus(m, -Fee) \in Money)
  BY <1>1 DEF Plus, Money
<1>3. CASE Submits(from, to, m, Plus(m, Fee))
  BY <1>2, <1>3, SubmitsKeeps
<1>4. CASE m.ada >= Fee /\ Submits(from, to, Plus(m, -Fee), m)
  BY <1>2, <1>4, SubmitsKeeps
<1>5. CASE UNCHANGED pool /\ (UNCHANGED faults \/ Fault)
  BY <1>5, SameBooks
<1> QED
  BY <1>3, <1>4, <1>5 DEF Sends

\* A transaction in a block pays what it was submitted for, a lost one nothing.
LEMMA ConfirmKeeps ==
  ASSUME BooksOK, NEW i \in DOMAIN pool, Confirm(i) PROVE BooksOK'
<1> DEFINE t == pool[i]
<1>1. /\ t \in Transaction /\ pool' = RemoveAt(pool, i) /\ pool' \in Seq(Transaction)
      /\ faults' = faults
  BY RemoveAtIs DEF Confirm, BooksOK
<1>2. ASSUME NEW w \in Wallet
      PROVE  /\ balance'[w] \in Money
             /\ Owed(pool', w).ada <= balance'[w].ada
             /\ Owed(pool', w).tokens <= balance'[w].tokens
  <2>1. balance'[w] = [ada    |-> balance[w].ada + (IF t.to = w THEN t.gets.ada ELSE 0)
                                  - (IF t.from = w THEN t.costs.ada ELSE 0),
                       tokens |-> balance[w].tokens + (IF t.to = w THEN t.gets.tokens ELSE 0)
                                  - (IF t.from = w THEN t.costs.tokens ELSE 0)]
    BY DEF Confirm
  <2>2. Owed(pool, w) = IF t.from = w
                        THEN [ada    |-> Owed(pool', w).ada + t.costs.ada,
                              tokens |-> Owed(pool', w).tokens + t.costs.tokens]
                        ELSE Owed(pool', w)
    BY <1>1, OwedLess DEF BooksOK
  <2>3. Owed(pool, w) \in Money /\ Owed(pool', w) \in Money
    BY <1>1, OwedType DEF BooksOK
  <2>4. /\ balance[w] \in Money
        /\ Owed(pool, w).ada <= balance[w].ada /\ Owed(pool, w).tokens <= balance[w].tokens
    BY DEF BooksOK, FundsInv
  <2>5. t.costs \in Money /\ t.gets \in Money
    BY <1>1 DEF Transaction
  <2> HIDE DEF t
  <2>6. CASE t.from = w
    <3>1. /\ Owed(pool, w).ada = Owed(pool', w).ada + t.costs.ada
          /\ Owed(pool, w).tokens = Owed(pool', w).tokens + t.costs.tokens
      BY <2>2, <2>6
    <3> QED
      BY <2>1, <2>3, <2>4, <2>5, <2>6, <3>1 DEF Money
  <2>7. CASE t.from # w
    <3>1. Owed(pool, w) = Owed(pool', w)
      BY <2>2, <2>7
    <3> QED
      BY <2>1, <2>3, <2>4, <2>5, <2>7, <3>1 DEF Money
  <2> QED
    BY <2>6, <2>7
<1>3. balance' = [w \in Wallet |-> balance'[w]]
  BY DEF Confirm
<1> QED
  BY <1>1, <1>2, <1>3 DEF BooksOK, FundsInv

\* A transaction that is lost is no longer owed.
LEMMA LoseKeeps ==
  ASSUME BooksOK, NEW i \in DOMAIN pool, Lose(i) PROVE BooksOK'
<1>1. /\ pool[i] \in Transaction /\ pool' = RemoveAt(pool, i) /\ pool' \in Seq(Transaction)
      /\ faults' \in 0..MaxFaults /\ balance' = balance
  BY RemoveAtIs, FundAssumption DEF Lose, Fault, BooksOK
<1>2. ASSUME NEW w \in Wallet
      PROVE  /\ Owed(pool', w).ada <= balance[w].ada
             /\ Owed(pool', w).tokens <= balance[w].tokens
  <2>1. Owed(pool, w) = IF pool[i].from = w
                        THEN [ada    |-> Owed(pool', w).ada + pool[i].costs.ada,
                              tokens |-> Owed(pool', w).tokens + pool[i].costs.tokens]
                        ELSE Owed(pool', w)
    BY <1>1, OwedLess DEF BooksOK
  <2>2. Owed(pool, w) \in Money /\ Owed(pool', w) \in Money
    BY <1>1, OwedType DEF BooksOK
  <2>3. /\ balance[w] \in Money
        /\ Owed(pool, w).ada <= balance[w].ada /\ Owed(pool, w).tokens <= balance[w].tokens
    BY DEF BooksOK, FundsInv
  <2>4. pool[i].costs \in Money
    BY <1>1 DEF Transaction
  <2> QED
    BY <2>1, <2>2, <2>3, <2>4 DEF Money
<1> QED
  BY <1>1, <1>2 DEF BooksOK, FundsInv

\* A collection pays the hot wallet and costs neither of them anything.
LEMMA CollectKeeps ==
  ASSUME BooksOK, Collect PROVE BooksOK'
<1> DEFINE t == [from |-> "validator", to |-> "hot", gets |-> Income, costs |-> Ada(0)]
<1>1. balance' = balance /\ faults' = faults
  BY DEF Collect
<1>2. CASE pool' = pool
  BY <1>1, <1>2, SameBooks
<1>3. CASE pool' = Append(pool, t)
  <2>1. t \in Transaction /\ t.from = "validator"
    <3>1. Ada(0) \in Money /\ Income \in Money
      BY FundAssumption DEF Ada, Money
    <3>2. "validator" \in Wallet \cup {"validator"} /\ "hot" \in Destination
      BY DEF Wallet, Destination
    <3> QED
      BY <3>1, <3>2, Zenon DEF Transaction
  <2> HIDE DEF t
  <2>2. pool \in Seq(Transaction)
    BY DEF BooksOK
  <2>3. \A w \in Wallet : Owed(pool', w) = Owed(pool, w)
    BY <1>3, <2>1, <2>2, OwedMore DEF Wallet
  <2>4. pool' \in Seq(Transaction)
    BY <1>3, <2>1, <2>2
  <2> QED
    BY <1>1, <2>3, <2>4 DEF BooksOK, FundsInv
<1> QED
  BY <1>2, <1>3 DEF Collect

-----------------------------------------------------------------------------
(***************************************************************************)
(* 5. The arithmetic of distributeRevenueShares                            *)
(***************************************************************************)
\* Products of naturals.
LEMMA Products ==
  ASSUME NEW a \in Nat, NEW b \in Nat
  PROVE  a * b \in Nat /\ 0 * a = 0 /\ 1 * a = a
OBVIOUS

\* Division rounds down.
LEMMA Quotient ==
  ASSUME NEW a \in Nat, NEW d \in Nat \ {0}
  PROVE  a \div d \in Nat /\ d * (a \div d) <= a /\ a < d * (a \div d) + d
OBVIOUS

\* What all recipients but the last get is rounded down.
LEMMA NextPart ==
  ASSUME NEW T \in Nat, NEW total \in Nat \ {0}, NEW b \in Nat, NEW sum \in Nat,
         NEW parts \in Nat, NEW k \in Nat, total * sum <= T * parts,
         NEW share, share = (T * b) \div total
  PROVE  /\ share \in Nat
         /\ total * share <= T * b /\ T * b < total * share + total
         /\ total * (sum + share) <= T * (parts + b)
         /\ T * parts <= total * sum + k * total
              => T * (parts + b) <= total * (sum + share) + (k + 1) * total
<1>1. T * b \in Nat
  OBVIOUS
<1>2. share \in Nat /\ total * share <= T * b /\ T * b < total * share + total
  BY <1>1, Quotient
<1>3. /\ total * (sum + share) = total * sum + total * share
      /\ T * (parts + b) = T * parts + T * b
      /\ (k + 1) * total = k * total + total
  BY <1>2
<1>4. /\ total * sum \in Nat /\ total * share \in Nat /\ T * parts \in Nat
      /\ k * total \in Nat
  BY <1>2
<1> QED
  BY <1>1, <1>2, <1>3, <1>4

\* A positive factor on both sides.
LEMMA Cancel ==
  ASSUME NEW d \in Nat \ {0}, NEW x \in Int, NEW y \in Int, d * x <= d * y
  PROVE  x <= y
OBVIOUS

\* The last one gets the rest: with everyone's rounding, and never negative.
LEMMA LastPart ==
  ASSUME NEW T \in Nat, NEW total \in Nat \ {0}, NEW b \in Nat, NEW sum \in Nat,
         NEW parts \in Nat, NEW k \in Nat, total * sum <= T * parts, parts + b = total
  PROVE  /\ T - sum \in Nat
         /\ T * b <= total * (T - sum)
         /\ T * parts <= total * sum + k * total
              => total * (T - sum) <= T * b + k * total
<1>1. T * total = T * parts + T * b /\ total * (T - sum) = T * total - total * sum
  <2>1. T * (parts + b) = T * parts + T * b
    OBVIOUS
  <2>2. total * (T - sum) = total * T - total * sum
    OBVIOUS
  <2>3. total * T = T * total
    OBVIOUS
  <2> QED
    BY <2>1, <2>2, <2>3
<1>2. /\ T * parts \in Nat /\ T * b \in Nat /\ total * sum \in Nat /\ T * total \in Nat
      /\ k * total \in Nat
  OBVIOUS
<1>3. total * sum <= total * T
  BY <1>1, <1>2
<1>4. sum <= T
  BY <1>3, Cancel
<1> QED
  BY <1>1, <1>2, <1>4

\* A part of T within e and d of its exact value is one of the base within
\* e + 1 and d, for T is a part of the base that was rounded down.
LEMMA PartError ==
  ASSUME NEW base \in Nat, NEW scale \in Nat \ {0}, NEW total \in Nat \ {0},
         NEW T \in Nat, scale * T <= base * total, base * total < scale * T + scale,
         NEW b \in Nat, b <= total, NEW share \in Nat, NEW e \in Nat, NEW d \in Nat,
         T * b <= total * share + e * total, total * share <= T * b + d * total
  PROVE  /\ share * scale - base * b <= d * scale
         /\ -(e + 1) * scale <= share * scale - base * b
<1> DEFINE X == share * scale
           Y == base * b
<1>1. /\ X \in Nat /\ Y \in Nat
      /\ T * b * scale \in Nat /\ total * X \in Nat /\ total * Y \in Nat
      /\ total * (d * scale) \in Nat /\ total * (e * scale) \in Nat
      /\ scale * b \in Nat /\ total * scale \in Nat
  OBVIOUS
<1>2. total * X <= T * b * scale + total * (d * scale)
  <2>1. (total * share) * scale <= (T * b + d * total) * scale
    OBVIOUS
  <2>2. (total * share) * scale = total * X
    OBVIOUS
  <2>3. (T * b + d * total) * scale = T * b * scale + total * (d * scale)
    OBVIOUS
  <2> QED
    BY <2>1, <2>2, <2>3
<1>3. T * b * scale <= total * X + total * (e * scale)
  <2>1. (T * b) * scale <= (total * share + e * total) * scale
    OBVIOUS
  <2>2. (total * share + e * total) * scale = total * X + total * (e * scale)
    OBVIOUS
  <2> QED
    BY <2>1, <2>2
<1>4. T * b * scale <= total * Y
  <2>1. (scale * T) * b <= (base * total) * b
    OBVIOUS
  <2> QED
    BY <2>1
<1>5. total * Y <= T * b * scale + total * scale
  <2>1. (base * total) * b <= (scale * T + scale) * b
    OBVIOUS
  <2>2. (scale * T + scale) * b = T * b * scale + scale * b
    OBVIOUS
  <2>3. scale * b <= scale * total
    OBVIOUS
  <2>4. (base * total) * b = total * Y /\ scale * total = total * scale
    OBVIOUS
  <2> QED
    BY <1>1, <2>1, <2>2, <2>3, <2>4
<1>6. total * X <= total * (Y + d * scale)
  <2>1. total * (Y + d * scale) = total * Y + total * (d * scale)
    OBVIOUS
  <2> HIDE DEF X, Y
  <2> QED
    BY <1>1, <1>2, <1>4, <2>1
<1>7. total * Y <= total * (X + (e + 1) * scale)
  <2>1. total * (X + (e + 1) * scale) = total * X + total * (e * scale) + total * scale
    OBVIOUS
  <2> HIDE DEF X, Y
  <2> QED
    BY <1>1, <1>3, <1>5, <2>1
<1>8. X <= Y + d * scale /\ Y <= X + (e + 1) * scale
  <2>1. Y + d * scale \in Int /\ X + (e + 1) * scale \in Int
    OBVIOUS
  <2> HIDE DEF X, Y
  <2> QED
    BY <1>1, <1>6, <1>7, <2>1, Cancel
<1>9. -(e + 1) * scale = -((e + 1) * scale) /\ d * scale \in Nat /\ (e + 1) * scale \in Nat
  OBVIOUS
<1> HIDE DEF X, Y
<1>10. X - Y <= d * scale /\ -((e + 1) * scale) <= X - Y
  BY <1>1, <1>8, <1>9
<1> QED
  BY <1>9, <1>10 DEF X, Y

\* The bound that SharesAsConfigured states.
LEMMA PartWithin ==
  ASSUME NEW base \in Nat, NEW scale \in Nat \ {0}, NEW total \in Nat \ {0},
         NEW T \in Nat, scale * T <= base * total, base * total < scale * T + scale,
         NEW b \in Nat, b <= total, NEW share \in Nat, NEW e \in Nat, NEW d \in Nat,
         T * b <= total * share + e * total, total * share <= T * b + d * total,
         NEW n \in Nat, e < n, d <= n
  PROVE  share * scale - base * b \in (-n * scale)..(n * scale)
<1>1. share * scale - base * b <= d * scale /\ -(e + 1) * scale <= share * scale - base * b
  BY PartError
<1>2. share * scale \in Nat /\ base * b \in Nat /\ n * scale \in Nat /\ d * scale \in Nat
      /\ (e + 1) * scale \in Nat
  BY Products
<1>3. d * scale <= n * scale /\ (e + 1) * scale <= n * scale
  OBVIOUS
<1>4. -(e + 1) * scale = -((e + 1) * scale) /\ -n * scale = -(n * scale)
  OBVIOUS
<1> QED
  BY <1>1, <1>2, <1>3, <1>4

-----------------------------------------------------------------------------
(***************************************************************************)
(* 6. The shares of a cycle, after each recipient                          *)
(***************************************************************************)
\* The parts of a share file, the first k of them, and whether they are all of it.
Bps(c) == [i \in DOMAIN c.recipients |-> c.recipients[i].bps]
Parts(c, k) == SumOver(Bps(c), 1..k)

Configured(c) == c = Disabled \/ (c.total > 0 /\ Sum(Bps(c)) = c.total)

\* Of a whole T: no more than the parts so far, and if nobody is missing less
\* by one unit of rounding for each at most.
SoFar(c, T, missing, shares) ==
  /\ c.total * Sum(shares) <= T * Parts(c, Len(shares))
  /\ missing = {} =>
       T * Parts(c, Len(shares)) <= c.total * Sum(shares) + Len(shares) * c.total

\* Who is missing gets nothing, the others what SharesAsConfigured promises.
Each(c, base, missing, shares) ==
  \A i \in 1..Len(shares) :
    /\ c.recipients[i].role \in missing => shares[i] = 0
    /\ missing = {} =>
         shares[i] * Scale - base * c.recipients[i].bps
           \in (-Len(c.recipients) * Scale)..(Len(c.recipients) * Scale)

\* When everyone has had a turn.
AllShared(T, missing, shares) ==
  Sum(shares) <= T /\ (missing = {} => Sum(shares) = T)

\* The shares of the whole T, however many of them have been sent.
Sharing(c, T, base, missing, shares) ==
  /\ Configured(c)
  /\ Len(shares) <= Len(c.recipients)
  /\ Len(shares) < Len(c.recipients) => SoFar(c, T, missing, shares)
  /\ Len(shares) = Len(c.recipients) => shares = <<>> \/ AllShared(T, missing, shares)
  /\ Each(c, base, missing, shares)

SharesInv ==
  /\ Sharing(turn.config, TotalShare, turn.base, turn.missing, turn.shares)
  /\ At("share") => Len(turn.shares) < Len(turn.config.recipients)
  /\ turn.step \notin {"share", "remainder"} => turn.shares = <<>>

\* What a cycle may share by.
Config == ShareConfigs \cup {Disabled}

\* The recipients of a share file and their parts.
LEMMA ConfigTypes ==
  ASSUME NEW c \in Config
  PROVE  /\ c.total \in Int
         /\ Len(c.recipients) \in Nat /\ DOMAIN c.recipients = 1..Len(c.recipients)
         /\ Len(Bps(c)) = Len(c.recipients) /\ DOMAIN Bps(c) = 1..Len(c.recipients)
         /\ \A i \in 1..Len(c.recipients) :
              /\ c.recipients[i].role \in Roles
              /\ c.recipients[i].bps \in Nat /\ Bps(c)[i] = c.recipients[i].bps
<1> DEFINE Recipient == [role : Roles, bps : Nat]
<1>1. c.total \in Int /\ c.recipients \in Seq(Recipient)
  <2>1. CASE c \in ShareConfigs
    <3>1. c \in [total : Int, recipients : Seq(Recipient)]
      BY <2>1, FundAssumption
    <3> HIDE DEF Recipient
    <3> QED
      BY <3>1
  <2>2. CASE c = Disabled
    BY <2>2 DEF Disabled
  <2> QED
    BY <2>1, <2>2 DEF Config
<1>2. Len(c.recipients) \in Nat /\ DOMAIN c.recipients = 1..Len(c.recipients)
  BY <1>1
<1>3. ASSUME NEW i \in 1..Len(c.recipients)
      PROVE  c.recipients[i].role \in Roles /\ c.recipients[i].bps \in Nat
  <2>1. c.recipients[i] \in Recipient
    <3> HIDE DEF Recipient
    <3> QED
      BY <1>1
  <2> QED
    BY <2>1
<1>4. DOMAIN Bps(c) = 1..Len(c.recipients) /\ Len(Bps(c)) = Len(c.recipients)
      /\ \A i \in 1..Len(c.recipients) : Bps(c)[i] = c.recipients[i].bps
  BY <1>2 DEF Bps
<1> QED
  BY <1>1, <1>2, <1>3, <1>4

\* The first k parts and the next one.
LEMMA PartsAdd ==
  ASSUME NEW c \in Config, NEW k \in Nat, k <= Len(c.recipients)
  PROVE  /\ Parts(c, k) \in Nat
         /\ \A j \in 1..k : c.recipients[j].bps <= Parts(c, k)
         /\ \A i \in 1..Len(c.recipients) :
              i = k + 1 => Parts(c, i) = Parts(c, k) + c.recipients[i].bps
<1> DEFINE f == Bps(c)
           n == Len(c.recipients)
<1>1. n \in Nat /\ \A i \in 1..n : c.recipients[i].bps \in Nat /\ f[i] = c.recipients[i].bps
  BY ConfigTypes
<1> HIDE DEF f
<1>2. \A m \in 0..n : IsFiniteSet(1..m) /\ (\A i \in 1..m : f[i] \in Nat)
                        /\ SumOver(f, 1..m) \in Nat
                        /\ \A i \in 1..m : f[i] <= SumOver(f, 1..m)
  <2> TAKE m \in 0..n
  <2>1. IsFiniteSet(1..m)
    BY FS_Interval
  <2>2. ASSUME NEW i \in 1..m PROVE f[i] \in Nat
    <3>1. i \in 1..n
      BY <1>1
    <3> HIDE DEF n
    <3> QED
      BY <1>1, <3>1
  <2> QED
    BY <2>1, <2>2, SumOfNaturals
<1>3. ASSUME NEW i \in 1..n, i = k + 1
      PROVE  SumOver(f, 1..i) = SumOver(f, 1..k) + f[i]
  <2>1. i \in 1..i /\ IsFiniteSet(1..i) /\ \A j \in 1..i : f[j] \in Int
    BY <1>2
  <2>2. SumOver(f, 1..i) = f[i] + SumOver(f, (1..i) \ {i})
    BY <2>1, SumByRemoval
  <2>3. SumOver(f, (1..i) \ {i}) = SumOver(f, 1..k)
    <3>1. (1..i) \ {i} = 1..k
      BY <1>3
    <3> QED
      BY <3>1
  <2>4. f[i] \in Nat /\ SumOver(f, 1..k) \in Nat
    BY <1>1, <1>2
  <2> QED
    BY <2>2, <2>3, <2>4
<1>4. k \in 0..n
  BY <1>1
<1> QED
  BY <1>1, <1>2, <1>3, <1>4 DEF Parts, f

\* All parts are what the file is said to add up to.
LEMMA AllParts ==
  ASSUME NEW c \in Config PROVE Parts(c, Len(c.recipients)) = Sum(Bps(c))
<1>1. DOMAIN Bps(c) = 1..Len(c.recipients)
  BY ConfigTypes
<1>2. SumOver(Bps(c), DOMAIN Bps(c)) = SumOver(Bps(c), 1..Len(c.recipients))
  BY <1>1
<1> QED
  BY <1>2, SumIsSumOver DEF Parts

\* The sum of the first none.
LEMMA NoParts == ASSUME NEW c PROVE Parts(c, 0) = 0
<1>1. SumOver(Bps(c), 1..0) = SumOver(Bps(c), {})
  <2>1. 1..0 = {}
    OBVIOUS
  <2> QED
    BY <2>1
<1> QED
  BY <1>1, SumOfNothing DEF Parts

\* Before the first share.
LEMMA NothingShared ==
  ASSUME NEW c \in Config, Configured(c), NEW T \in Nat, NEW base, NEW missing
  PROVE  Sharing(c, T, base, missing, <<>>)
<1>1. c.total \in Int /\ Len(c.recipients) \in Nat
  BY ConfigTypes
<1>2. Len(<<>>) = 0 /\ Sum(<<>>) = 0 /\ Parts(c, 0) = 0
  BY SumOfEmptySequence, NoParts
<1>3. SoFar(c, T, missing, <<>>)
  <2>1. c.total * 0 = 0 /\ T * 0 = 0 /\ 0 * c.total = 0
    BY <1>1
  <2> QED
    BY <1>2, <2>1 DEF SoFar
<1>4. Each(c, base, missing, <<>>)
  BY DEF Each
<1> QED
  BY <1>1, <1>2, <1>3, <1>4 DEF Sharing

\* What the next recipient gets: its part rounded down, or the rest for the last.
PartOf(c, T, missing, shares, i) ==
  IF c.recipients[i].role \in missing THEN 0
  ELSE IF i = Len(c.recipients) THEN T - Sum(shares)
  ELSE (T * c.recipients[i].bps) \div c.total

\* distributeRevenueShares, one recipient.
LEMMA OneMoreShare ==
  ASSUME NEW c \in Config, NEW base \in Nat, NEW missing, NEW shares \in Seq(Nat),
         NEW T, T = (base * c.total) \div Scale,
         Sharing(c, T, base, missing, shares),
         NEW i \in 1..Len(c.recipients), i = Len(shares) + 1,
         NEW share, share = PartOf(c, T, missing, shares, i)
  PROVE  share \in Nat /\ Sharing(c, T, base, missing, Append(shares, share))
<1> DEFINE n == Len(c.recipients)
           k == Len(shares)
           b == c.recipients[i].bps
           total == c.total
           sum == Sum(shares)
           parts == Parts(c, k)
           wide == n * Scale
<1>1. /\ n \in Nat /\ k \in Nat /\ n > 0 /\ k < n /\ b \in Nat
      /\ \A j \in 1..n : c.recipients[j].bps \in Nat
  BY ConfigTypes
<1>2. Scale \in Nat \ {0}
  BY FundAssumption
<1>3. total \in Nat \ {0} /\ Sum(Bps(c)) = total
  <2>1. c # Disabled
    BY <1>1 DEF Disabled
  <2> QED
    BY <2>1, ConfigTypes DEF Sharing, Configured
<1>4. /\ parts \in Nat /\ Parts(c, i) = parts + b /\ b <= total
      /\ i = n => parts + b = total
  <2>1. parts \in Nat /\ Parts(c, i) = parts + b
    BY <1>1, PartsAdd
  <2>2. Parts(c, n) = total
    BY <1>3, AllParts
  <2>3. b <= Parts(c, n)
    <3>1. n \in Nat /\ n <= n /\ i \in 1..n
      BY <1>1
    <3> QED
      BY <3>1, PartsAdd
  <2> QED
    BY <2>1, <2>2, <2>3
<1>5. sum \in Nat
  BY SumOfSequence
<1>6. total * sum <= T * parts /\ (missing = {} => T * parts <= total * sum + k * total)
  BY <1>1 DEF Sharing, SoFar
<1>7. T \in Nat /\ Scale * T <= base * total /\ base * total < Scale * T + Scale
  <2>1. base * total \in Nat
    BY <1>3
  <2> QED
    BY <1>2, <2>1, Quotient
<1>8. i = k + 1 /\ i \in 1..n
  OBVIOUS
<1> DEFINE s2 == Append(shares, share)
           role == c.recipients[i].role
<1>9. share = IF role \in missing THEN 0 ELSE IF i = n THEN T - sum ELSE (T * b) \div total
  BY DEF PartOf
<1> DEFINE Fits == /\ share \in Nat
                   /\ i < n => /\ total * (sum + share) <= T * (parts + b)
                               /\ missing = {} =>
                                    T * (parts + b) <= total * (sum + share) + i * total
                   /\ i = n => sum + share <= T /\ (missing = {} => sum + share = T)
                   /\ role \in missing => share = 0
                   /\ missing = {} => share * Scale - base * b \in (-n * Scale)..(n * Scale)
<1> HIDE DEF n, k, b, total, sum, parts, s2, role
\* A recipient that is passed over leaves its part to the last one.
<1>10. ASSUME role \in missing PROVE Fits
  <2>1. share = 0 /\ missing # {}
    BY <1>9, <1>10
  <2>2. total * (sum + share) <= T * (parts + b)
    <3>1. T * (parts + b) = T * parts + T * b /\ T * parts \in Nat /\ T * b \in Nat
          /\ total * sum \in Nat
      BY <1>1, <1>3, <1>4, <1>5, <1>7
    <3> QED
      BY <1>5, <1>6, <2>1, <3>1
  <2>3. i = n => sum + share <= T
    <3> SUFFICES ASSUME i = n PROVE sum + share <= T
      OBVIOUS
    <3>1. T - sum \in Nat
      BY <1>1, <1>3, <1>4, <1>5, <1>6, <1>7, LastPart
    <3> QED
      BY <1>5, <1>7, <2>1, <3>1
  <2> QED
    BY <1>8, <1>10, <2>1, <2>2, <2>3
\* The others get theirs rounded down,
<1>11. ASSUME role \notin missing, i # n PROVE Fits
  <2>1. share = (T * b) \div total
    BY <1>9, <1>11
  <2>2. /\ share \in Nat
        /\ total * share <= T * b /\ T * b < total * share + total
        /\ total * (sum + share) <= T * (parts + b)
        /\ T * parts <= total * sum + k * total
             => T * (parts + b) <= total * (sum + share) + (k + 1) * total
    BY <1>1, <1>3, <1>4, <1>5, <1>6, <1>7, <2>1, NextPart
  <2>3. missing = {} => T * (parts + b) <= total * (sum + share) + i * total
    BY <1>6, <1>8, <2>2
  <2>4. T * b \in Nat /\ total * share \in Nat /\ 1 * total = total /\ 0 * total = 0
    BY <1>1, <1>3, <1>7, <2>2, Products
  <2>5. T * b <= total * share + 1 * total /\ total * share <= T * b + 0 * total
    <3>1. total * share <= T * b /\ T * b < total * share + total
      BY <2>2
    <3> QED
      BY <1>3, <2>4, <3>1
  <2>6. 1 < n /\ 0 <= n
    BY <1>1, <1>8, <1>11
  <2>7. share * Scale - base * b \in (-n * Scale)..(n * Scale)
    BY <1>1, <1>2, <1>3, <1>4, <1>7, <2>2, <2>5, <2>6, PartWithin
  <2> QED
    BY <1>8, <1>11, <2>2, <2>3, <2>7
\* and the last one the rest, never less than its part.
<1>12. ASSUME role \notin missing, i = n PROVE Fits
  <2>1. share = T - sum
    BY <1>9, <1>12
  <2>2. /\ T - sum \in Nat
        /\ T * b <= total * (T - sum)
        /\ T * parts <= total * sum + k * total => total * (T - sum) <= T * b + k * total
    BY <1>1, <1>3, <1>4, <1>5, <1>6, <1>7, <1>12, LastPart
  <2>3. sum + share = T
    BY <1>5, <1>7, <2>1, <2>2
  <2>4. ASSUME missing = {}
        PROVE  share * Scale - base * b \in (-n * Scale)..(n * Scale)
    <3>1. T * b \in Nat /\ total * share \in Nat /\ 0 * total = 0
      BY <1>1, <1>3, <1>7, <2>1, <2>2, Products
    <3>2. T * b <= total * share + 0 * total /\ total * share <= T * b + k * total
      BY <1>6, <2>1, <2>2, <2>4, <3>1
    <3>3. share \in Nat /\ 0 \in Nat /\ 0 < n /\ k <= n
      BY <1>1, <2>1, <2>2
    <3> QED
      BY <1>1, <1>2, <1>3, <1>4, <1>7, <3>2, <3>3, PartWithin
  <2> QED
    BY <1>5, <1>7, <1>12, <2>1, <2>2, <2>3, <2>4
<1>13. Fits
  BY <1>10, <1>11, <1>12
<1>14. /\ Len(s2) = i /\ Sum(s2) = sum + share /\ s2 # <<>>
       /\ \A j \in 1..i : s2[j] = IF j = i THEN share ELSE shares[j]
  <2>1. share \in Nat
    BY <1>13
  <2>2. Sum(s2) = sum + share
    BY <2>1, SumOfSequence DEF s2, sum
  <2> QED
    BY <1>1, <1>8, <2>1, <2>2 DEF s2, k
<1>15. i <= n /\ (i < n => SoFar(c, T, missing, s2))
  BY <1>4, <1>8, <1>13, <1>14 DEF SoFar, total
<1>16. i = n => AllShared(T, missing, s2)
  BY <1>13, <1>14 DEF AllShared
<1>17. Each(c, base, missing, s2)
  <2> SUFFICES ASSUME NEW j \in 1..i
               PROVE  /\ c.recipients[j].role \in missing => s2[j] = 0
                      /\ missing = {} => s2[j] * Scale - base * c.recipients[j].bps
                                           \in (-n * Scale)..(n * Scale)
    BY <1>14 DEF Each, n
  <2>1. CASE j = i
    BY <1>13, <1>14, <2>1 DEF role, b
  <2>2. CASE j # i
    <3>1. j \in 1..k /\ s2[j] = shares[j]
      BY <1>1, <1>8, <1>14, <2>2
    <3>2. Each(c, base, missing, shares)
      BY DEF Sharing
    <3> QED
      BY <3>1, <3>2 DEF Each, n, k
  <2> QED
    BY <2>1, <2>2
<1>18. share \in Nat /\ Configured(c)
  BY <1>13 DEF Sharing
<1> HIDE DEF Fits
<1> QED
  BY <1>14, <1>15, <1>16, <1>17, <1>18 DEF Sharing, s2, n

-----------------------------------------------------------------------------
(***************************************************************************)
(* 7. One step per action                                                  *)
(***************************************************************************)
Steps == {"idle", "collect", "topUp", "buffer", "load", "share", "remainder", "end", "checked"}

\* The turn, the rest of the state, and all of it.
TurnOK == turn \in Turn /\ SharesInv

RestOK ==
  /\ clean \in BOOLEAN
  /\ inProgress \in BOOLEAN
  /\ collections \in 0..MaxCollections
  /\ restarts \in 0..MaxRestarts

FundInv == BooksOK /\ TurnOK /\ RestOK

\* What is shared is not negative.
LEMMA WholeIsNat ==
  ASSUME NEW t \in Turn, Configured(t.config)
  PROVE  (t.base * t.config.total) \div Scale \in Nat
<1>1. t.base \in Nat /\ t.config \in Config
  BY DEF Turn, Config
<1>2. t.config.total \in Nat
  BY <1>1, ConfigTypes DEF Configured, Disabled
<1>3. t.base * t.config.total \in Nat
  BY <1>1, <1>2
<1> QED
  BY <1>3, FundAssumption, Quotient

\* A turn in which nothing has been shared.
LEMMA FreshTurn ==
  ASSUME turn' \in Turn, Configured(turn'.config), turn'.shares = <<>>,
         turn'.step = "share" => 0 < Len(turn'.config.recipients)
  PROVE  TurnOK'
<1>1. TotalShare' \in Nat
  BY WholeIsNat DEF TotalShare
<1>2. turn'.config \in Config
  BY DEF Turn, Config
<1>3. Sharing(turn'.config, TotalShare', turn'.base, turn'.missing, <<>>)
  BY <1>1, <1>2, NothingShared
<1>4. SharesInv'
  BY <1>3 DEF SharesInv, At
<1> QED
  BY <1>4 DEF TurnOK

\* A cycle that begins or ends shares nothing.
LEMMA IdleIsFresh ==
  ASSUME NEW s \in Steps \ {"share"}, NEW missing \in SUBSET Unlisted,
         turn' = [step |-> s, missing |-> missing, config |-> Disabled, base |-> 0,
                  shares |-> <<>>]
  PROVE  TurnOK'
<1>1. <<>> \in Seq(Nat)
  OBVIOUS
<1>2. turn' \in Turn
  BY <1>1 DEF Turn, Steps
<1>3. turn'.config = Disabled /\ turn'.shares = <<>> /\ turn'.step # "share"
  OBVIOUS
<1>4. Configured(turn'.config)
  BY <1>3 DEF Configured
<1> QED
  BY <1>2, <1>3, <1>4, FreshTurn

\* Before the shares nothing has been shared.
LEMMA NextStep ==
  ASSUME TurnOK, turn.step \notin {"share", "remainder"},
         NEW s \in Steps \ {"share"}, GoesTo(s)
  PROVE  TurnOK'
<1>1. turn \in Turn /\ turn.shares = <<>> /\ Configured(turn.config)
  BY DEF TurnOK, SharesInv, Sharing
<1>2. turn' \in Turn /\ turn'.shares = <<>> /\ turn'.config = turn.config /\ turn'.step = s
  BY <1>1 DEF GoesTo, Turn, Steps
<1> QED
  BY <1>1, <1>2, FreshTurn

\* loadRevenueShareConfig returns a file that adds up, or none.
LEMMA LoadConfigOK ==
  ASSUME NEW raw \in ShareConfigs
  PROVE  /\ LoadRevenueShareConfig(raw) \in Config
         /\ Configured(LoadRevenueShareConfig(raw))
BY DEF LoadRevenueShareConfig, Configured, Config, Bps

\* distributeRevenueShares, its first lines: shares are sent only if there are recipients.
LEMMA LoadShares ==
  ASSUME BooksOK, TurnOK, LoadRevenueShares PROVE TurnOK'
<1>1. PICK raw \in ShareConfigs :
        turn' = [turn EXCEPT
            !.config = LoadRevenueShareConfig(raw), !.base = balance["hot"].ada,
            !.step = IF balance["hot"].ada * LoadRevenueShareConfig(raw).total < Scale
                     THEN "remainder" ELSE "share"]
  BY DEF LoadRevenueShares
<1> DEFINE c == LoadRevenueShareConfig(raw)
           base == balance["hot"].ada
<1>2. c \in Config /\ Configured(c)
  BY LoadConfigOK
<1>3. base \in Nat
  BY DEF BooksOK, Wallet, Money
<1>4. turn \in Turn /\ turn.shares = <<>>
  BY DEF LoadRevenueShares, At, TurnOK, SharesInv
<1> HIDE DEF c, base
<1>5. turn' = [turn EXCEPT !.config = c, !.base = base,
                           !.step = IF base * c.total < Scale THEN "remainder" ELSE "share"]
  BY <1>1 DEF c, base
<1>6. turn' \in Turn /\ turn'.config = c /\ turn'.shares = <<>>
      /\ turn'.step = IF base * c.total < Scale THEN "remainder" ELSE "share"
  BY <1>2, <1>3, <1>4, <1>5 DEF Turn, Config
<1>7. ~(base * c.total < Scale) => 0 < Len(c.recipients)
  <2> SUFFICES ASSUME Len(c.recipients) = 0 PROVE base * c.total < Scale
    BY <1>2, ConfigTypes
  <2>1. Sum(Bps(c)) = 0
    <3>1. Parts(c, Len(c.recipients)) = Parts(c, 0)
      OBVIOUS
    <3> QED
      BY <1>2, <3>1, AllParts, NoParts
  <2>2. c.total = 0
    BY <1>2, <2>1 DEF Configured, Disabled
  <2> QED
    BY <1>3, <2>2, FundAssumption
<1> QED
  BY <1>2, <1>6, <1>7, FreshTurn

\* What SendShare sends and to whom, and what it leaves.
LEMMA ShareSent ==
  ASSUME TurnOK, SendShare
  PROVE  /\ TurnOK'
         /\ \A i : i = Len(turn.shares) + 1 =>
              /\ turn.config.recipients[i].role \in Destination
              /\ Resolved(i) => Share(i) \in Nat
<1> DEFINE c == turn.config
           T == TotalShare
           i == Len(turn.shares) + 1
           share == IF Resolved(i) THEN Share(i) ELSE 0
           next == IF IsLast(i) THEN "remainder" ELSE "share"
<1>1. /\ turn \in Turn /\ c \in Config /\ turn.shares \in Seq(Nat) /\ turn.base \in Nat
      /\ Len(turn.shares) \in Nat /\ T = (turn.base * c.total) \div Scale
  BY DEF TurnOK, Turn, Config, TotalShare
<1>2. Sharing(c, T, turn.base, turn.missing, turn.shares)
      /\ Len(turn.shares) < Len(c.recipients)
  BY DEF TurnOK, SharesInv, SendShare
<1>3. i \in 1..Len(c.recipients) /\ i = Len(turn.shares) + 1
  BY <1>1, <1>2, ConfigTypes
<1>4. share = PartOf(c, T, turn.missing, turn.shares, i)
  BY DEF Resolved, Share, IsLast, PartOf
<1>5. turn' = [[turn EXCEPT !.shares = Append(turn.shares, share)] EXCEPT !.step = next]
  BY DEF SendShare
<1>6. c.recipients[i].role \in Destination
  BY <1>1, <1>3, ConfigTypes DEF Destination
<1>7. IsLast(i) <=> i = Len(c.recipients)
  BY DEF IsLast
<1>8. Resolved(i) => share = Share(i)
  OBVIOUS
<1> HIDE DEF c, T, share, i, next
<1>9. share \in Nat /\ Sharing(c, T, turn.base, turn.missing, Append(turn.shares, share))
  BY <1>1, <1>2, <1>3, <1>4, OneMoreShare
<1>10. /\ turn'.config = c /\ turn'.base = turn.base /\ turn'.missing = turn.missing
       /\ turn'.shares = Append(turn.shares, share) /\ turn'.step = next
       /\ turn' \in Turn
  <2>1. Append(turn.shares, share) \in Seq(Nat) /\ next \in Steps
    BY <1>1, <1>9 DEF next, Steps
  <2> DEFINE s2 == Append(turn.shares, share)
  <2>2. turn' = [[turn EXCEPT !.shares = s2] EXCEPT !.step = next]
    BY <1>5
  <2> HIDE DEF s2
  <2> QED
    BY <1>1, <2>1, <2>2 DEF Turn, Steps, c, s2
<1>11. TotalShare' = T
  BY <1>1, <1>10 DEF TotalShare
<1>12. next = "share" => Len(Append(turn.shares, share)) < Len(c.recipients)
  BY <1>1, <1>3, <1>7, <1>9 DEF next, i
<1>13. next \in {"share", "remainder"}
  BY DEF next
<1>14. TurnOK'
  BY <1>9, <1>10, <1>11, <1>12, <1>13 DEF TurnOK, SharesInv, At
<1>15. Resolved(i) => Share(i) \in Nat
  BY <1>8, <1>9
<1> QED
  BY <1>3, <1>6, <1>14, <1>15 DEF c

\* The invariant holds at first.
LEMMA FundInit == Init => FundInv
<1> SUFFICES ASSUME Init PROVE FundInv
  OBVIOUS
<1>1. balance = First /\ pool = <<>> /\ faults = 0 /\ turn = Idle
  BY DEF Init
<1>2. BooksOK
  <2>1. pool \in Seq(Transaction) /\ balance \in [Wallet -> Money] /\ faults \in 0..MaxFaults
    BY <1>1, FundAssumption
  <2>2. ASSUME NEW w \in Wallet
        PROVE  Owed(pool, w).ada <= balance[w].ada /\ Owed(pool, w).tokens <= balance[w].tokens
    <3>1. SumOver(AdaCosts(pool), From(pool, w)) = SumOver(AdaCosts(pool), {})
          /\ SumOver(TokenCosts(pool), From(pool, w)) = SumOver(TokenCosts(pool), {})
      <4>1. From(pool, w) = {}
        BY <1>1 DEF From
      <4> QED
        BY <4>1
    <3>2. Owed(pool, w).ada = 0 /\ Owed(pool, w).tokens = 0
      BY <3>1, SumOfNothing DEF Owed
    <3>3. balance[w] \in Money
      BY <2>1
    <3> QED
      BY <3>2, <3>3 DEF Money
  <2> QED
    BY <2>1, <2>2 DEF BooksOK, FundsInv
<1>3. TurnOK
  <2>1. turn = [step |-> "idle", missing |-> {}, config |-> Disabled, base |-> 0,
              shares |-> <<>>]
    BY <1>1 DEF Idle
  <2>2. turn \in Turn
    BY <2>1 DEF Turn
  <2>3. turn.config = Disabled /\ turn.shares = <<>> /\ turn.step = "idle" /\ Disabled \in Config
    BY <2>1 DEF Config
  <2>4. Configured(turn.config)
    BY <2>3 DEF Configured
  <2>5. TotalShare \in Nat
    BY <2>2, <2>4, WholeIsNat DEF TotalShare
  <2>6. Sharing(turn.config, TotalShare, turn.base, turn.missing, <<>>)
    BY <2>3, <2>4, <2>5, NothingShared
  <2> QED
    BY <2>2, <2>3, <2>6 DEF TurnOK, SharesInv, At
<1>4. RestOK
  <2>1. MaxCollections \in Nat /\ MaxRestarts \in Nat
    BY FundAssumption
  <2>2. clean = FALSE /\ inProgress = FALSE /\ collections = 0 /\ restarts = 0
    BY DEF Init
  <2>3. collections \in 0..MaxCollections /\ restarts \in 0..MaxRestarts
    BY <2>1, <2>2
  <2> QED
    BY <2>2, <2>3 DEF RestOK
<1> QED
  BY <1>2, <1>3, <1>4 DEF FundInv

\* Between cycles.
LEMMA IdleAgain == ASSUME turn' = Idle PROVE TurnOK'
<1>1. turn' = [step |-> "idle", missing |-> {}, config |-> Disabled, base |-> 0,
                shares |-> <<>>]
  BY DEF Idle
<1>2. "idle" \in Steps \ {"share"} /\ {} \in SUBSET Unlisted
  BY DEF Steps
<1> QED
  BY <1>1, <1>2, IdleIsFresh

\* At the end of a cycle, or after a check.
LEMMA IdleEnds ==
  ASSUME NEW s \in {"end", "checked"}, turn' = [Idle EXCEPT !.step = s] PROVE TurnOK'
<1>1. turn' = [step |-> s, missing |-> {}, config |-> Disabled, base |-> 0, shares |-> <<>>]
  BY DEF Idle
<1>2. s \in Steps \ {"share"} /\ {} \in SUBSET Unlisted
  BY DEF Steps
<1> QED
  BY <1>1, <1>2, IdleIsFresh

\* What waits in the pool and what a wallet holds, for every step of the cycle.
LEMMA FundStep == FundInv /\ [Next]_vars => FundInv'
<1> SUFFICES ASSUME FundInv, [Next]_vars PROVE FundInv'
  OBVIOUS
<1>0. /\ BooksOK /\ TurnOK /\ RestOK
      /\ balance["hot"] \in Money /\ balance["server"] \in Money
      /\ "hot" \in Wallet /\ "server" \in Wallet
  BY DEF FundInv, BooksOK, Wallet
<1>1. CASE LoadState
  <2>1. BooksOK'
    BY <1>0, <1>1, SameBooks DEF LoadState, chain
  <2>2. TurnOK' /\ RestOK'
    BY <1>0, <1>1 DEF LoadState, chain, TurnOK, SharesInv, TotalShare, At, RestOK
  <2> QED
    BY <2>1, <2>2 DEF FundInv
<1>2. CASE StartCycle
  <2>1. BooksOK'
    BY <1>0, <1>2, SameBooks DEF StartCycle, chain
  <2>2. TurnOK'
    <3>1. CASE turn' = [Idle EXCEPT !.step = "end"]
      BY <3>1, IdleEnds
    <3>2. ASSUME NEW missing \in SUBSET Unlisted,
                 turn' = [Idle EXCEPT !.step = "collect", !.missing = missing]
          PROVE  TurnOK'
      <4>1. turn' = [step |-> "collect", missing |-> missing, config |-> Disabled, base |-> 0,
                     shares |-> <<>>]
        BY <3>2 DEF Idle
      <4>2. "collect" \in Steps \ {"share"}
        BY DEF Steps
      <4> HIDE <3>2
      <4> QED
        BY <4>1, <4>2, IdleIsFresh
    <3> QED
      BY <1>2, <3>1, <3>2 DEF StartCycle
  <2>3. RestOK'
    BY <1>0, <1>2 DEF StartCycle, RestOK, chain
  <2> QED
    BY <2>1, <2>2, <2>3 DEF FundInv
<1>3. CASE Collect
  <2>1. BooksOK'
    BY <1>0, <1>3, CollectKeeps
  <2>2. TurnOK'
    BY <1>0, <1>3, NextStep DEF Collect, At, Steps
  <2>3. RestOK'
    BY <1>0, <1>3, FundAssumption DEF Collect, RestOK
  <2> QED
    BY <2>1, <2>2, <2>3 DEF FundInv
<1>4. CASE TopUpHotWalletGas
  <2> DEFINE needed == Gas - balance["hot"].ada
             enough == balance["server"].ada >= needed + MinReserve
  <2>1. Distributes("topUp", "buffer", needed > 0 /\ enough, Sends("server", "hot", Ada(needed)))
    BY <1>4 DEF TopUpHotWalletGas
  <2>2. needed \in Int /\ "hot" \in Destination
    <3>1. Gas \in Nat /\ balance["hot"].ada \in Nat
      BY <1>0, FundAssumption DEF Money
    <3> QED
      BY <3>1 DEF Destination, Wallet
  <2> HIDE DEF needed, enough
  <2>3. BooksOK'
    <3>1. CASE needed > 0 /\ Sends("server", "hot", Ada(needed))
      <4>1. Ada(needed) \in Money
        BY <2>2, <3>1 DEF Ada, Money
      <4>2. balance' = balance
        BY <2>1 DEF Distributes
      <4> QED
        BY <1>0, <2>2, <3>1, <4>1, <4>2, SendsKeeps
    <3>2. CASE UNCHANGED <<pool, faults>>
      BY <1>0, <2>1, <3>2, SameBooks DEF Distributes
    <3> QED
      BY <2>1, <3>1, <3>2 DEF Distributes
  <2>4. TurnOK'
    BY <1>0, <2>1, NextStep DEF Distributes, At, Steps
  <2>5. RestOK'
    BY <1>0, <2>1 DEF Distributes, RestOK
  <2> QED
    BY <2>3, <2>4, <2>5 DEF FundInv
<1>5. CASE TopUpServerStablecoinBuffer
  <2> DEFINE needed == Buffer - balance["server"].tokens
             enough == balance["hot"].tokens >= needed
             m == [ada |-> MinAda, tokens |-> needed]
  <2>1. Distributes("buffer", "load", needed > 0 /\ enough, Sends("hot", "server", m))
    BY <1>5 DEF TopUpServerStablecoinBuffer
  <2>2. needed \in Int /\ "server" \in Destination
    <3>1. Buffer \in Nat /\ balance["server"].tokens \in Nat
      BY <1>0, FundAssumption DEF Money
    <3> QED
      BY <3>1 DEF Destination, Wallet
  <2>3. needed > 0 => m \in Money
    BY <2>2, FundAssumption DEF Money
  <2> HIDE DEF needed, enough, m
  <2>4. BooksOK'
    <3>1. CASE needed > 0 /\ Sends("hot", "server", m)
      <4>1. balance' = balance
        BY <2>1 DEF Distributes
      <4> QED
        BY <1>0, <2>2, <2>3, <3>1, <4>1, SendsKeeps
    <3>2. CASE UNCHANGED <<pool, faults>>
      BY <1>0, <2>1, <3>2, SameBooks DEF Distributes
    <3> QED
      BY <2>1, <3>1, <3>2 DEF Distributes
  <2>5. TurnOK'
    BY <1>0, <2>1, NextStep DEF Distributes, At, Steps
  <2>6. RestOK'
    BY <1>0, <2>1 DEF Distributes, RestOK
  <2> QED
    BY <2>4, <2>5, <2>6 DEF FundInv
<1>6. CASE LoadRevenueShares
  <2>1. BooksOK'
    BY <1>0, <1>6, SameBooks DEF LoadRevenueShares, chain
  <2>2. TurnOK'
    BY <1>0, <1>6, LoadShares
  <2>3. RestOK'
    BY <1>0, <1>6 DEF LoadRevenueShares, RestOK, chain
  <2> QED
    BY <2>1, <2>2, <2>3 DEF FundInv
<1>7. CASE SendShare
  <2> DEFINE i == Len(turn.shares) + 1
             role == turn.config.recipients[i].role
             share == IF Resolved(i) THEN Share(i) ELSE 0
  <2>1. \/ share > 0 /\ Sends("hot", role, Ada(share))
        \/ UNCHANGED <<pool, faults>>
    BY <1>7 DEF SendShare
  <2>2. role \in Destination /\ (Resolved(i) => Share(i) \in Nat)
    BY <1>0, <1>7, ShareSent
  <2>3. share \in Nat
    BY <2>2
  <2> HIDE DEF i, role, share
  <2>4. BooksOK'
    <3>1. balance' = balance
      BY <1>7 DEF SendShare
    <3>2. CASE Sends("hot", role, Ada(share))
      <4>1. Ada(share) \in Money
        BY <2>3 DEF Ada, Money
      <4> QED
        BY <1>0, <2>2, <3>1, <3>2, <4>1, SendsKeeps
    <3>3. CASE UNCHANGED <<pool, faults>>
      BY <1>0, <3>1, <3>3, SameBooks
    <3> QED
      BY <2>1, <3>2, <3>3
  <2>5. TurnOK'
    BY <1>0, <1>7, ShareSent
  <2>6. RestOK'
    BY <1>0, <1>7 DEF SendShare, RestOK
  <2> QED
    BY <2>4, <2>5, <2>6 DEF FundInv
<1>8. CASE SendRemainderToAdmin
  <2>1. balance' = balance
    BY <1>8 DEF SendRemainderToAdmin
  <2>2. BooksOK'
    <3>1. CASE Sends("hot", "admin", Ada(balance["hot"].ada))
      <4>1. Ada(balance["hot"].ada) \in Money /\ "admin" \in Destination
        BY <1>0 DEF Ada, Money, Destination
      <4> QED
        BY <1>0, <2>1, <3>1, <4>1, SendsKeeps
    <3>2. CASE UNCHANGED <<pool, faults>>
      BY <1>0, <2>1, <3>2, SameBooks
    <3> QED
      BY <1>8, <3>1, <3>2 DEF SendRemainderToAdmin
  <2>3. TurnOK'
    BY <1>8, IdleEnds DEF SendRemainderToAdmin
  <2>4. RestOK'
    BY <1>0, <1>8 DEF SendRemainderToAdmin, RestOK
  <2> QED
    BY <2>2, <2>3, <2>4 DEF FundInv
<1>9. CASE Finish \/ FinishCheck
  <2>1. BooksOK'
    BY <1>0, <1>9, SameBooks DEF Finish, FinishCheck, UpdateState, chain
  <2>2. TurnOK'
    BY <1>9, IdleAgain DEF Finish, FinishCheck
  <2>3. RestOK'
    BY <1>0, <1>9 DEF Finish, FinishCheck, RestOK, chain
  <2> QED
    BY <2>1, <2>2, <2>3 DEF FundInv
<1>10. CASE EnsureCollateral
  <2>1. balance' = balance
    BY <1>10 DEF EnsureCollateral
  <2>2. BooksOK'
    <3>1. CASE Submits("server", "collateral", Ada(0), Ada(Fee))
      <4>1. Ada(0) \in Money /\ Ada(Fee) \in Money /\ "collateral" \in Destination
        BY FundAssumption DEF Ada, Money, Destination
      <4> QED
        BY <1>0, <2>1, <3>1, <4>1, SubmitsKeeps
    <3>2. CASE UNCHANGED pool /\ (UNCHANGED faults \/ Fault)
      BY <1>0, <2>1, <3>2, SameBooks
    <3> QED
      BY <1>10, <3>1, <3>2 DEF EnsureCollateral
  <2>3. TurnOK'
    BY <1>10, IdleEnds DEF EnsureCollateral
  <2>4. RestOK'
    BY <1>0, <1>10 DEF EnsureCollateral, RestOK
  <2> QED
    BY <2>2, <2>3, <2>4 DEF FundInv
<1>11. CASE \E i \in DOMAIN pool : Confirm(i) \/ Lose(i)
  <2>1. BooksOK'
    BY <1>0, <1>11, ConfirmKeeps, LoseKeeps
  <2>2. UNCHANGED <<turn, inProgress, collections, restarts>> /\ clean' \in BOOLEAN
    BY <1>0, <1>11 DEF Confirm, Lose, RestOK
  <2>3. TurnOK' /\ RestOK'
    BY <1>0, <2>2 DEF TurnOK, SharesInv, TotalShare, At, RestOK
  <2> QED
    BY <2>1, <2>3 DEF FundInv
<1>12. CASE SpendCollateral \/ Tick
  <2>1. BooksOK'
    BY <1>0, <1>12, SameBooks DEF SpendCollateral, Tick, chain
  <2>2. UNCHANGED <<turn, inProgress, collections, restarts>> /\ clean' \in BOOLEAN
    BY <1>0, <1>12 DEF SpendCollateral, Tick, RestOK, chain
  <2>3. TurnOK' /\ RestOK'
    BY <1>0, <2>2 DEF TurnOK, SharesInv, TotalShare, At, RestOK
  <2> QED
    BY <2>1, <2>3 DEF FundInv
<1>13. CASE Restart
  <2>1. BooksOK'
    BY <1>0, <1>13, SameBooks DEF Restart, chain
  <2>2. TurnOK'
    BY <1>13, IdleAgain DEF Restart
  <2>3. RestOK'
    <3>1. MaxRestarts \in Nat /\ restarts \in 0..MaxRestarts
      BY <1>0, FundAssumption DEF RestOK
    <3>2. restarts' \in 0..MaxRestarts
      BY <1>13, <3>1 DEF Restart
    <3>3. inProgress' = FALSE /\ clean' = clean /\ collections' = collections
      BY <1>13 DEF Restart, chain
    <3> QED
      BY <1>0, <3>2, <3>3 DEF RestOK
  <2> QED
    BY <2>1, <2>2, <2>3 DEF FundInv
<1>14. CASE UNCHANGED vars
  <2>1. BooksOK'
    BY <1>0, <1>14, SameBooks DEF vars, chain
  <2>2. TurnOK' /\ RestOK'
    BY <1>0, <1>14 DEF vars, chain, TurnOK, SharesInv, TotalShare, At, RestOK
  <2> QED
    BY <2>1, <2>2 DEF FundInv
<1> QED
  BY <1>1, <1>2, <1>3, <1>4, <1>5, <1>6, <1>7, <1>8, <1>9, <1>10, <1>11, <1>12, <1>13, <1>14
  DEF Next, Monitor, Cycle

(***************************************************************************)
(* Every variable keeps its type: what is sent is never negative, and      *)
(* however transactions of a wallet are confirmed, lost or followed by     *)
(* others, it pays what it has.                                            *)
(***************************************************************************)
THEOREM TypeCorrect == Spec => []TypeOK
<1>1. SpacedInv /\ FundInv => TypeOK
  BY DEF SpacedInv, ClockInv, FundInv, BooksOK, TurnOK, RestOK, TypeOK, Ages, State
<1> QED
  BY <1>1, SpacedInit, SpacedStep, FundInit, FundStep, PTL DEF Spec

(***************************************************************************)
(* distribution.ts:101-102: the shares of a cycle are at most the part of  *)
(* the balance that is shared; with nobody missing they are all of it, and *)
(* each is the recipient's part up to one unit of rounding for each of     *)
(* them, for every share file, every scale and every balance.              *)
(***************************************************************************)
THEOREM SharesAlways == Spec => []SharesAsConfigured
<1>1. FundInv => SharesAsConfigured
  <2> DEFINE c == turn.config
             n == Len(c.recipients)
  <2> SUFFICES ASSUME FundInv, Len(turn.shares) = n
               PROVE  /\ Sum(turn.shares) <= TotalShare
                      /\ \A i \in 1..n : Resolved(i) \/ turn.shares[i] = 0
                      /\ turn.missing = {} /\ turn.shares # <<>> =>
                           /\ Sum(turn.shares) = TotalShare
                           /\ \A i \in 1..n :
                                turn.shares[i] * Scale - turn.base * c.recipients[i].bps
                                  \in (-n * Scale)..(n * Scale)
    BY DEF SharesAsConfigured
  <2>1. Sharing(c, TotalShare, turn.base, turn.missing, turn.shares)
    BY DEF FundInv, TurnOK, SharesInv
  <2>2. turn.shares = <<>> => Sum(turn.shares) <= TotalShare
    <3>1. TotalShare \in Nat
      BY WholeIsNat DEF TotalShare, FundInv, TurnOK, SharesInv, Sharing
    <3> QED
      BY <3>1, SumOfEmptySequence
  <2>3. turn.shares = <<>> \/ AllShared(TotalShare, turn.missing, turn.shares)
    BY <2>1 DEF Sharing
  <2>4. Each(c, turn.base, turn.missing, turn.shares)
    BY <2>1 DEF Sharing
  <2> QED
    BY <2>2, <2>3, <2>4 DEF AllShared, Each, Resolved
<1> QED
  BY <1>1, FundInit, FundStep, PTL DEF Spec
=============================================================================
