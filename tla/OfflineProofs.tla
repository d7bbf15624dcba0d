---------------------------- MODULE OfflineProofs ----------------------------
(***************************************************************************)
(* Theorems about the computations that judge entries afterwards: the      *)
(* folds of a walk-forward validation, the chunks of a backfill, the       *)
(* pooling of a calibration, and the simulation of a backtest with the     *)
(* paper engine it stands for.                                             *)
(***************************************************************************)
EXTENDS WalkForward, Backfill, Calibration, Backtest, SequenceTheorems,
        DataInduction, TLAPS

-----------------------------------------------------------------------------
(* The folds. *)

\* What is known of a validation whose series is long enough.
LEMMA Lengths ==
    ASSUME NEW w \in Walk, FoldsFit(w)
    PROVE  /\ w.bars \in Nat /\ w.warmup \in Nat /\ w.sim \in Nat /\ w.k \in Nat \ {0}
           /\ FoldLen(w) \in Nat /\ FoldLen(w) >= MinBars
           /\ (w.k + 1) * FoldLen(w) <= w.bars - w.warmup
<1>1. /\ w.bars \in Nat /\ w.warmup \in Nat /\ w.sim \in Nat /\ w.k \in Nat \ {0}
  BY WalkAssumption DEF Walk
<1> DEFINE d == w.bars - w.warmup
           n == w.k + 1
<1>2. d \in Nat /\ n \in Nat /\ n > 1 /\ d >= n * 10
  BY <1>1, Z3 DEF FoldsFit, MinBars
<1> HIDE DEF d, n
<1>3. d \div n \in Nat /\ n * (d \div n) <= d
  BY <1>2, Z3
<1>4. d < n * (d \div n) + n
  BY <1>2, Z3
<1>5. d \div n >= 10
  <2>1. SUFFICES ASSUME d \div n <= 9 PROVE FALSE
    BY <1>3, Z3
  <2>2. n * (d \div n) <= n * 9
    BY <1>2, <1>3, <2>1, Z3
  <2> QED
    BY <1>2, <1>3, <1>4, <2>2, Z3
<1> QED
  BY <1>1, <1>3, <1>5 DEF d, n, FoldLen, MinBars

\* Where a fold lies.
LEMMA Boundaries ==
    ASSUME NEW w \in Walk, FoldsFit(w), NEW f \in 1..w.k
    PROVE  /\ TrainEnd(w, f) \in Nat /\ TestStart(w, f) \in Nat /\ TestEnd(w, f) \in Nat
           /\ TrainEnd(w, f) >= w.warmup + MinBars - 1
           /\ TestStart(w, f) = TrainEnd(w, f) + 2
           /\ TestEnd(w, f) >= TrainEnd(w, f) + FoldLen(w)
           /\ TestEnd(w, f) < w.bars
           /\ f < w.k => /\ TestEnd(w, f) = TrainEnd(w, f) + FoldLen(w)
                         /\ TrainEnd(w, f + 1) = TestEnd(w, f)
<1>1. /\ w.bars \in Nat /\ w.warmup \in Nat /\ w.k \in Nat \ {0}
      /\ FoldLen(w) \in Nat /\ FoldLen(w) >= 10
      /\ (w.k + 1) * FoldLen(w) <= w.bars - w.warmup
  BY Lengths DEF MinBars
<1> DEFINE n == FoldLen(w)
<1> HIDE DEF n
<1>2. n \in Nat /\ n >= 10 /\ (w.k + 1) * n <= w.bars - w.warmup /\ f \in Nat /\ f >= 1 /\ f <= w.k
  BY <1>1 DEF n
<1>3. f * n \in Nat /\ f * n >= n
  BY <1>2, Z3
<1>4. (f + 1) * n = f * n + n
  BY <1>2, Z3
<1>5. (f + 1) * n <= (w.k + 1) * n
  BY <1>1, <1>2, Z3
<1>6. TrainEnd(w, f) = w.warmup + f * n - 1 /\ TrainEnd(w, f + 1) = w.warmup + (f + 1) * n - 1
  BY DEF TrainEnd, n
<1>7. TestEnd(w, f) = IF f < w.k THEN w.warmup + (f + 1) * n - 1 ELSE w.bars - 1
  BY DEF TestEnd, n
<1> QED
  BY <1>1, <1>2, <1>3, <1>4, <1>5, <1>6, <1>7 DEF n, MinBars, TestStart

\* The folds follow one another.
LEMMA FoldsInOrder ==
    ASSUME NEW w \in Walk, FoldsFit(w), NEW f \in 1..w.k, NEW g \in 1..w.k, f < g
    PROVE  TestEnd(w, f) < TestStart(w, g) /\ TestEnd(w, f) <= TrainEnd(w, g)
<1>1. /\ w.warmup \in Nat /\ w.k \in Nat \ {0} /\ FoldLen(w) \in Nat /\ FoldLen(w) >= 10
  BY Lengths DEF MinBars
<1> DEFINE n == FoldLen(w)
<1> HIDE DEF n
<1>2. n \in Nat /\ n >= 10 /\ f \in Nat /\ g \in Nat /\ f + 1 <= g /\ f < w.k
  BY <1>1 DEF n
<1>3. (f + 1) * n <= g * n /\ (f + 1) * n \in Nat /\ g * n \in Nat
  BY <1>2, Z3
<1>4. TestEnd(w, f) = w.warmup + (f + 1) * n - 1 /\ TrainEnd(w, g) = w.warmup + g * n - 1
  BY <1>2 DEF TestEnd, TrainEnd, n
<1> QED
  BY <1>1, <1>2, <1>3, <1>4 DEF TestStart

\* What is appended to a sequence comes after it.
LEMMA Appended ==
    ASSUME NEW S, NEW s \in Seq(S), NEW n \in Nat, NEW t \in [1..n -> S]
    PROVE  /\ s \o t \in Seq(S)
           /\ Len(s) \in Nat /\ Len(s \o t) = Len(s) + n
           /\ \A i \in 1..Len(s) : (s \o t)[i] = s[i]
           /\ \A i \in Len(s) + 1..Len(s) + n : (s \o t)[i] = t[i - Len(s)]
<1>1. t \in Seq(S)
  BY SeqDef
<1>2. DOMAIN t = 1..n /\ Len(t) = n
  BY <1>1, LenProperties
<1> DEFINE c == s \o t
           m == Len(s)
<1>3. m \in Nat
  BY LenProperties
<1>4. c \in Seq(S) /\ Len(c) = m + Len(t)
  BY <1>1, ConcatProperties
<1>5. \A i \in 1..m + Len(t) : c[i] = IF i <= m THEN s[i] ELSE t[i - m]
  BY <1>1, ConcatProperties
<1> HIDE DEF c, m
<1>6. \A i \in 1..m + n : c[i] = IF i <= m THEN s[i] ELSE t[i - m]
  BY <1>2, <1>5
<1>7. ASSUME NEW i \in 1..m PROVE c[i] = s[i]
  <2>1. i \in 1..m + n /\ i <= m
    BY <1>3
  <2> QED
    BY <2>1, <1>6
<1>8. ASSUME NEW i \in m + 1..m + n PROVE c[i] = t[i - m]
  <2>1. i \in 1..m + n /\ ~(i <= m)
    BY <1>3
  <2> QED
    BY <2>1, <1>6
<1> QED
  BY <1>2, <1>3, <1>4, <1>7, <1>8 DEF c, m

\* The trades of the folds that are done, and where they lie.
Placed ==
    /\ oos \in Seq([fold : Nat, entry : Nat, exit : Nat])
    /\ \A i \in 1..Len(oos) :
          /\ oos[i].fold \in 1..fold
          /\ TestStart(walk, oos[i].fold) <= oos[i].entry
          /\ oos[i].entry < oos[i].exit /\ oos[i].exit <= TestEnd(walk, oos[i].fold)
    /\ FoldsApart

FoldInv ==
    /\ fold \in Nat
    /\ walk = NoWalk => fold = 0 /\ oos = <<>>
    /\ walk # NoWalk => walk \in Walk /\ fold <= walk.k /\ (fold > 0 => FoldsFit(walk))
    /\ Placed

LEMMA RunFoldInv ==
    ASSUME FoldInv, RunFold
    PROVE  FoldInv'
<1> DEFINE f == fold + 1
<1>1. /\ walk # NoWalk /\ walk \in Walk /\ FoldsFit(walk) /\ walk' = walk
      /\ fold \in Nat /\ f \in 1..walk.k /\ fold' = f /\ walk.k \in Nat
  <2>1. walk.k \in Nat /\ walk \in Walk /\ walk # NoWalk /\ FoldsFit(walk)
    BY Lengths DEF FoldInv, RunFold
  <2> QED
    BY <2>1 DEF FoldInv, RunFold
<1>2. PICK n \in 0..MaxTrades : \E trades \in [1..n -> CountedTrades(walk, f)] :
          /\ \A i, j \in 1..n : i < j => trades[i].exit <= trades[j].entry
          /\ oos' = oos \o trades
  BY DEF RunFold
<1>3. PICK trades \in [1..n -> CountedTrades(walk, f)] :
          /\ \A i, j \in 1..n : i < j => trades[i].exit <= trades[j].entry
          /\ oos' = oos \o trades
  BY <1>2
<1>4. n \in Nat
  BY <1>2, WalkAssumption
<1>5. /\ TestStart(walk, f) \in Nat /\ TestEnd(walk, f) \in Nat
  BY <1>1, Boundaries
<1>6. \A i \in 1..n :
          /\ trades[i] \in [fold : Nat, entry : Nat, exit : Nat]
          /\ trades[i].fold = f
          /\ TestStart(walk, f) <= trades[i].entry
          /\ trades[i].entry < trades[i].exit /\ trades[i].exit <= TestEnd(walk, f)
  <2>1. SliceStart(walk, f) \in Nat /\ walk.sim \in Nat
    BY <1>1, <1>5, Lengths DEF SliceStart
  <2> SUFFICES ASSUME NEW t \in CountedTrades(walk, f)
               PROVE  /\ t \in [fold : Nat, entry : Nat, exit : Nat]
                      /\ t.fold = f
                      /\ TestStart(walk, f) <= t.entry
                      /\ t.entry < t.exit /\ t.exit <= TestEnd(walk, f)
    BY <1>3
  <2>2. /\ t \in [fold : {f}, entry : (SliceStart(walk, f) + walk.sim + 1)..TestEnd(walk, f),
                  exit : (SliceStart(walk, f) + walk.sim + 1)..TestEnd(walk, f)]
        /\ t.entry < t.exit /\ Counts(walk, t)
    BY DEF CountedTrades, SimulatedTrades
  <2> HIDE DEF f
  <2> QED
    BY <2>1, <2>2, <1>1, <1>5 DEF Counts
<1> DEFINE FoldTrade == [fold : Nat, entry : Nat, exit : Nat]
<1>7. trades \in [1..n -> FoldTrade] /\ oos \in Seq(FoldTrade)
  BY <1>3, <1>6 DEF FoldInv, Placed
<1> HIDE DEF FoldTrade
<1> DEFINE m == Len(oos)
<1>8. /\ oos \o trades \in Seq(FoldTrade)
      /\ m \in Nat /\ Len(oos \o trades) = m + n
      /\ \A i \in 1..m : (oos \o trades)[i] = oos[i]
      /\ \A i \in m + 1..m + n : (oos \o trades)[i] = trades[i - m]
  <2> HIDE DEF m, f
  <2>1. /\ Len(oos) \in Nat
        /\ oos \o trades \in Seq(FoldTrade)
        /\ Len(oos \o trades) = Len(oos) + n
        /\ \A i \in 1..Len(oos) : (oos \o trades)[i] = oos[i]
        /\ \A i \in Len(oos) + 1..Len(oos) + n : (oos \o trades)[i] = trades[i - Len(oos)]
    BY <1>4, <1>7, Appended, SMTT(60)
  <2> QED
    BY <2>1, Zenon DEF m
<1>9. /\ oos' \in Seq(FoldTrade) /\ Len(oos') = m + n
      /\ \A i \in 1..m : oos'[i] = oos[i]
      /\ \A i \in m + 1..m + n : oos'[i] = trades[i - m]
  BY <1>3, <1>8, Zenon
<1> HIDE DEF m
<1>old. \A i \in 1..m : /\ oos[i].fold \in 1..fold
                          /\ TestStart(walk, oos[i].fold) <= oos[i].entry
                          /\ oos[i].entry < oos[i].exit /\ oos[i].exit <= TestEnd(walk, oos[i].fold)
  BY DEF FoldInv, Placed, m
<1>10. ASSUME NEW i \in 1..m + n
       PROVE  /\ oos'[i].fold \in 1..f
              /\ TestStart(walk, oos'[i].fold) <= oos'[i].entry
              /\ oos'[i].entry < oos'[i].exit /\ oos'[i].exit <= TestEnd(walk, oos'[i].fold)
              /\ i > m => oos'[i].fold = f
              /\ i <= m => oos'[i].fold <= fold
  <2>1. CASE i <= m
    <3>1. i \in 1..m /\ oos'[i] = oos[i]
      BY <2>1, <1>8, <1>9
    <3>2. /\ oos'[i].fold \in 1..fold
          /\ TestStart(walk, oos'[i].fold) <= oos'[i].entry
          /\ oos'[i].entry < oos'[i].exit /\ oos'[i].exit <= TestEnd(walk, oos'[i].fold)
      BY <3>1, <1>old, Zenon
    <3>3. oos'[i].fold \in 1..f /\ oos'[i].fold <= fold
      BY <3>2, <1>1
    <3> QED
      BY <3>2, <3>3, <2>1, <1>8
  <2>2. CASE i > m
    <3>1. i - m \in 1..n /\ oos'[i] = trades[i - m]
      <4>1. m \in Nat /\ n \in Nat
        BY <1>8
      <4>2. i \in m + 1..m + n /\ i - m \in 1..n
        BY <2>2, <4>1
      <4>3. \A k \in m + 1..m + n : oos'[k] = trades[k - m]
        BY <1>9
      <4> QED
        BY <4>2, <4>3, Zenon
    <3>2. /\ oos'[i].fold = f
          /\ TestStart(walk, f) <= oos'[i].entry
          /\ oos'[i].entry < oos'[i].exit /\ oos'[i].exit <= TestEnd(walk, f)
      BY <3>1, <1>6, Zenon
    <3>3. f \in 1..f
      BY <1>1
    <3> HIDE DEF f
    <3> QED
      BY <3>2, <3>3, <2>2, <1>8
  <2> QED
    BY <2>1, <2>2, <1>8
<1>11typ. \A i \in 1..m + n : oos'[i].entry \in Nat /\ oos'[i].exit \in Nat
  <2> SUFFICES ASSUME NEW i \in 1..m + n
               PROVE  oos'[i].entry \in Nat /\ oos'[i].exit \in Nat
    OBVIOUS
  <2>1. i \in 1..Len(oos')
    BY <1>9
  <2>2. oos'[i] \in FoldTrade
    BY <2>1, <1>9, ElementOfSeq, Zenon
  <2> QED
    BY <2>2 DEF FoldTrade
<1>11. FoldsApart'
  <2> SUFFICES ASSUME NEW i \in 1..m + n, NEW j \in 1..m + n, oos'[i].fold < oos'[j].fold
               PROVE  i < j /\ oos'[i].exit < oos'[j].entry
    BY <1>9 DEF FoldsApart
  <2>typ. oos'[i].fold \in Nat /\ oos'[j].fold \in Nat /\ fold \in Nat /\ f = fold + 1
    BY <1>1, <1>10
  <2>1. CASE j <= m
    <3>1. i <= m
      <4>1. oos'[j].fold <= fold /\ (i > m => oos'[i].fold = f)
        BY <2>1, <1>10
      <4> HIDE DEF f
      <4> QED
        BY <4>1, <2>typ, <1>8
    <3>2. i \in 1..m /\ j \in 1..m /\ oos'[i] = oos[i] /\ oos'[j] = oos[j]
      BY <2>1, <3>1, <1>8, <1>9
    <3>3. \A x, y \in 1..m : oos[x].fold < oos[y].fold => x < y /\ oos[x].exit < oos[y].entry
      BY DEF FoldInv, Placed, FoldsApart, m
    <3> QED
      BY <3>2, <3>3
  <2>2. CASE j > m
    <3>1. oos'[j].fold = f
      BY <2>2, <1>10
    <3>2. i <= m
      <4>1. i > m => oos'[i].fold = f
        BY <1>10
      <4> HIDE DEF f
      <4> QED
        BY <4>1, <3>1, <2>typ, <1>8
    <3>3. /\ oos'[i].fold \in 1..fold
          /\ oos'[i].exit <= TestEnd(walk, oos'[i].fold)
          /\ TestStart(walk, f) <= oos'[j].entry
      <4>1. /\ oos'[i].fold \in 1..f /\ oos'[i].fold <= fold
            /\ oos'[i].exit <= TestEnd(walk, oos'[i].fold)
            /\ TestStart(walk, oos'[j].fold) <= oos'[j].entry
        BY <3>2, <1>10
      <4> QED
        BY <4>1, <3>1, <1>1
    <3>4. TestEnd(walk, oos'[i].fold) < TestStart(walk, f)
      BY <3>3, <1>1, FoldsInOrder
    <3>5. /\ oos'[i].exit \in Nat /\ oos'[j].entry \in Nat
          /\ TestEnd(walk, oos'[i].fold) \in Nat
      <4>1. oos'[i].fold \in 1..walk.k
        BY <3>3, <1>1
      <4> QED
        BY <4>1, <1>1, <1>11typ, Boundaries
    <3> QED
      BY <2>2, <3>2, <3>3, <3>4, <3>5, <1>5, <1>8
  <2> QED
    BY <2>1, <2>2, <1>8
<1>12. Placed'
  <2>1. \A i \in 1..Len(oos') :
          /\ oos'[i].fold \in 1..f
          /\ TestStart(walk, oos'[i].fold) <= oos'[i].entry
          /\ oos'[i].entry < oos'[i].exit /\ oos'[i].exit <= TestEnd(walk, oos'[i].fold)
    BY <1>9, <1>10
  <2> QED
    BY <2>1, <1>1, <1>9, <1>11 DEF Placed, FoldTrade
<1> QED
  BY <1>1, <1>12 DEF FoldInv, FoldsFit

LEMMA FoldStep == FoldInv /\ [WalkNext]_walkVars => FoldInv'
<1> SUFFICES ASSUME FoldInv, [WalkNext]_walkVars PROVE FoldInv'
  OBVIOUS
<1>1. CASE StartWalk
  <2>1. walk' \in Walk /\ walk' # NoWalk /\ fold' = 0 /\ oos' = <<>>
    BY <1>1, WalkAssumption DEF StartWalk, FoldInv, Walk
  <2>2. walk'.k \in Nat
    BY <2>1, WalkAssumption DEF Walk
  <2> QED
    BY <2>1, <2>2 DEF FoldInv, Placed, FoldsApart
<1>2. CASE WalkDone
  BY <1>2 DEF WalkDone, FoldInv, Placed, FoldsApart
<1>3. CASE UNCHANGED walkVars
  <2>1. walk' = walk /\ fold' = fold /\ oos' = oos
    BY <1>3 DEF walkVars
  <2>2. Placed' = Placed /\ FoldsFit(walk') = FoldsFit(walk)
    BY <2>1 DEF Placed, FoldsApart
  <2> QED
    BY <2>1, <2>2 DEF FoldInv
<1> QED
  BY <1>1, <1>2, <1>3, RunFoldInv DEF WalkNext

LEMMA FoldInvariant == WalkSpec => []FoldInv
<1>1. WalkInit => FoldInv
  BY DEF WalkInit, FoldInv, Placed, FoldsApart
<1> QED
  BY <1>1, FoldStep, PTL DEF WalkSpec

(* WalkForwardOptimizer.run counts no trade as out of sample that has seen  *)
(* its training data or reaches into the next test, for every length of the *)
(* series, number of folds and warmup, also when the simulator has another. *)
THEOREM TradesOutOfSample == WalkSpec => []OutOfSample
<1>1. FoldInv => OutOfSample
  <2> SUFFICES ASSUME FoldInv, NEW i \in 1..Len(oos)
               PROVE  /\ TrainEnd(walk, oos[i].fold) + 1 < oos[i].entry
                      /\ oos[i].exit <= TestEnd(walk, oos[i].fold)
                      /\ oos[i].fold < walk.k => oos[i].exit < TestStart(walk, oos[i].fold + 1)
    BY DEF OutOfSample
  <2>1. oos # <<>> /\ oos[i].fold \in 1..fold /\ fold \in Nat
    BY DEF FoldInv, Placed
  <2>2. walk # NoWalk /\ walk \in Walk /\ FoldsFit(walk) /\ fold <= walk.k /\ walk.k \in Nat
    BY <2>1, Lengths DEF FoldInv
  <2>3. oos[i].fold \in 1..walk.k /\ oos[i] \in [fold : Nat, entry : Nat, exit : Nat]
    <3>1. oos[i] \in [fold : Nat, entry : Nat, exit : Nat]
      BY ElementOfSeq DEF FoldInv, Placed
    <3> QED
      BY <3>1, <2>1, <2>2
  <2>4. /\ TrainEnd(walk, oos[i].fold) \in Nat /\ TestEnd(walk, oos[i].fold) \in Nat
        /\ TestStart(walk, oos[i].fold) = TrainEnd(walk, oos[i].fold) + 2
    BY <2>2, <2>3, Boundaries
  <2>5. /\ TestStart(walk, oos[i].fold) <= oos[i].entry
        /\ oos[i].exit <= TestEnd(walk, oos[i].fold)
    BY DEF FoldInv, Placed
  <2>6. ASSUME oos[i].fold < walk.k
        PROVE  oos[i].exit < TestStart(walk, oos[i].fold + 1)
    <3>1. oos[i].fold + 1 \in 1..walk.k
      BY <2>2, <2>3, <2>6
    <3>2. /\ TestEnd(walk, oos[i].fold) < TestStart(walk, oos[i].fold + 1)
          /\ TestStart(walk, oos[i].fold + 1) \in Nat
      BY <3>1, <2>2, <2>3, FoldsInOrder, Boundaries
    <3> QED
      BY <3>2, <2>3, <2>4, <2>5
  <2> QED
    BY <2>3, <2>4, <2>5, <2>6
<1> QED
  BY <1>1, FoldInvariant, PTL

(* The combined list has the trades of a fold after those of the folds       *)
(* before it, in the list and in time.                                       *)
THEOREM CombinedByFold == WalkSpec => []FoldsApart
<1>1. FoldInv => FoldsApart
  BY DEF FoldInv, Placed
<1> QED
  BY <1>1, FoldInvariant, PTL

(* What WalkForwardOptimizer.run lists of a fold owes nothing to the         *)
(* training of that fold nor to another fold.                                *)
THEOREM ListIsOutOfSample == WalkSpec => []TradesAreOutOfSample
<1>1. OutOfSample /\ FoldsApart => TradesAreOutOfSample
  BY DEF TradesAreOutOfSample
<1> QED
  BY <1>1, TradesOutOfSample, CombinedByFold, PTL

(* walk_forward_folds cuts no fold that a simulator with the same warmup    *)
(* would refuse, unless the folds have exactly ten bars.                    *)
THEOREM OnlyShortestSkipped == WalkSpec => []SkippedOnlyShortest
<1>1. FoldInv => SkippedOnlyShortest
  <2> SUFFICES ASSUME FoldInv, walk # NoWalk, FoldsFit(walk), walk.sim <= walk.warmup,
                      NEW f \in 1..walk.k, FoldLen(walk) # MinBars
               PROVE  Simulated(walk, f)
    BY DEF SkippedOnlyShortest
  <2>1. walk \in Walk
    BY DEF FoldInv
  <2>2. /\ walk.warmup \in Nat /\ walk.sim \in Nat
        /\ FoldLen(walk) \in Nat /\ FoldLen(walk) > 10
    BY <2>1, Lengths DEF MinBars
  <2>3. /\ TrainEnd(walk, f) \in Nat /\ TestEnd(walk, f) \in Nat
        /\ TrainEnd(walk, f) >= walk.warmup + 9
        /\ TestStart(walk, f) = TrainEnd(walk, f) + 2
        /\ TestEnd(walk, f) >= TrainEnd(walk, f) + FoldLen(walk)
    BY <2>1, Boundaries DEF MinBars
  <2> QED
    BY <2>2, <2>3 DEF Simulated, SliceBars, SliceStart, MinBars
<1> QED
  BY <1>1, FoldInvariant, PTL

\* Between the training of a fold and the end of its test no other is tested.
LEMMA NoOtherFold ==
    ASSUME NEW w \in Walk, FoldsFit(w), NEW f \in 1..w.k, NEW g \in 1..w.k, f # g,
           NEW aBar \in Nat, TrainEnd(w, f) < aBar, aBar <= TestEnd(w, f)
    PROVE  ~(TestStart(w, g) <= aBar /\ aBar <= TestEnd(w, g))
<1>1. f \in Nat /\ g \in Nat
  BY Lengths
<1>2. /\ TrainEnd(w, f) \in Nat /\ TestEnd(w, f) \in Nat
      /\ TestStart(w, g) \in Nat /\ TestEnd(w, g) \in Nat
  BY Boundaries
<1>3. CASE f < g
  BY <1>2, <1>3, FoldsInOrder
<1>4. CASE g < f
  BY <1>2, <1>4, FoldsInOrder
<1> QED
  BY <1>1, <1>3, <1>4

\* Every bar after the first training lies in one fold.
LEMMA SomeFold ==
    ASSUME NEW w \in Walk, FoldsFit(w), NEW aBar \in (TrainEnd(w, 1) + 1)..(w.bars - 1)
    PROVE  \E f \in 1..w.k : TrainEnd(w, f) < aBar /\ aBar <= TestEnd(w, f)
<1>1. /\ w.bars \in Nat /\ w.warmup \in Nat /\ w.k \in Nat \ {0}
      /\ FoldLen(w) \in Nat /\ FoldLen(w) >= 10
  BY Lengths DEF MinBars
<1> DEFINE n == FoldLen(w)
           x == aBar - w.warmup
           q == x \div n
<1>2. TrainEnd(w, 1) = w.warmup + n - 1
  <2>1. 1 * n = n
    BY <1>1
  <2> QED
    BY <2>1 DEF TrainEnd
<1>3. n \in Nat /\ n >= 10 /\ x \in Nat /\ x >= n /\ aBar \in Int /\ aBar <= w.bars - 1
  BY <1>1, <1>2
<1> HIDE DEF n, x
<1>4. /\ q \in Nat /\ q * n <= x /\ x < q * n + n
  BY <1>3, Z3
<1>5. q >= 1
  <2> SUFFICES ASSUME q = 0 PROVE FALSE
    BY <1>4
  <2>1. q * n = 0
    BY <1>3, Z3
  <2> QED
    BY <1>3, <1>4, <2>1
<1> HIDE DEF q
<1>6. /\ \A f : TrainEnd(w, f) = w.warmup + f * n - 1
      /\ \A f : f < w.k => TestEnd(w, f) = w.warmup + (f + 1) * n - 1
      /\ TestEnd(w, w.k) = w.bars - 1
  BY <1>1 DEF TrainEnd, TestEnd, n
<1>7. CASE q < w.k
  <2>1. (q + 1) * n = q * n + n /\ q * n \in Nat
    BY <1>3, <1>4, Z3
  <2>2. q \in 1..w.k
    BY <1>1, <1>4, <1>5, <1>7
  <2>3. TrainEnd(w, q) < aBar /\ aBar <= TestEnd(w, q)
    BY <1>1, <1>3, <1>4, <1>6, <1>7, <2>1 DEF x
  <2> QED
    BY <2>2, <2>3
<1>8. CASE q >= w.k
  <2>1. w.k * n <= q * n /\ w.k * n \in Nat /\ q * n \in Nat
    BY <1>1, <1>3, <1>4, <1>8, Z3
  <2>2. TrainEnd(w, w.k) < aBar /\ aBar <= TestEnd(w, w.k)
    BY <1>1, <1>3, <1>4, <1>6, <2>1 DEF x
  <2>3. w.k \in 1..w.k
    BY <1>1
  <2> QED
    BY <2>2, <2>3
<1> QED
  BY <1>1, <1>4, <1>7, <1>8

(* The tests cover what the first training leaves, but for the bar that     *)
(* separates each of them from its training, and no bar is tested twice.    *)
THEOREM EveryBarTestedOnce == WalkSpec => []TestedOnce
<1>1. FoldInv => TestedOnce
  <2> SUFFICES ASSUME FoldInv, walk # NoWalk, FoldsFit(walk),
                      NEW aBar \in (TrainEnd(walk, 1) + 1)..(walk.bars - 1)
               PROVE  \/ \E f \in 1..walk.k : aBar = TrainEnd(walk, f) + 1
                               /\ TestedIn(walk, aBar) = {}
                      \/ \E f \in 1..walk.k : TestedIn(walk, aBar) = {f}
    BY DEF TestedOnce
  <2>1. walk \in Walk
    BY DEF FoldInv
  <2>2. PICK f \in 1..walk.k : TrainEnd(walk, f) < aBar /\ aBar <= TestEnd(walk, f)
    BY <2>1, SomeFold
  <2>3. TrainEnd(walk, f) \in Nat /\ TestStart(walk, f) = TrainEnd(walk, f) + 2 /\ aBar \in Int
    BY <2>1, Boundaries
  <2>4. aBar \in Nat
    BY <2>2, <2>3
  <2>5. ASSUME NEW g \in TestedIn(walk, aBar) PROVE g = f
    BY <2>1, <2>2, <2>4, <2>5, NoOtherFold DEF TestedIn
  <2>6. CASE aBar = TrainEnd(walk, f) + 1
    <3>1. f \notin TestedIn(walk, aBar)
      BY <2>3, <2>6 DEF TestedIn
    <3> QED
      BY <2>5, <2>6, <3>1
  <2>7. CASE aBar # TrainEnd(walk, f) + 1
    <3>1. f \in TestedIn(walk, aBar)
      BY <2>2, <2>3, <2>7 DEF TestedIn
    <3>2. TestedIn(walk, aBar) = {f}
      BY <2>5, <3>1
    <3> QED
      BY <3>2
  <2> QED
    BY <2>6, <2>7
<1> QED
  BY <1>1, FoldInvariant, PTL

(* For every length of the series, number of folds and warmup.              *)
THEOREM FoldsCover == WalkSpec => []FoldsAreWhole
<1>1. TestedOnce /\ SkippedOnlyShortest => FoldsAreWhole
  BY DEF FoldsAreWhole
<1> QED
  BY <1>1, EveryBarTestedOnce, OnlyShortestSkipped, PTL

-----------------------------------------------------------------------------
(* The chunks of a gap. *)

(* Neighbours in order are all in order. *)
LEMMA InOrderThroughout ==
    ASSUME NEW s \in Seq(Nat), Increasing(s)
    PROVE  \A i, j \in 1..Len(s) : i < j => s[i] < s[j]
<1> SUFFICES ASSUME NEW i \in 1..Len(s) PROVE \A j \in 1..Len(s) : i < j => s[i] < s[j]
  OBVIOUS
<1> DEFINE A == {n \in Nat : i + n + 1 <= Len(s) => s[i] < s[i + n + 1]}
<1>0. \A l \in 1..Len(s) : s[l] \in Nat
  OBVIOUS
<1>1. 0 \in A
  BY DEF Increasing
<1>2. ASSUME NEW n \in Nat, n \in A PROVE n + 1 \in A
  <2> SUFFICES ASSUME i + (n + 1) + 1 <= Len(s) PROVE s[i] < s[i + (n + 1) + 1]
    OBVIOUS
  <2> DEFINE l == i + n + 1
  <2>1. l \in 1..Len(s) /\ l + 1 \in 2..Len(s) /\ (l + 1) - 1 = l /\ l + 1 = i + (n + 1) + 1
    OBVIOUS
  <2>2. s[i] < s[l]
    BY <1>2, <2>1
  <2> HIDE DEF l
  <2>3. s[l] < s[l + 1] /\ l + 1 \in 1..Len(s)
    BY <2>1 DEF Increasing
  <2> QED
    BY <1>0, <2>1, <2>2, <2>3
<1> HIDE DEF A
<1>3. Nat \subseteq A
  BY <1>1, <1>2, Induction
<1>4. ASSUME NEW j \in 1..Len(s), i < j PROVE s[i] < s[j]
  <2>1. j - i - 1 \in Nat /\ i + (j - i - 1) + 1 = j
    BY <1>4
  <2>2. j - i - 1 \in A
    BY <1>3, <2>1
  <2> QED
    BY <2>1, <2>2 DEF A
<1> QED
  BY <1>4

(* The report finds the gaps that detect_gaps finds, and is valid for the   *)
(* series that are increasing.                                              *)
LEMMA ReportAgrees ==
    ASSUME NEW s \in Seq(Nat)
    PROVE  /\ ReportOf(s).gaps = DetectedGaps(s)
           /\ ReportOf(s).valid <=> Increasing(s)
<1> DEFINE G == {i \in 2..Len(s) : s[i] > s[i - 1] /\ s[i] - s[i - 1] > Interval}
           H == {i \in 2..Len(s) : s[i] - s[i - 1] > Interval}
           twice == {i \in 1..Len(s) : \E j \in 1..(i - 1) : s[j] = s[i]}
           back == {i \in 2..Len(s) : s[i] <= s[i - 1]}
<1>0. \A i \in 1..Len(s) : s[i] \in Nat
  OBVIOUS
<1>1. G = H
  <2>1. \A i \in 2..Len(s) : s[i] \in Nat /\ s[i - 1] \in Nat
    BY <1>0
  <2> QED
    BY <2>1, BackfillAssumption
<1>2. ReportOf(s).gaps = DetectedGaps(s)
  <2> HIDE DEF G, H
  <2> DEFINE where == Where(s, G)
             found == [n \in 1..Len(where) |-> GapBefore(s, where[n])]
  <2>1. ReportOf(s).gaps = found
    BY DEF ReportOf, G
  <2>2. DetectedGaps(s) = found
    BY <1>1 DEF DetectedGaps, H
  <2> QED
    BY <2>1, <2>2
<1>3. ReportOf(s).valid <=> twice = {} /\ back = {}
  BY DEF ReportOf
<1>4. back = {} <=> Increasing(s)
  <2>1. \A i \in 2..Len(s) : ~(s[i] <= s[i - 1]) <=> s[i - 1] < s[i]
    <3> SUFFICES ASSUME NEW i \in 2..Len(s)
                 PROVE  ~(s[i] <= s[i - 1]) <=> s[i - 1] < s[i]
      OBVIOUS
    <3>1. s[i] \in Nat /\ s[i - 1] \in Nat
      BY <1>0
    <3> QED
      BY <3>1
  <2>2. back = {} <=> \A i \in 2..Len(s) : ~(s[i] <= s[i - 1])
    BY Zenon
  <2> QED
    BY <2>1, <2>2, Zenon DEF Increasing
<1>5. Increasing(s) => twice = {}
  <2> SUFFICES ASSUME Increasing(s), NEW i \in 1..Len(s), NEW j \in 1..(i - 1), s[j] = s[i]
               PROVE  FALSE
    OBVIOUS
  <2>1. j \in 1..Len(s) /\ j < i
    OBVIOUS
  <2>2. s[j] < s[i]
    BY <2>1, InOrderThroughout
  <2> QED
    BY <1>0, <2>1, <2>2
<1> QED
  BY <1>2, <1>3, <1>4, <1>5, Zenon

Grid(s) == {t \in Int : (t - s[1]) % Interval = 0}

(* What is a whole number of intervals away from the grid is on it; two     *)
(* points of it are a whole number of intervals apart.                      *)
LEMMA GridSteps ==
    ASSUME NEW s \in Seq(Nat), s # <<>>, NEW t \in Grid(s)
    PROVE  /\ \A k \in Int : t + k * Interval \in Grid(s)
           /\ \A u \in Grid(s) : (u - t) % Interval = 0
           /\ \A u \in Grid(s) : t < u => t + Interval <= u
<1> DEFINE a == s[1]
<1>1. a \in Int /\ Interval \in Nat \ {0}
  BY BackfillAssumption
<1> HIDE DEF a
<1>2. ASSUME NEW u \in Grid(s) PROVE \E k \in Int : u = a + k * Interval
  <2> DEFINE q == (u - a) \div Interval
  <2>1. u - a \in Int /\ (u - a) % Interval = 0 /\ u \in Int
    BY <1>1 DEF Grid, a
  <2>2. q \in Int /\ u - a = Interval * q + ((u - a) % Interval)
    BY <1>1, <2>1, Division
  <2> HIDE DEF q
  <2>3. u = a + q * Interval
    BY <1>1, <2>1, <2>2, Z3
  <2> QED
    BY <2>2, <2>3
<1>3. PICK k \in Int : t = a + k * Interval
  BY <1>2
<1>4. ASSUME NEW l \in Int PROVE t + l * Interval \in Grid(s)
  <2>1. (t + l * Interval) - a = (k + l) * Interval /\ k + l \in Int /\ t + l * Interval \in Int
    BY <1>1, <1>3, Z3
  <2>2. ((k + l) * Interval) % Interval = 0
    BY <1>1, <2>1, MultipleMod
  <2>3. ((t + l * Interval) - a) % Interval = 0
    BY <2>1, <2>2
  <2> QED
    BY <2>1, <2>3 DEF Grid, a
<1>5. ASSUME NEW u \in Grid(s)
      PROVE  (u - t) % Interval = 0 /\ (t < u => t + Interval <= u)
  <2>1. PICK l \in Int : u = a + l * Interval
    BY <1>2
  <2>2. u - t = (l - k) * Interval /\ l - k \in Int
    BY <1>1, <1>3, <2>1, Z3
  <2>3. ((l - k) * Interval) % Interval = 0
    BY <1>1, <2>2, MultipleMod
  <2>4. (u - t) % Interval = 0
    BY <2>2, <2>3
  <2>5. ASSUME t < u PROVE t + Interval <= u
    <3>1. t \in Int /\ u \in Int
      BY DEF Grid
    <3>2. (l - k) * Interval > 0
      BY <2>2, <2>5, <3>1
    <3>3. l - k >= 1
      <4> SUFFICES ASSUME l - k <= 0 PROVE FALSE
        BY <2>2
      <4>1. (l - k) * Interval <= 0
        BY <1>1, <2>2, Z3
      <4> QED
        BY <1>1, <2>2, <3>1, <3>2, <4>1
    <3>4. (l - k) * Interval >= Interval
      BY <1>1, <2>2, <3>3, Z3
    <3> QED
      BY <1>1, <2>2, <3>1, <3>4
  <2> QED
    BY <2>4, <2>5
<1> QED
  BY <1>4, <1>5

\* A series whose candles are in order and on the grid of the interval.
Sound(s) == s # <<>> /\ Increasing(s) /\ OnGrid(s)

GapAt(s, i) == i \in 2..Len(s) /\ s[i] - s[i - 1] > Interval

(* detect_gaps returns the gap before every candle that has one, in order. *)
LEMMA GapsAreThose ==
    ASSUME NEW s \in Seq(Nat)
    PROVE  LET d == DetectedGaps(s)
           IN  /\ d \in Seq(Span)
               /\ \A n \in 1..Len(d) : \E i \in 2..Len(s) : GapAt(s, i) /\ d[n] = GapBefore(s, i)
               /\ \A i \in 2..Len(s) : GapAt(s, i) => \E n \in 1..Len(d) : d[n] = GapBefore(s, i)
               /\ \A m, n \in 1..Len(d) : m < n =>
                     \E i, j \in 2..Len(s) :
                         i < j /\ d[m] = GapBefore(s, i) /\ d[n] = GapBefore(s, j)
<1> DEFINE H == {i \in 2..Len(s) : s[i] - s[i - 1] > Interval}
           where == Where(s, H)
           d == [n \in 1..Len(where) |-> GapBefore(s, where[n])]
<1>1. Enumerates(where, H)
  <2>1. H \in SUBSET (1..Len(s))
    OBVIOUS
  <2> HIDE DEF H
  <2> QED
    BY <2>1, WhereLists
<1>2. DetectedGaps(s) = d
  BY DEF DetectedGaps
<1>3. where \in Seq(H) /\ Len(where) \in Nat /\ \A n \in 1..Len(where) : where[n] \in H
  <2> HIDE DEF H, where
  <2> QED
    BY <1>1 DEF Enumerates
<1>4. \A i \in 2..Len(s) : i \in H <=> GapAt(s, i)
  BY DEF GapAt
<1>5. H \subseteq 2..Len(s)
  OBVIOUS
<1> HIDE DEF H, where
<1>6. ASSUME NEW i \in 2..Len(s) PROVE GapBefore(s, i) \in Span
  <2>1. s[i - 1] \in Nat /\ s[i] \in Nat
    OBVIOUS
  <2> QED
    BY <2>1, BackfillAssumption DEF GapBefore, Span
<1>7. d \in Seq(Span) /\ Len(d) = Len(where)
  <2>1. d \in [1..Len(where) -> Span]
    BY <1>3, <1>5, <1>6
  <2> QED
    BY <1>3, <2>1, AsSeq
<1>8. \A n \in 1..Len(d) : \E i \in 2..Len(s) : GapAt(s, i) /\ d[n] = GapBefore(s, i)
  BY <1>3, <1>4, <1>5, <1>7
<1>9. ASSUME NEW i \in 2..Len(s), GapAt(s, i) PROVE \E n \in 1..Len(d) : d[n] = GapBefore(s, i)
  <2>1. PICK n \in 1..Len(where) : where[n] = i
    BY <1>1, <1>4, <1>9 DEF Enumerates
  <2> QED
    BY <1>7, <2>1
<1>10. ASSUME NEW m \in 1..Len(d), NEW n \in 1..Len(d), m < n
       PROVE  \E i, j \in 2..Len(s) :
                  i < j /\ d[m] = GapBefore(s, i) /\ d[n] = GapBefore(s, j)
  <2>1. where[m] < where[n] /\ where[m] \in 2..Len(s) /\ where[n] \in 2..Len(s)
    BY <1>1, <1>3, <1>5, <1>7, <1>10 DEF Enumerates
  <2>2. d[m] = GapBefore(s, where[m]) /\ d[n] = GapBefore(s, where[n])
    BY <1>7
  <2> QED
    BY <2>1, <2>2
<1> HIDE DEF d
<1> QED
  BY <1>2, <1>7, <1>8, <1>9, <1>10

(* In a sound series the gaps lie on the grid one after the other, and hold *)
(* just the bars that the series has not.                                   *)
LEMMA GapsOfSound ==
    ASSUME NEW s \in Seq(Nat), Sound(s)
    PROVE  LET d == DetectedGaps(s)
           IN  /\ \A n \in 1..Len(d) : d[n].start \in Grid(s) /\ d[n].end \in Grid(s)
               /\ \A m, n \in 1..Len(d) : m < n => d[m].end < d[n].start
               /\ \A t \in Grid(s) : t \in s[1]..s[Len(s)] =>
                     (t \in Stamps(s) <=> ~\E n \in 1..Len(d) : t \in d[n].start..d[n].end)
<1> DEFINE d == DetectedGaps(s)
<1>0. /\ Interval \in Nat \ {0} /\ s # <<>> /\ Len(s) \in Nat /\ 1 \in 1..Len(s)
      /\ \A i \in 1..Len(s) : s[i] \in Nat
      /\ \A i, j \in 1..Len(s) : i < j => s[i] < s[j]
  BY BackfillAssumption, InOrderThroughout DEF Sound
<1>1. /\ \A n \in 1..Len(d) : \E i \in 2..Len(s) : GapAt(s, i) /\ d[n] = GapBefore(s, i)
      /\ \A i \in 2..Len(s) : GapAt(s, i) => \E n \in 1..Len(d) : d[n] = GapBefore(s, i)
      /\ \A m, n \in 1..Len(d) : m < n =>
            \E i, j \in 2..Len(s) :
                i < j /\ d[m] = GapBefore(s, i) /\ d[n] = GapBefore(s, j)
  BY GapsAreThose
<1> HIDE DEF d
<1>2. ASSUME NEW i \in 1..Len(s) PROVE s[i] \in Grid(s)
  <2>1. CASE i = 1
    <3>1. (0 * Interval) % Interval = 0 /\ 0 * Interval = 0
      BY <1>0, MultipleMod
    <3> QED
      BY <1>0, <2>1, <3>1 DEF Grid
  <2>2. CASE i # 1
    BY <1>0, <2>2 DEF Grid, Sound, OnGrid
  <2> QED
    BY <2>1, <2>2
<1>3. ASSUME NEW i \in 1..Len(s)
      PROVE  s[i] + Interval \in Grid(s) /\ s[i] - Interval \in Grid(s)
  <2>1. s[i] \in Grid(s) /\ s[i] \in Int
    BY <1>0, <1>2
  <2>2. s[i] + 1 * Interval \in Grid(s) /\ s[i] + (-1) * Interval \in Grid(s)
    <3>1. \A k \in Int : s[i] + k * Interval \in Grid(s)
      BY <1>0, <2>1, GridSteps
    <3>2. 1 \in Int /\ -1 \in Int
      OBVIOUS
    <3> QED
      BY <3>1, <3>2
  <2>3. s[i] + 1 * Interval = s[i] + Interval /\ s[i] + (-1) * Interval = s[i] - Interval
    BY <1>0, <2>1
  <2> QED
    BY <2>2, <2>3
<1>4. ASSUME NEW n \in 1..Len(d) PROVE d[n].start \in Grid(s) /\ d[n].end \in Grid(s)
  <2>1. PICK i \in 2..Len(s) : d[n] = GapBefore(s, i)
    BY <1>1
  <2>2. i \in 1..Len(s) /\ i - 1 \in 1..Len(s)
    BY <1>0
  <2>3. d[n].start = s[i - 1] + Interval /\ d[n].end = s[i] - Interval
    BY <2>1 DEF GapBefore
  <2> QED
    BY <1>3, <2>2, <2>3
<1>5. ASSUME NEW m \in 1..Len(d), NEW n \in 1..Len(d), m < n PROVE d[m].end < d[n].start
  <2>1. PICK i \in 2..Len(s), j \in 2..Len(s) :
            i < j /\ d[m] = GapBefore(s, i) /\ d[n] = GapBefore(s, j)
    BY <1>1, <1>5
  <2>2. d[m].end = s[i] - Interval /\ d[n].start = s[j - 1] + Interval
    BY <2>1 DEF GapBefore
  <2>3. i \in 1..Len(s) /\ j - 1 \in 1..Len(s) /\ (i = j - 1 \/ i < j - 1)
    BY <1>0, <2>1
  <2>4. s[i] \in Nat /\ s[j - 1] \in Nat /\ s[i] <= s[j - 1]
    BY <1>0, <2>3
  <2> DEFINE a == s[i]
             b == s[j - 1]
  <2>5. a \in Nat /\ b \in Nat /\ a <= b /\ Interval \in Nat \ {0}
    BY <1>0, <2>4
  <2> HIDE DEF a, b
  <2>6. a - Interval < b + Interval
    BY <2>5
  <2>7. d[m].end = a - Interval /\ d[n].start = b + Interval
    BY <2>2 DEF a, b
  <2> QED
    BY <2>6, <2>7
<1>6. ASSUME NEW t \in Grid(s), t \in s[1]..s[Len(s)]
      PROVE  t \in Stamps(s) <=> ~\E n \in 1..Len(d) : t \in d[n].start..d[n].end
  <2>0. t \in Int
    BY DEF Grid
  <2>1. ASSUME t \in Stamps(s), NEW n \in 1..Len(d), t \in d[n].start..d[n].end PROVE FALSE
    <3>1. PICK j \in 1..Len(s) : t = s[j]
      BY <2>1 DEF Stamps
    <3>2. PICK i \in 2..Len(s) : d[n] = GapBefore(s, i)
      BY <1>1
    <3>3. d[n].start = s[i - 1] + Interval /\ d[n].end = s[i] - Interval
      BY <3>2 DEF GapBefore
    <3>4. i \in 1..Len(s) /\ i - 1 \in 1..Len(s) /\ s[i] \in Nat /\ s[i - 1] \in Nat
      BY <1>0
    <3> DEFINE a == s[i - 1]
               b == s[i]
    <3>5. t \in a + Interval..b - Interval /\ a \in Nat /\ b \in Nat /\ Interval \in Nat \ {0}
      BY <1>0, <2>1, <3>3, <3>4
    <3> HIDE DEF a, b
    <3>6. a < t /\ t < b
      BY <2>0, <3>5
    <3>7. CASE j <= i - 1
      <4>1. j = i - 1 \/ j < i - 1
        BY <3>7
      <4>2. s[j] <= s[i - 1]
        BY <1>0, <3>4, <4>1
      <4> QED
        BY <2>0, <3>1, <3>5, <3>6, <4>2 DEF a
    <3>8. CASE i <= j
      <4>1. j = i \/ i < j
        BY <3>8
      <4>2. s[i] <= s[j]
        BY <1>0, <3>4, <4>1
      <4> QED
        BY <2>0, <3>1, <3>5, <3>6, <4>2 DEF b
    <3> QED
      BY <3>7, <3>8
  <2>2. ASSUME t \notin Stamps(s) PROVE \E n \in 1..Len(d) : t \in d[n].start..d[n].end
    <3> DEFINE Later == {i \in 1..Len(s) : s[i] >= t}
    <3>1. Len(s) \in Later /\ Later \in SUBSET Nat
      BY <1>0, <1>6, <2>0
    <3>2. PICK i \in Later : \A l \in Later : i <= l
      BY <3>1, LeastElement
    <3>3. i \in 1..Len(s) /\ s[i] \in Nat /\ s[i] # t /\ s[i] > t
      BY <1>0, <2>0, <2>2 DEF Stamps
    <3>4. i # 1
      BY <1>0, <1>6, <2>0, <3>3
    <3>5. i \in 2..Len(s) /\ i - 1 \in 1..Len(s) /\ i - 1 \notin Later
      BY <1>0, <3>2, <3>3, <3>4
    <3>6. s[i - 1] \in Nat /\ s[i - 1] < t
      BY <1>0, <2>0, <3>5
    <3> HIDE DEF Later
    <3>7. s[i - 1] + Interval <= t
      <4>1. s[i - 1] \in Grid(s)
        BY <1>2, <3>5
      <4> QED
        BY <1>0, <3>6, <4>1, GridSteps
    <3>8. t + Interval <= s[i]
      <4>1. s[i] \in Grid(s)
        BY <1>2, <3>3
      <4> QED
        BY <1>0, <3>3, <4>1, GridSteps
    <3>9. GapAt(s, i)
      BY <1>0, <2>0, <3>3, <3>5, <3>6, <3>7, <3>8 DEF GapAt
    <3>10. PICK n \in 1..Len(d) : d[n] = GapBefore(s, i)
      BY <1>1, <3>5, <3>9
    <3>11. d[n].start = s[i - 1] + Interval /\ d[n].end = s[i] - Interval
      BY <3>10 DEF GapBefore
    <3>12. t \in d[n].start..d[n].end
      BY <1>0, <2>0, <3>3, <3>6, <3>7, <3>8, <3>11
    <3> QED
      BY <3>12
  <2> QED
    BY <2>1, <2>2
<1> QED
  BY <1>4, <1>5, <1>6 DEF d

\* One chunk begins where the one before ended, and the next one begins at
\* the cursor.
Tiled ==
    /\ chunks \in Seq(Span) /\ cursor \in Int
    /\ \A i \in 1..Len(chunks) :
          /\ chunks[i].start = IF i = 1 THEN gaps[gap].start ELSE chunks[i - 1].end + Interval
          /\ chunks[i].start <= chunks[i].end /\ chunks[i].end <= gaps[gap].end
          /\ chunks[i].end - chunks[i].start <= (MaxChunk - 1) * Interval
    /\ cursor = IF chunks = <<>> THEN gaps[gap].start ELSE chunks[Len(chunks)].end + Interval

TileInv ==
    /\ gaps \in Seq(Span) /\ gap \in 0..Len(gaps)
    /\ series = NoSeries => gap = 0
    /\ gap > 0 => Tiled

(* One more chunk continues the tiling of its gap.                          *)
LEMMA PlanChunkTiles ==
    ASSUME TileInv, PlanChunk PROVE TileInv'
<1> DEFINE g == gaps[gap]
           e == ChunkEnd(cursor, g.end)
           c == [start |-> cursor, end |-> e]
           m == Len(chunks)
<1>1. /\ gap > 0 /\ gap \in 1..Len(gaps) /\ gaps \in Seq(Span)
      /\ gap' = gap /\ gaps' = gaps /\ series' = series /\ series # NoSeries
      /\ chunks' = Append(chunks, c) /\ cursor' = e + Interval
      /\ ~(cursor > g.end)
  BY DEF TileInv, PlanChunk, GapDone, NextStart
<1>2. g \in Span
  BY <1>1, ElementOfSeq
<1>3. g.start \in Int /\ g.end \in Int /\ Interval \in Nat \ {0} /\ MaxChunk \in Nat \ {0}
  BY <1>2, BackfillAssumption DEF Span
<1>4. Tiled
  BY <1>1 DEF TileInv
<1>5. chunks \in Seq(Span) /\ cursor \in Int /\ m \in Nat
  BY <1>4 DEF Tiled
<1>6. /\ e \in Int /\ cursor <= e /\ e <= g.end /\ e - cursor <= (MaxChunk - 1) * Interval
  <2> DEFINE p == MaxChunk * Interval
  <2>1. p \in Int /\ p >= Interval /\ (MaxChunk - 1) * Interval = p - Interval
    BY <1>3, Z3
  <2>2. e = IF cursor + p - Interval < g.end THEN cursor + p - Interval ELSE g.end
    BY DEF ChunkEnd
  <2> HIDE DEF p, e, g
  <2> QED
    BY <1>1, <1>3, <1>5, <2>1, <2>2, SMTT(30)
<1> HIDE DEF e
<1>7. c \in Span /\ c.start = cursor /\ c.end = e
  BY <1>5, <1>6 DEF Span
<1> HIDE DEF c
<1>8. /\ chunks' \in Seq(Span) /\ Len(chunks') = m + 1
      /\ \A i \in 1..m : chunks'[i] = chunks[i]
      /\ chunks'[m + 1] = c
  BY <1>1, <1>5, <1>7, AppendProperties
<1>9. cursor = IF m = 0 THEN g.start ELSE chunks[m].end + Interval
  BY <1>4, <1>5, EmptySeq DEF Tiled
<1>10. \A i \in 1..m :
          /\ chunks[i].start = IF i = 1 THEN g.start ELSE chunks[i - 1].end + Interval
          /\ chunks[i].start <= chunks[i].end /\ chunks[i].end <= g.end
          /\ chunks[i].end - chunks[i].start <= (MaxChunk - 1) * Interval
  BY <1>4 DEF Tiled
<1> HIDE DEF m, g
<1>11. ASSUME NEW i \in 1..m + 1
       PROVE  /\ chunks'[i].start = IF i = 1 THEN g.start ELSE chunks'[i - 1].end + Interval
              /\ chunks'[i].start <= chunks'[i].end /\ chunks'[i].end <= g.end
              /\ chunks'[i].end - chunks'[i].start <= (MaxChunk - 1) * Interval
  <2>1. CASE i <= m
    <3>1. i \in 1..m /\ (i # 1 => i - 1 \in 1..m)
      BY <2>1, <1>5
    <3>2. chunks'[i] = chunks[i] /\ (i # 1 => chunks'[i - 1] = chunks[i - 1])
      BY <3>1, <1>8
    <3> QED
      BY <3>1, <3>2, <1>10
  <2>2. CASE i = m + 1
    <3>1. chunks'[i] = c
      BY <2>2, <1>8
    <3>2. m # 0 => i # 1 /\ i - 1 = m /\ chunks'[m] = chunks[m]
      BY <2>2, <1>5, <1>8
    <3> QED
      BY <3>1, <3>2, <2>2, <1>5, <1>6, <1>7, <1>9
  <2> QED
    BY <2>1, <2>2, <1>5
<1>12. chunks' # <<>> /\ cursor' = chunks'[Len(chunks')].end + Interval /\ cursor' \in Int
  BY <1>1, <1>3, <1>5, <1>6, <1>7, <1>8, EmptySeq, SMTT(30)
<1>13. gaps'[gap'] = g
  BY <1>1 DEF g
<1> QED
  BY <1>1, <1>8, <1>11, <1>12, <1>13 DEF TileInv, Tiled

(* Every step keeps the chunks a tiling of the gaps.                        *)
LEMMA TileStep == TileInv /\ [FillNext]_fillVars => TileInv'
<1> SUFFICES ASSUME TileInv, [FillNext]_fillVars PROVE TileInv'
  OBVIOUS
<1>1. CASE Inspect
  <2>1. series' \in Seq(Nat) /\ gaps' = DetectedGaps(series') /\ gap' = gap /\ gap = 0
    BY <1>1, BackfillAssumption DEF Inspect, TileInv
  <2>2. gaps' \in Seq(Span)
    BY <2>1, GapsAreThose
  <2> QED
    BY <2>1, <2>2 DEF TileInv
<1>2. CASE PlanGap
  <2>1. /\ gap' = gap + 1 /\ gap < Len(gaps) /\ gaps' = gaps /\ series' = series
        /\ cursor' = gaps[gap + 1].start /\ chunks' = <<>> /\ series # NoSeries
        /\ gap \in 0..Len(gaps) /\ gaps \in Seq(Span)
    BY <1>2 DEF PlanGap, TileInv
  <2>2. gap' \in 1..Len(gaps)
    BY <2>1
  <2>3. gaps[gap'] \in Span
    BY <2>1, <2>2, ElementOfSeq
  <2>4. cursor' \in Int /\ chunks' \in Seq(Span) /\ Len(chunks') = 0
    BY <2>1, <2>3, EmptySeq DEF Span
  <2> QED
    BY <2>1, <2>2, <2>4 DEF TileInv, Tiled
<1>3. CASE FillDone
  BY <1>3 DEF FillDone, TileInv
<1>4. CASE UNCHANGED fillVars
  BY <1>4 DEF fillVars, TileInv, Tiled
<1> QED
  BY <1>1, <1>2, <1>3, <1>4, PlanChunkTiles DEF FillNext

(* What is tiled so far is a tiling of the gap. *)
LEMMA TiledTiles == TileInv => ChunksTile
<1> SUFFICES ASSUME TileInv, gap > 0 PROVE ChunksTile
  BY DEF ChunksTile
<1>1. Tiled /\ gap \in 1..Len(gaps) /\ gaps \in Seq(Span)
  BY DEF TileInv
<1>2. gaps[gap] \in Span
  BY <1>1, ElementOfSeq
<1>3. ASSUME GapDone, chunks # <<>>
      PROVE  gaps[gap].end - chunks[Len(chunks)].end < Interval
  <2>1. chunks \in Seq(Span) /\ Len(chunks) \in 1..Len(chunks)
    BY <1>1, <1>3, EmptySeq DEF Tiled
  <2>2. chunks[Len(chunks)] \in Span
    BY <2>1, ElementOfSeq
  <2>3. cursor > gaps[gap].end /\ cursor = chunks[Len(chunks)].end + Interval
    BY <1>1, <1>3 DEF GapDone, Tiled
  <2> QED
    BY <1>2, <2>2, <2>3, BackfillAssumption DEF Span
<1> QED
  BY <1>1, <1>3 DEF Tiled, ChunksTile

-----------------------------------------------------------------------------

Inside(c, g) == g.start <= c.start /\ c.end <= g.end

Asks(c, t) == t \in c.start..c.end

(* The chunks so far, each within a gap, ask in order for the bars of the   *)
(* gaps before the cursor.                                                  *)
Asked(all) ==
    /\ \A i \in 1..Len(all) :
          /\ all[i] \in Span /\ all[i].start \in Grid(series) /\ all[i].end < cursor
          /\ \E g \in 1..gap : Inside(all[i], gaps[g])
    /\ \A i, j \in 1..Len(all) : i < j => all[i].end < all[j].start
    /\ gap > 0 => cursor \in Grid(series) /\ gaps[gap].start <= cursor
    /\ \A g \in 1..gap, t \in Grid(series) :
          Asks(gaps[g], t) /\ (g = gap => t < cursor) =>
              \E i \in 1..Len(all) : Asks(all[i], t)

(* The gaps and the report are those of the series, and the chunks of a     *)
(* sound one ask for its gaps up to the cursor.                             *)
CoverInv ==
    /\ series \in Series \cup {NoSeries}
    /\ chunks \in Seq(Span) /\ planned \in Seq(Span)
    /\ gap = 0 => chunks = <<>> /\ planned = <<>>
    /\ series # NoSeries => gaps = DetectedGaps(series) /\ report = ReportOf(series)
    /\ series # NoSeries /\ Sound(series) => Asked(planned \o chunks)

\* What is known of the gaps of the series at hand.
SoundGaps ==
    /\ \A n \in 1..Len(gaps) :
          /\ gaps[n] \in Span /\ gaps[n].start \in Grid(series) /\ gaps[n].end \in Grid(series)
    /\ \A m, n \in 1..Len(gaps) : m < n => gaps[m].end < gaps[n].start
    /\ \A t \in Grid(series) : t \in series[1]..series[Len(series)] =>
          (t \in Stamps(series) <=> ~\E n \in 1..Len(gaps) : Asks(gaps[n], t))
    /\ \A t \in Grid(series), k \in Int : t + k * Interval \in Grid(series)
    /\ \A t, u \in Grid(series) :
          t \in Int /\ (u - t) % Interval = 0 /\ (t < u => t + Interval <= u)

(* What the detector reports of a sound series are sound gaps.              *)
LEMMA GapsAreSound ==
    ASSUME CoverInv, series # NoSeries, Sound(series) PROVE SoundGaps
<1>1. /\ series \in Seq(Nat) /\ series # <<>> /\ gaps = DetectedGaps(series)
  BY BackfillAssumption DEF CoverInv, Sound
<1>2. gaps \in Seq(Span)
  BY <1>1, GapsAreThose
<1>3. \A n \in 1..Len(gaps) : gaps[n] \in Span
  BY <1>2
<1>4. /\ \A n \in 1..Len(gaps) : gaps[n].start \in Grid(series) /\ gaps[n].end \in Grid(series)
      /\ \A m, n \in 1..Len(gaps) : m < n => gaps[m].end < gaps[n].start
      /\ \A t \in Grid(series) : t \in series[1]..series[Len(series)] =>
            (t \in Stamps(series) <=> ~\E n \in 1..Len(gaps) : t \in gaps[n].start..gaps[n].end)
  BY <1>1, GapsOfSound
<1>5. \A t \in Grid(series), k \in Int : t + k * Interval \in Grid(series)
  BY <1>1, GridSteps
<1>6. \A t, u \in Grid(series) : (u - t) % Interval = 0 /\ (t < u => t + Interval <= u)
  BY <1>1, GridSteps
<1>7. \A t \in Grid(series) : t \in Int
  BY DEF Grid
<1> QED
  BY <1>3, <1>4, <1>5, <1>6, <1>7 DEF SoundGaps, Asks

(* A chunk ends within the gap, and a whole number of intervals after its   *)
(* start if not with the gap.                                               *)
LEMMA ChunkFits ==
    ASSUME NEW a \in Int, NEW b \in Int, a <= b
    PROVE  /\ ChunkEnd(a, b) \in Int /\ a <= ChunkEnd(a, b) /\ ChunkEnd(a, b) <= b
           /\ ChunkEnd(a, b) = b \/ ChunkEnd(a, b) = a + (MaxChunk - 1) * Interval
<1> DEFINE p == MaxChunk * Interval
           e == ChunkEnd(a, b)
<1>1. Interval \in Nat \ {0} /\ MaxChunk \in Nat \ {0}
  BY BackfillAssumption
<1>2. p \in Int /\ p >= Interval /\ (MaxChunk - 1) * Interval = p - Interval
  BY <1>1, Z3
<1>3. e = IF a + p - Interval < b THEN a + p - Interval ELSE b
  BY DEF ChunkEnd
<1> HIDE DEF p, e
<1>4. e \in Int /\ a <= e /\ e <= b /\ (e = b \/ e = a + (p - Interval))
  BY <1>1, <1>2, <1>3
<1> QED
  BY <1>2, <1>4 DEF e

(* One more chunk covers the bars of its range.                             *)
LEMMA CoverChunk ==
    ASSUME TileInv, CoverInv, PlanChunk PROVE CoverInv'
<1> DEFINE all == planned \o chunks
           top == gaps[gap].end
           e == ChunkEnd(cursor, top)
           c == [start |-> cursor, end |-> e]
           n == Len(all)
<1>1. /\ gap \in 1..Len(gaps) /\ gaps \in Seq(Span) /\ cursor \in Int /\ series # NoSeries
      /\ ~(cursor > top) /\ chunks' = Append(chunks, c) /\ cursor' = e + Interval
      /\ UNCHANGED <<series, gaps, report, gap, planned>>
  BY DEF TileInv, Tiled, PlanChunk, GapDone, NextStart
<1>2. gaps[gap] \in Span /\ top \in Int /\ Interval \in Nat \ {0} /\ MaxChunk \in Nat \ {0}
  <2>1. gaps[gap] \in Span
    BY <1>1, ElementOfSeq
  <2> QED
    BY <2>1, BackfillAssumption DEF Span
<1>3. /\ e \in Int /\ cursor <= e /\ e <= top
      /\ e = top \/ e = cursor + (MaxChunk - 1) * Interval
  <2> HIDE DEF top
  <2>1. cursor <= top
    BY <1>1, <1>2
  <2> QED
    BY <1>1, <1>2, <2>1, ChunkFits
<1> HIDE DEF e
<1>4. c \in Span /\ c.start = cursor /\ c.end = e
  BY <1>1, <1>3 DEF Span
<1> HIDE DEF c
<1>5. chunks \in Seq(Span) /\ planned \in Seq(Span)
  BY DEF CoverInv
<1>6. all \in Seq(Span) /\ n \in Nat /\ chunks' \in Seq(Span)
  BY <1>1, <1>4, <1>5
<1>7. planned' \o chunks' = Append(all, c)
  BY <1>1, <1>4, <1>5
<1> DEFINE more == Append(all, c)
<1> HIDE DEF all
<1>8. /\ Len(more) = n + 1 /\ more[n + 1] = c
      /\ \A i \in 1..n : more[i] = all[i]
  BY <1>4, <1>6, AppendProperties
<1> HIDE DEF more, n
<1>9. ASSUME Sound(series) PROVE Asked(planned \o chunks)'
  <2>1. Asked(all) /\ SoundGaps
    BY <1>1, <1>9, GapsAreSound DEF CoverInv, all
  <2>2. cursor \in Grid(series) /\ gaps[gap].start <= cursor /\ top \in Grid(series)
    <3>1. gap > 0 /\ gap \in 1..Len(gaps)
      BY <1>1
    <3>2. cursor \in Grid(series) /\ gaps[gap].start <= cursor
      BY <2>1, <3>1 DEF Asked
    <3>3. top \in Grid(series)
      BY <2>1, <3>1 DEF SoundGaps
    <3> QED
      BY <3>2, <3>3
  <2>3. e \in Grid(series)
    <3>1. MaxChunk - 1 \in Int
      BY <1>2
    <3>2. cursor + (MaxChunk - 1) * Interval \in Grid(series)
      BY <2>1, <2>2, <3>1 DEF SoundGaps
    <3> QED
      BY <1>3, <2>2, <3>2
  <2>4. cursor' \in Grid(series) /\ cursor' > e /\ cursor' \in Int
    <3>1. e + 1 * Interval \in Grid(series)
      BY <2>1, <2>3 DEF SoundGaps
    <3>2. e + 1 * Interval = e + Interval
      BY <1>2, <1>3
    <3> QED
      BY <1>1, <1>2, <1>3, <3>1, <3>2
  <2>5. ASSUME NEW i \in 1..n + 1
        PROVE  /\ more[i] \in Span /\ more[i].start \in Grid(series) /\ more[i].end < cursor'
               /\ \E g \in 1..gap : Inside(more[i], gaps[g])
    <3>1. CASE i \in 1..n
      <4>1. /\ all[i] \in Span /\ all[i].start \in Grid(series) /\ all[i].end < cursor
            /\ \E g \in 1..gap : Inside(all[i], gaps[g])
        BY <2>1, <3>1 DEF Asked, n
      <4>2. all[i].end \in Int
        BY <4>1 DEF Span
      <4>3. all[i].end < cursor'
        BY <1>1, <1>3, <2>4, <4>1, <4>2
      <4> QED
        BY <1>8, <3>1, <4>1, <4>3
    <3>2. CASE i = n + 1
      <4>1. Inside(c, gaps[gap])
        BY <1>3, <1>4, <2>2 DEF Inside
      <4> QED
        BY <1>1, <1>4, <1>8, <2>2, <2>4, <3>2, <4>1
    <3> QED
      BY <1>6, <3>1, <3>2
  <2>6. ASSUME NEW i \in 1..n + 1, NEW j \in 1..n + 1, i < j PROVE more[i].end < more[j].start
    <3>1. i \in 1..n
      BY <1>6, <2>6
    <3>2. more[i] = all[i] /\ all[i].end < cursor
      BY <1>8, <2>1, <3>1 DEF Asked, n
    <3>3. CASE j = n + 1
      BY <1>4, <1>8, <3>2, <3>3
    <3>4. CASE j \in 1..n
      BY <1>8, <2>1, <2>6, <3>1, <3>2, <3>4 DEF Asked, n
    <3> QED
      BY <1>6, <3>3, <3>4
  <2>7. gaps[gap].start <= cursor'
    <3>1. gaps[gap].start \in Int
      BY <1>2 DEF Span
    <3> QED
      BY <1>1, <1>3, <2>2, <2>4, <3>1
  <2>8. ASSUME NEW g \in 1..gap, NEW t \in Grid(series),
               Asks(gaps[g], t), g = gap => t < cursor'
        PROVE  \E i \in 1..n + 1 : Asks(more[i], t)
    <3>0. t \in Int
      BY DEF Grid
    <3>1. CASE g = gap => t < cursor
      <4>1. PICK i \in 1..n : Asks(all[i], t)
        BY <2>1, <2>8, <3>1 DEF Asked, n
      <4>2. i \in 1..n + 1 /\ more[i] = all[i]
        BY <1>6, <1>8, <4>1
      <4> QED
        BY <4>1, <4>2
    <3>2. CASE ~(g = gap => t < cursor)
      <4>1. cursor <= t /\ t < e + Interval
        BY <1>1, <2>8, <3>0, <3>2
      <4>2. ~(e < t)
        BY <1>2, <1>3, <2>1, <2>3, <3>0, <4>1 DEF SoundGaps
      <4>3. t \in cursor..e
        BY <1>1, <1>3, <3>0, <4>1, <4>2
      <4>4. Asks(more[n + 1], t)
        BY <1>4, <1>8, <4>3 DEF Asks
      <4>5. n + 1 \in 1..n + 1
        BY <1>6
      <4> QED
        BY <4>4, <4>5
    <3> QED
      BY <3>1, <3>2
  <2>9. planned' \o chunks' = more /\ Len(more) = n + 1
    BY <1>7, <1>8 DEF more
  <2> QED
    BY <1>1, <2>4, <2>5, <2>6, <2>7, <2>8, <2>9 DEF Asked
<1>10. /\ series' \in Series \cup {NoSeries} /\ chunks' \in Seq(Span) /\ planned' \in Seq(Span)
       /\ gap' # 0 /\ gaps' = DetectedGaps(series') /\ report' = ReportOf(series')
  BY <1>1, <1>5, <1>6 DEF CoverInv
<1> QED
  BY <1>1, <1>9, <1>10 DEF CoverInv

(* Every step keeps what is planned and fetched covered.                    *)
LEMMA CoverStep == TileInv /\ CoverInv /\ [FillNext]_fillVars => CoverInv'
<1> SUFFICES ASSUME TileInv, CoverInv, [FillNext]_fillVars PROVE CoverInv'
  OBVIOUS
<1>1. CASE Inspect
  <2>1. /\ series' \in Series /\ gaps' = DetectedGaps(series') /\ report' = ReportOf(series')
        /\ gap' = 0 /\ chunks' = <<>> /\ planned' = <<>>
    BY <1>1 DEF Inspect, TileInv, CoverInv
  <2>2. planned' \o chunks' = <<>> /\ Len(<<>>) = 0
    BY <2>1
  <2>3. Asked(planned \o chunks)'
    BY <2>1, <2>2 DEF Asked
  <2>4. chunks' \in Seq(Span) /\ planned' \in Seq(Span)
    BY <2>1
  <2> QED
    BY <2>1, <2>3, <2>4 DEF CoverInv
<1>2. CASE PlanGap
  <2> DEFINE all == planned \o chunks
             n == Len(all)
  <2>1. /\ gap' = gap + 1 /\ gap < Len(gaps) /\ cursor' = gaps[gap + 1].start /\ GapDone
        /\ chunks' = <<>> /\ planned' = all /\ series # NoSeries
        /\ UNCHANGED <<series, gaps, report>>
    BY <1>2 DEF PlanGap
  <2>2. gap \in Nat /\ Len(gaps) \in Nat /\ gaps \in Seq(Span)
    BY DEF TileInv
  <2>3. chunks \in Seq(Span) /\ planned \in Seq(Span) /\ all \in Seq(Span) /\ n \in Nat
    BY DEF CoverInv
  <2>4. planned' \o chunks' = all /\ chunks' \in Seq(Span) /\ planned' \in Seq(Span)
    BY <2>1, <2>3
  <2> HIDE DEF all, n
  <2>5. ASSUME Sound(series) PROVE Asked(planned \o chunks)'
    <3>1. Asked(all) /\ SoundGaps
      BY <2>1, <2>5, GapsAreSound DEF CoverInv, all
    <3>2. /\ gap + 1 \in 1..Len(gaps) /\ gaps[gap + 1] \in Span
          /\ cursor' \in Grid(series) /\ cursor' \in Int
      <4>1. gap + 1 \in 1..Len(gaps)
        BY <2>1, <2>2
      <4>2. gaps[gap + 1] \in Span /\ gaps[gap + 1].start \in Grid(series)
        BY <3>1, <4>1 DEF SoundGaps
      <4> QED
        BY <2>1, <4>1, <4>2 DEF Span
    <3>3. ASSUME NEW i \in 1..n
          PROVE  /\ all[i] \in Span /\ all[i].start \in Grid(series) /\ all[i].end < cursor'
                 /\ \E g \in 1..(gap + 1) : Inside(all[i], gaps[g])
      <4>1. PICK g \in 1..gap : Inside(all[i], gaps[g])
        BY <3>1 DEF Asked, n
      <4>2. all[i] \in Span /\ all[i].start \in Grid(series)
        BY <3>1 DEF Asked, n
      <4>3. g \in 1..Len(gaps) /\ g < gap + 1 /\ g \in 1..(gap + 1)
        BY <2>1, <2>2
      <4>4. gaps[g].end < gaps[gap + 1].start /\ gaps[g] \in Span
        BY <3>1, <3>2, <4>3 DEF SoundGaps
      <4>5. all[i].end <= gaps[g].end
        BY <4>1 DEF Inside
      <4>6. all[i].end \in Int /\ gaps[g].end \in Int
        BY <4>2, <4>4 DEF Span
      <4>7. all[i].end < cursor'
        BY <2>1, <3>2, <4>4, <4>5, <4>6
      <4> QED
        BY <4>1, <4>2, <4>3, <4>7
    <3>4. ASSUME NEW g \in 1..(gap + 1), NEW t \in Grid(series),
                 Asks(gaps[g], t), g = gap + 1 => t < cursor'
          PROVE  \E i \in 1..n : Asks(all[i], t)
      <4>0. t \in Int
        BY DEF Grid
      <4>1. g # gap + 1
        BY <2>1, <3>2, <3>4, <4>0 DEF Asks
      <4>2. g \in 1..gap /\ g \in 1..Len(gaps)
        BY <2>1, <2>2, <4>1
      <4>3. gaps[g].end \in Int
        BY <3>1, <4>2 DEF SoundGaps, Span
      <4>4. cursor \in Int
        BY <4>2, <2>2 DEF TileInv, Tiled
      <4>5. g = gap => t < cursor
        <5> SUFFICES ASSUME g = gap PROVE t < cursor
          OBVIOUS
        <5>1. cursor > gaps[g].end
          BY <2>1, <2>2, <4>2 DEF GapDone
        <5> QED
          BY <3>4, <4>0, <4>3, <4>4, <5>1 DEF Asks
      <4> QED
        BY <3>1, <3>4, <4>2, <4>5 DEF Asked, n
    <3>5. \A i, j \in 1..n : i < j => all[i].end < all[j].start
      BY <3>1 DEF Asked, n
    <3>6. gaps[gap + 1].start <= cursor'
      BY <2>1, <3>2
    <3>7. Len(all) = n
      BY DEF n
    <3> QED
      BY <2>1, <2>4, <3>2, <3>3, <3>4, <3>5, <3>6, <3>7 DEF Asked
  <2>6. /\ series' \in Series \cup {NoSeries} /\ gap' # 0
        /\ gaps' = DetectedGaps(series') /\ report' = ReportOf(series')
    BY <2>1, <2>2 DEF CoverInv
  <2> QED
    BY <2>1, <2>4, <2>5, <2>6 DEF CoverInv
<1>3. CASE FillDone
  BY <1>3 DEF FillDone, CoverInv
<1>4. CASE UNCHANGED fillVars
  BY <1>4 DEF fillVars, CoverInv, Asked
<1> QED
  BY <1>1, <1>2, <1>3, <1>4, CoverChunk DEF FillNext

(* When all gaps are planned, a bar of a sound series is in it or asked for *)
(* by one chunk.                                                            *)
LEMMA CoveredCompletes ==
    ASSUME TileInv, CoverInv PROVE BackfillCompletes
<1> SUFFICES ASSUME series # NoSeries, GapDone, gap = Len(gaps), Sound(series),
                    NEW t \in series[1]..series[Len(series)], (t - series[1]) % Interval = 0
             PROVE  \/ t \in Stamps(series) /\ AskedBy(t) = {}
                    \/ /\ t \notin Stamps(series)
                       /\ \E i \in 1..Len(planned \o chunks) : AskedBy(t) = {i}
  BY DEF BackfillCompletes, Sound
<1> DEFINE all == planned \o chunks
           n == Len(all)
<1>1. Asked(all) /\ SoundGaps
  BY GapsAreSound DEF CoverInv
<1>2. t \in Grid(series) /\ t \in Int
  BY DEF Grid
<1>3. n \in Nat
  BY DEF CoverInv
<1>4. AskedBy(t) = {i \in 1..n : t \in BarsOf(all[i])}
  BY DEF AskedBy
<1> HIDE DEF all
<1>5. ASSUME NEW i \in 1..n PROVE t \in BarsOf(all[i]) <=> Asks(all[i], t)
  <2>1. all[i].start \in Grid(series)
    BY <1>1 DEF Asked
  <2>2. (t - all[i].start) % Interval = 0
    BY <1>1, <1>2, <2>1 DEF SoundGaps
  <2> QED
    BY <2>2 DEF BarsOf, Asks
<1>6. AskedBy(t) = {i \in 1..n : Asks(all[i], t)}
  BY <1>4, <1>5
<1>7. t \in Stamps(series) <=> ~\E m \in 1..Len(gaps) : Asks(gaps[m], t)
  BY <1>1, <1>2 DEF SoundGaps
<1>8. CASE t \in Stamps(series)
  <2>1. ASSUME NEW i \in 1..n, Asks(all[i], t) PROVE FALSE
    <3>1. PICK g \in 1..gap : Inside(all[i], gaps[g])
      BY <1>1 DEF Asked
    <3>2. g \in 1..Len(gaps) /\ gaps[g] \in Span /\ all[i] \in Span
      BY <1>1 DEF SoundGaps, Asked
    <3>3. Asks(gaps[g], t)
      BY <1>2, <2>1, <3>1, <3>2 DEF Inside, Asks, Span
    <3> QED
      BY <1>7, <1>8, <3>2, <3>3
  <2> QED
    BY <1>6, <1>8, <2>1
<1>9. CASE t \notin Stamps(series)
  <2>1. PICK g \in 1..Len(gaps) : Asks(gaps[g], t)
    BY <1>7, <1>9
  <2>2. gap \in Nat /\ g \in 1..gap /\ gaps[g].end \in Int
    BY <1>1 DEF TileInv, SoundGaps, Span
  <2>3. cursor \in Int
    BY <2>2 DEF TileInv, Tiled
  <2>4. g = gap => t < cursor
    <3> SUFFICES ASSUME g = gap PROVE t < cursor
      OBVIOUS
    <3>1. cursor > gaps[g].end
      BY <2>2 DEF GapDone
    <3> QED
      BY <1>2, <2>1, <2>2, <2>3, <3>1 DEF Asks
  <2>5. PICK i \in 1..n : Asks(all[i], t)
    BY <1>1, <1>2, <2>1, <2>2, <2>4 DEF Asked
  <2>6. ASSUME NEW j \in 1..n, Asks(all[j], t) PROVE j = i
    <3>1. all[i] \in Span /\ all[j] \in Span
      BY <1>1 DEF Asked
    <3>2. /\ all[i].start \in Int /\ all[i].end \in Int /\ all[j].start \in Int
          /\ all[j].end \in Int
      BY <3>1 DEF Span
    <3>3. ~(i < j) /\ ~(j < i)
      <4>1. i < j => all[i].end < all[j].start
        BY <1>1 DEF Asked
      <4>2. j < i => all[j].end < all[i].start
        BY <1>1 DEF Asked
      <4>3. all[i].start <= t /\ t <= all[i].end /\ all[j].start <= t /\ t <= all[j].end
        BY <1>2, <2>5, <2>6, <3>2 DEF Asks
      <4> QED
        BY <1>2, <3>2, <4>1, <4>2, <4>3
    <3> QED
      BY <1>3, <3>3
  <2>7. AskedBy(t) = {i}
    BY <1>6, <2>5, <2>6
  <2> QED
    BY <1>9, <2>7 DEF all
<1> QED
  BY <1>8, <1>9

(* The two detectors agree on every series, every gap is tiled by requests  *)
(* of the allowed size, on a grid or off it, and the chunks of a sound      *)
(* series ask for each bar that it has not, once, and for no other -        *)
(* whatever the interval, the size of a request and the series.             *)
THEOREM BackfillHolds == FillSpec => []BackfillIsExact
<1>1. FillInit => TileInv /\ CoverInv
  BY DEF FillInit, TileInv, CoverInv
<1>2. TileInv /\ CoverInv /\ [FillNext]_fillVars => (TileInv /\ CoverInv)'
  BY TileStep, CoverStep
<1>3. TileInv /\ CoverInv => BackfillIsExact
  <2> SUFFICES ASSUME TileInv, CoverInv PROVE BackfillIsExact
    OBVIOUS
  <2>1. ChunksTile
    BY TiledTiles
  <2>2. BackfillCompletes
    BY CoveredCompletes
  <2>3. DetectorsAgree
    BY ReportAgrees, BackfillAssumption DEF DetectorsAgree, CoverInv
  <2> QED
    BY <2>1, <2>2, <2>3 DEF BackfillIsExact
<1> QED
  BY <1>1, <1>2, <1>3, PTL DEF FillSpec

-----------------------------------------------------------------------------
(* The pooling of a calibration. *)

Block == [s : Nat, w : Nat \ {0}, y : Nat]

\* Everything before the cursor of the loop is in order.
PoolInv ==
    /\ CalTypeOK
    /\ phase = "tally" => at = 1
    /\ phase # "tally" =>
          /\ at <= Len(blocks)
          /\ \A i \in 1..(at - 1) : ~Above(blocks[i], blocks[i + 1])
    /\ phase = "done" => at >= Len(blocks)

LEMMA PoolTypes ==
    ASSUME PoolInv, Pool
    PROVE  /\ blocks' \in Seq(Block) /\ Len(blocks') = Len(blocks) - 1
           /\ at' \in Nat \ {0} /\ at' <= Len(blocks')
           /\ \A i \in 1..(at - 1) : blocks'[i] = blocks[i]
<1> DEFINE m == Len(blocks)
<1>1. /\ blocks \in Seq(Block) /\ m \in Nat /\ at \in Nat \ {0} /\ at < m
      /\ phase = "pool"
  BY DEF PoolInv, CalTypeOK, Pool, Block
<1>2. \A i \in 1..m : blocks[i] \in Block
  BY <1>1, ElementOfSeq
<1>3. Pooled(blocks[at], blocks[at + 1]) \in Block
  <2>1. blocks[at] \in Block /\ blocks[at + 1] \in Block
    BY <1>1, <1>2
  <2> QED
    BY <2>1 DEF Pooled, Block
<1> DEFINE c == Pooled(blocks[at], blocks[at + 1])
<1>4. blocks' = [i \in 1..(m - 1) |->
                    IF i < at THEN blocks[i] ELSE IF i = at THEN c ELSE blocks[i + 1]]
  BY DEF Pool
<1> HIDE DEF m, c
<1>5. ASSUME NEW i \in 1..(m - 1)
      PROVE  (IF i < at THEN blocks[i] ELSE IF i = at THEN c ELSE blocks[i + 1]) \in Block
  <2>1. i \in 1..m /\ i + 1 \in 1..m
    BY <1>1
  <2> QED
    BY <2>1, <1>2, <1>3 DEF c
<1>6. blocks' \in [1..(m - 1) -> Block] /\ m - 1 \in Nat
  <2> DEFINE el(i) == IF i < at THEN blocks[i] ELSE IF i = at THEN c ELSE blocks[i + 1]
  <2>1. blocks' = [i \in 1..(m - 1) |-> el(i)] /\ \A i \in 1..(m - 1) : el(i) \in Block
    BY <1>4, <1>5, Zenon
  <2>2. m - 1 \in Nat
    BY <1>1
  <2> HIDE DEF el
  <2> QED
    BY <2>1, <2>2
<1>7. blocks' \in Seq(Block) /\ Len(blocks') = m - 1
  BY <1>6, AsSeq
<1>8. at' \in Nat \ {0} /\ at' <= m - 1
  BY <1>1 DEF Pool, StepBack
<1>9. \A i \in 1..(at - 1) : blocks'[i] = blocks[i]
  <2> SUFFICES ASSUME NEW i \in 1..(at - 1) PROVE blocks'[i] = blocks[i]
    OBVIOUS
  <2>1. i \in 1..(m - 1) /\ i < at
    BY <1>1
  <2> QED
    BY <2>1, <1>4
<1> QED
  BY <1>7, <1>8, <1>9 DEF m

LEMMA PoolStep == PoolInv /\ [CalNext]_calVars => PoolInv'
<1> SUFFICES ASSUME PoolInv, [CalNext]_calVars PROVE PoolInv'
  OBVIOUS
<1> USE DEF PoolInv
<1>1. ASSUME NEW score \in Scores, NEW bull \in BOOLEAN, Tally(score, bull)
      PROVE  PoolInv'
  <2>1. phase = "tally" /\ phase' = phase /\ blocks' = blocks /\ at' = at
    BY <1>1 DEF Tally
  <2>2. BinOf(score) \in 1..Bins
    <3>1. score \in Int /\ Width \in Nat \ {0} /\ Bins \in Nat \ {0}
      BY CalibrationAssumption
    <3>2. score \div Width \in Int
      BY <3>1
    <3> QED
      BY <3>1, <3>2 DEF BinOf
  <2>3. tally' \in [1..Bins -> Sum]
    <3> DEFINE b == BinOf(score)
               t == [w |-> tally[b].w + Unit, y |-> tally[b].y + (IF bull THEN Unit ELSE 0)]
    <3>1. tally \in [1..Bins -> Sum] /\ tally[b] \in Sum
      BY <2>2 DEF CalTypeOK
    <3>2. t \in Sum
      BY <3>1, CalibrationAssumption, SMTT(30) DEF Sum
    <3>3. tally' = [tally EXCEPT ![b] = t]
      BY <1>1 DEF Tally
    <3> HIDE DEF b, t
    <3> QED
      BY <3>1, <3>2, <3>3
  <2> QED
    BY <2>1, <2>3 DEF CalTypeOK
<1>2. CASE StartPooling
  <2>1. /\ phase = "tally" /\ phase' = "pool" /\ tally' = tally /\ at' = at
        /\ blocks' = [b \in 1..Bins |->
                         [s |-> tally[b].w * Mid(b), w |-> tally[b].w, y |-> tally[b].y]]
    BY <1>2 DEF StartPooling
  <2>2. ASSUME NEW b \in 1..Bins
        PROVE  [s |-> tally[b].w * Mid(b), w |-> tally[b].w, y |-> tally[b].y] \in Block
    <3>1. tally[b] \in Sum
      BY DEF CalTypeOK
    <3>2. tally[b].w \in Nat \ {0} /\ tally[b].y \in Nat
      BY <3>1 DEF Sum
    <3>3. Mid(b) \in Nat
      <4>1. b - 1 \in Nat /\ Width \in Nat
        BY CalibrationAssumption
      <4>2. (b - 1) * Width \in Nat
        BY <4>1, Z3
      <4>3. Width \div 2 \in Nat
        BY <4>1, Z3
      <4> QED
        BY <4>2, <4>3 DEF Mid
    <3>4. tally[b].w * Mid(b) \in Nat
      BY <3>2, <3>3, Z3
    <3> QED
      BY <3>2, <3>4 DEF Block
  <2>3. blocks' \in [1..Bins -> Block] /\ Bins \in Nat /\ Bins >= 1
    BY <2>1, <2>2, CalibrationAssumption
  <2>4. blocks' \in Seq(Block) /\ Len(blocks') = Bins
    BY <2>3, AsSeq
  <2>5. at = 1
    BY <2>1
  <2> QED
    BY <2>1, <2>3, <2>4, <2>5 DEF CalTypeOK, Block
<1>3. CASE Pool
  <2>1. phase' = "pool" /\ tally' = tally /\ phase = "pool"
    BY <1>3 DEF Pool
  <2>2. ASSUME NEW i \in 1..(at' - 1) PROVE ~Above(blocks'[i], blocks'[i + 1])
    <3>1. at \in Nat \ {0} /\ at' = StepBack(at)
      BY <1>3 DEF Pool, CalTypeOK
    <3>2. i \in 1..(at - 1) /\ i + 1 \in 1..(at - 1)
      BY <3>1 DEF StepBack
    <3>3. ~Above(blocks[i], blocks[i + 1])
      BY <2>1, <3>2
    <3> QED
      BY <3>2, <3>3, <1>3, PoolTypes
  <2> QED
    BY <1>3, <2>1, <2>2, PoolTypes DEF CalTypeOK, Block
<1>4. CASE Advance
  <2>1. /\ phase = "pool" /\ phase' = phase /\ tally' = tally /\ blocks' = blocks
        /\ at' = at + 1 /\ at < Len(blocks) /\ ~Above(blocks[at], blocks[at + 1])
    BY <1>4 DEF Advance
  <2>2. at \in Nat \ {0} /\ Len(blocks) \in Nat
    BY DEF CalTypeOK
  <2>3. ASSUME NEW i \in 1..(at' - 1) PROVE ~Above(blocks'[i], blocks'[i + 1])
    <3>1. CASE i = at
      BY <3>1, <2>1
    <3>2. CASE i # at
      BY <3>2, <2>1, <2>2
    <3> QED
      BY <3>1, <3>2
  <2>4. at' \in Nat \ {0} /\ at' <= Len(blocks')
    BY <2>1, <2>2
  <2> QED
    BY <2>1, <2>3, <2>4 DEF CalTypeOK
<1>5. CASE PoolingDone
  BY <1>5 DEF PoolingDone, CalTypeOK
<1>6. CASE NextCalibration
  <2>1. tally' \in [1..Bins -> Sum]
    BY <1>6, CalibrationAssumption DEF NextCalibration, Sum
  <2> QED
    BY <1>6, <2>1, EmptySeq DEF NextCalibration, CalTypeOK
<1>7. CASE UNCHANGED calVars
  BY <1>7 DEF calVars, CalTypeOK
<1> QED
  BY <1>1, <1>2, <1>3, <1>4, <1>5, <1>6, <1>7 DEF CalNext

LEMMA PoolInvariant == CalSpec => []PoolInv
<1>1. CalInit => PoolInv
  <2> SUFFICES ASSUME CalInit PROVE PoolInv
    OBVIOUS
  <2>1. tally \in [1..Bins -> Sum]
    BY CalibrationAssumption DEF CalInit, Sum
  <2> QED
    BY <2>1, EmptySeq DEF CalInit, CalTypeOK, PoolInv
<1> QED
  BY <1>1, PoolStep, PTL DEF CalSpec

\* Weight and wins of the first bins, by their number.
WeightUpTo(t) == [k \in 0..Bins |-> SumFunctionOnSet([b \in 1..Bins |-> t[b].w], 1..k)]
WinsUpTo(t) == [k \in 0..Bins |-> SumFunctionOnSet([b \in 1..Bins |-> t[b].y], 1..k)]

\* U holds the sums of the first values of f.
SumsUp(U, f, n) ==
    /\ U \in [0..n -> Int] /\ U[0] = 0
    /\ \A k \in 1..n : U[k] = U[k - 1] + f[k]

(* The sums of the first values, one after the other. *)
LEMMA PrefixSums ==
    ASSUME NEW n \in Nat, NEW f \in [1..n -> Int]
    PROVE  SumsUp([k \in 0..n |-> SumFunctionOnSet(f, 1..k)], f, n)
<1> DEFINE U == [k \in 0..n |-> SumFunctionOnSet(f, 1..k)]
<1>1. ASSUME NEW k \in 0..n
      PROVE  IsFiniteSet(1..k) /\ \A x \in 1..k : f[x] \in Int
  BY IndexCount
<1>2. U \in [0..n -> Int]
  BY <1>1, SumType
<1>3. U[0] = 0
  <2>1. 1..0 = {} /\ 0 \in 0..n
    OBVIOUS
  <2> QED
    BY <2>1, SumEmpty
<1>4. ASSUME NEW k \in 1..n PROVE U[k] = U[k - 1] + f[k]
  <2>1. k - 1 \in 0..n /\ k \in 0..n /\ k \notin 1..(k - 1) /\ 1..k = (1..(k - 1)) \cup {k}
    OBVIOUS
  <2>2. IsFiniteSet(1..(k - 1)) /\ \A x \in 1..(k - 1) : f[x] \in Int
    BY <1>1, <2>1
  <2>3. f[k] \in Int
    OBVIOUS
  <2>4. SumFunctionOnSet(f, (1..(k - 1)) \cup {k}) = f[k] + SumFunctionOnSet(f, 1..(k - 1))
    BY <2>1, <2>2, <2>3, SumInsert
  <2>5. U[k] = f[k] + U[k - 1]
    BY <2>1, <2>4
  <2>6. U[k - 1] \in Int
    BY <1>2, <2>1
  <2> HIDE DEF U
  <2> QED
    BY <2>3, <2>5, <2>6
<1> HIDE DEF U
<1>5. SumsUp(U, f, n)
  BY <1>2, <1>3, <1>4 DEF SumsUp
<1> QED
  BY <1>5 DEF U

(* The sum over a range is a difference of two of them. *)
LEMMA RangeSum ==
    ASSUME NEW n \in Nat, NEW f \in [1..n -> Int], NEW a \in 1..n, NEW c \in (a - 1)..n
    PROVE  SumFunctionOnSet(f, a..c)
              = SumFunctionOnSet(f, 1..c) - SumFunctionOnSet(f, 1..(a - 1))
<1>1. 1..c = (1..(a - 1)) \cup (a..c) /\ (1..(a - 1)) \cap (a..c) = {} /\ a..c \subseteq 1..c
      /\ c \in Nat /\ a - 1 \in Nat
  OBVIOUS
<1>2. IsFiniteSet(1..(a - 1)) /\ IsFiniteSet(1..c) /\ IsFiniteSet(a..c)
  BY <1>1, IndexCount, FS_Subset
<1>3. \A x \in (1..(a - 1)) \cup (a..c) : f[x] \in Int
  OBVIOUS
<1>4. SumFunctionOnSet(f, 1..c)
         = SumFunctionOnSet(f, 1..(a - 1)) + SumFunctionOnSet(f, a..c)
  BY <1>1, <1>2, <1>3, SumUnion
<1>5. SumFunctionOnSet(f, 1..(a - 1)) \in Int /\ SumFunctionOnSet(f, a..c) \in Int
  BY <1>2, <1>3, SumType
<1> QED
  BY <1>4, <1>5

\* The sums of a tally: the weights rise.
Profile(W, Y) ==
    /\ W \in [0..Bins -> Int] /\ Y \in [0..Bins -> Int]
    /\ W[0] = 0 /\ Y[0] = 0
    /\ \A k \in 1..Bins : W[k - 1] < W[k]

LEMMA TallySums ==
    ASSUME NEW t \in [1..Bins -> Sum]
    PROVE  /\ Profile(WeightUpTo(t), WinsUpTo(t))
           /\ \A b \in 1..Bins : /\ WeightUpTo(t)[b] = WeightUpTo(t)[b - 1] + t[b].w
                                 /\ WinsUpTo(t)[b] = WinsUpTo(t)[b - 1] + t[b].y
<1> DEFINE f == [b \in 1..Bins |-> t[b].w]
           g == [b \in 1..Bins |-> t[b].y]
<1>1. \A b \in 1..Bins : t[b].w \in Nat \ {0} /\ t[b].y \in Nat
  BY DEF Sum
<1>2. f \in [1..Bins -> Int] /\ g \in [1..Bins -> Int] /\ Bins \in Nat
  BY <1>1, CalibrationAssumption
<1> HIDE DEF f, g
<1>3. SumsUp([k \in 0..Bins |-> SumFunctionOnSet(f, 1..k)], f, Bins)
  BY <1>2, PrefixSums
<1>4. SumsUp([k \in 0..Bins |-> SumFunctionOnSet(g, 1..k)], g, Bins)
  BY <1>2, PrefixSums
<1>5. SumsUp(WeightUpTo(t), f, Bins) /\ SumsUp(WinsUpTo(t), g, Bins)
  BY <1>3, <1>4 DEF WeightUpTo, WinsUpTo, f, g
<1>6. \A b \in 1..Bins : f[b] = t[b].w /\ g[b] = t[b].y
  BY DEF f, g
<1> DEFINE W == WeightUpTo(t)
           Y == WinsUpTo(t)
<1>7. \A b \in 1..Bins : W[b] = W[b - 1] + t[b].w /\ Y[b] = Y[b - 1] + t[b].y
  BY <1>5, <1>6 DEF SumsUp
<1>8. W \in [0..Bins -> Int] /\ Y \in [0..Bins -> Int] /\ W[0] = 0 /\ Y[0] = 0
  BY <1>5 DEF SumsUp
<1> HIDE DEF W, Y
<1>9. ASSUME NEW k \in 1..Bins PROVE W[k - 1] < W[k]
  <2>1. W[k - 1] \in Int /\ t[k].w \in Nat \ {0}
    BY <1>1, <1>2, <1>8
  <2> QED
    BY <1>7, <2>1
<1> QED
  BY <1>7, <1>8, <1>9 DEF W, Y, Profile

(* The weights rise from any number to any greater one. *)
LEMMA WeightsRise ==
    ASSUME NEW W, NEW Y, Profile(W, Y), NEW j \in 0..Bins, NEW k \in 0..Bins, j < k
    PROVE  W[j] < W[k]
<1> DEFINE A == {d \in Nat : j + d + 1 <= Bins => W[j] < W[j + d + 1]}
<1>0. Bins \in Nat /\ j \in Nat /\ k \in Nat
  BY CalibrationAssumption
<1>1. 0 \in A
  BY <1>0 DEF Profile
<1>2. ASSUME NEW d \in Nat, d \in A PROVE d + 1 \in A
  <2>1. SUFFICES ASSUME j + (d + 1) + 1 <= Bins PROVE W[j] < W[j + (d + 1) + 1]
    OBVIOUS
  <2> DEFINE m == j + d + 1
  <2>2. m \in 0..Bins /\ m + 1 \in 1..Bins /\ (m + 1) - 1 = m /\ j + (d + 1) + 1 = m + 1
    BY <1>0, <2>1
  <2>3. W[j] < W[m]
    BY <1>2, <2>1, <1>0
  <2> HIDE DEF m
  <2>4. W[m] < W[m + 1]
    BY <2>2 DEF Profile
  <2>5. W[j] \in Int /\ W[m] \in Int /\ W[m + 1] \in Int
    BY <2>2, <1>0 DEF Profile
  <2> QED
    BY <2>2, <2>3, <2>4, <2>5
<1> HIDE DEF A
<1>3. Nat \subseteq A
  BY <1>1, <1>2, Induction
<1>4. k - j - 1 \in Nat /\ j + (k - j - 1) + 1 = k
  BY <1>0
<1> QED
  BY <1>3, <1>4, <1>0 DEF A

LEMMA SegmentIs ==
    ASSUME tally \in [1..Bins -> Sum], NEW a \in 1..Bins, NEW c \in a..Bins
    PROVE  Segment(a, c) = [w |-> WeightUpTo(tally)[c] - WeightUpTo(tally)[a - 1],
                            y |-> WinsUpTo(tally)[c] - WinsUpTo(tally)[a - 1]]
<1> DEFINE f == [b \in 1..Bins |-> tally[b].w]
           g == [b \in 1..Bins |-> tally[b].y]
<1>1. \A b \in 1..Bins : tally[b].w \in Int /\ tally[b].y \in Int
  BY DEF Sum
<1>2. f \in [1..Bins -> Int] /\ g \in [1..Bins -> Int] /\ Bins \in Nat
      /\ c \in 0..Bins /\ a - 1 \in 0..Bins /\ c \in (a - 1)..Bins
  BY <1>1, CalibrationAssumption
<1>3. WeightUpTo(tally)[c] = SumFunctionOnSet(f, 1..c)
      /\ WeightUpTo(tally)[a - 1] = SumFunctionOnSet(f, 1..(a - 1))
  BY <1>2 DEF WeightUpTo
<1>4. WinsUpTo(tally)[c] = SumFunctionOnSet(g, 1..c)
      /\ WinsUpTo(tally)[a - 1] = SumFunctionOnSet(g, 1..(a - 1))
  BY <1>2 DEF WinsUpTo
<1>5. Segment(a, c) = [w |-> SumFunctionOnSet(f, a..c), y |-> SumFunctionOnSet(g, a..c)]
  BY DEF Segment
<1> HIDE DEF f, g
<1>6. SumFunctionOnSet(f, a..c) = SumFunctionOnSet(f, 1..c) - SumFunctionOnSet(f, 1..(a - 1))
  BY <1>2, RangeSum
<1>7. SumFunctionOnSet(g, a..c) = SumFunctionOnSet(g, 1..c) - SumFunctionOnSet(g, 1..(a - 1))
  BY <1>2, RangeSum
<1> QED
  BY <1>3, <1>4, <1>5, <1>6, <1>7

-----------------------------------------------------------------------------

\* Block b stands for the bins after lo, up to hi: its sums are theirs, the bins
\* from its first to any other have no lower rate, and its middle is between
\* those of its first and its last bin.
Pools(b, W, Y, lo, hi) ==
    /\ b.w = W[hi] - W[lo] /\ b.y = Y[hi] - Y[lo]
    /\ \A c \in lo..hi : b.y * (W[c] - W[lo]) <= (Y[c] - Y[lo]) * b.w
    /\ b.w * Mid(lo + 1) <= b.s /\ b.s <= b.w * Mid(hi)

\* e holds the last bin of each block.
Ends(e, n) ==
    /\ e \in [0..n -> 0..Bins] /\ e[0] = 0 /\ e[n] = Bins
    /\ \A i \in 1..n : e[i - 1] < e[i]

Fits(bs, W, Y, e) ==
    /\ Ends(e, Len(bs))
    /\ \A i \in 1..Len(bs) : Pools(bs[i], W, Y, e[i - 1], e[i])

\* The blocks divide the bins into ranges.
FitInv ==
    phase # "tally" =>
        \E e \in [0..Len(blocks) -> 0..Bins] :
            Fits(blocks, WeightUpTo(tally), WinsUpTo(tally), e)

\* The middles of the bins rise.
LEMMA MidRises ==
    ASSUME NEW i \in Int, NEW j \in Int, i <= j
    PROVE  /\ Mid(i) \in Int /\ Mid(j) \in Int
           /\ Mid(i) <= Mid(j)
           /\ i < j => Mid(i) < Mid(j)
<1>1. Width \in Nat \ {0}
  BY CalibrationAssumption
<1>2. Width \div 2 \in Int
  BY <1>1, Division
<1>3. /\ (i - 1) * Width \in Int /\ (j - 1) * Width \in Int
      /\ (i - 1) * Width <= (j - 1) * Width
      /\ i < j => (i - 1) * Width < (j - 1) * Width
  BY <1>1, Z3
<1> QED
  BY <1>2, <1>3 DEF Mid

(* A head of the first of two blocks in the wrong order has no lower rate   *)
(* than both together ...                                                   *)
LEMMA HeadOfFirst ==
    ASSUME NEW aw \in Nat \ {0}, NEW ay \in Int, NEW bw \in Nat \ {0}, NEW by \in Int,
           NEW pw \in Nat, NEW py \in Int,
           ay * bw > by * aw, ay * pw <= py * aw
    PROVE  (ay + by) * pw <= py * (aw + bw)
<1>1. ay * pw * bw <= py * aw * bw
  BY Z3
<1>2. by * aw * pw <= ay * bw * pw
  BY Z3
<1>3. aw * (by * pw) <= aw * (py * bw)
  BY <1>1, <1>2, Z3
<1>4. by * pw <= py * bw
  BY <1>3, Z3
<1> QED
  BY <1>4, Z3

(* ... and neither has one that reaches into the second.                    *)
LEMMA HeadOfSecond ==
    ASSUME NEW aw \in Nat \ {0}, NEW ay \in Int, NEW bw \in Nat \ {0}, NEW by \in Int,
           NEW qw \in Nat, NEW qy \in Int, qw <= bw,
           ay * bw > by * aw, by * qw <= qy * bw
    PROVE  (ay + by) * (aw + qw) <= (ay + qy) * (aw + bw)
<1> DEFINE r == bw - qw
           excess == ay * bw - by * aw
           more == qy * bw - by * qw
           E == (ay + qy) * (aw + bw) - (ay + by) * (aw + qw)
<1>1. r \in Nat /\ excess \in Nat /\ more \in Nat /\ E \in Int
  BY Z3
<1>2. bw * E = r * excess + (aw + bw) * more
  BY Z3
<1> HIDE DEF r, excess, more
<1>3. r * excess >= 0 /\ (aw + bw) * more >= 0
  BY <1>1, Z3
<1>4. bw * E >= 0
  BY <1>1, <1>2, <1>3, Z3
<1>5. E >= 0
  <2> HIDE DEF E
  <2> QED
    BY <1>1, <1>4, Z3
<1> QED
  BY <1>5, Z3

(* Two neighbouring blocks in the wrong order pool into a block.            *)
LEMMA PoolsTogether ==
    ASSUME NEW W, NEW Y, Profile(W, Y), NEW lo \in 0..Bins, NEW mid \in 0..Bins,
           NEW hi \in 0..Bins, lo < mid, mid < hi,
           NEW a \in Block, NEW b \in Block,
           Pools(a, W, Y, lo, mid), Pools(b, W, Y, mid, hi), Above(a, b)
    PROVE  Pools(Pooled(a, b), W, Y, lo, hi)
<1> DEFINE p == Pooled(a, b)
<1>0. /\ a.w \in Nat \ {0} /\ a.y \in Nat /\ a.s \in Nat
      /\ b.w \in Nat \ {0} /\ b.y \in Nat /\ b.s \in Nat
      /\ p.w = a.w + b.w /\ p.y = a.y + b.y /\ p.s = a.s + b.s
  BY DEF Block, Pooled
<1>1. \A k \in 0..Bins : W[k] \in Int /\ Y[k] \in Int
  BY DEF Profile
<1>2. /\ a.w = W[mid] - W[lo] /\ a.y = Y[mid] - Y[lo]
      /\ b.w = W[hi] - W[mid] /\ b.y = Y[hi] - Y[mid]
  BY DEF Pools
<1>3. a.y * b.w > b.y * a.w
  BY DEF Above
<1> HIDE DEF p
<1>4. p.w = W[hi] - W[lo] /\ p.y = Y[hi] - Y[lo]
  BY <1>0, <1>1, <1>2
<1>5. ASSUME NEW c \in lo..hi
      PROVE  p.y * (W[c] - W[lo]) <= (Y[c] - Y[lo]) * p.w
  <2>0. Bins \in Nat /\ c \in 0..Bins
    BY CalibrationAssumption
  <2>1. CASE c <= mid
    <3>1. c \in lo..mid
      BY <2>1, <2>0
    <3>2. a.y * (W[c] - W[lo]) <= (Y[c] - Y[lo]) * a.w
      BY <3>1 DEF Pools
    <3>3. W[c] - W[lo] \in Nat /\ Y[c] - Y[lo] \in Int
      <4>1. CASE c = lo
        BY <4>1, <1>1
      <4>2. CASE lo < c
        BY <4>2, <2>0, <1>1, WeightsRise
      <4> QED
        BY <4>1, <4>2
    <3>4. (a.y + b.y) * (W[c] - W[lo]) <= (Y[c] - Y[lo]) * (a.w + b.w)
      BY <1>0, <1>3, <3>2, <3>3, HeadOfFirst
    <3> QED
      BY <3>4, <1>0
  <2>2. CASE mid < c
    <3>1. c \in mid..hi
      BY <2>2, <2>0
    <3> DEFINE qw == W[c] - W[mid]
               qy == Y[c] - Y[mid]
    <3>2. b.y * qw <= qy * b.w
      BY <3>1 DEF Pools
    <3>3. qw \in Nat /\ qy \in Int
      BY <2>2, <2>0, <1>1, WeightsRise
    <3>4. qw <= b.w
      <4>1. CASE c = hi
        BY <4>1, <1>1, <1>2
      <4>2. CASE c < hi
        BY <4>2, <2>0, <1>1, <1>2, WeightsRise
      <4> QED
        BY <4>1, <4>2, <2>0
    <3>5. W[c] - W[lo] = a.w + qw /\ Y[c] - Y[lo] = a.y + qy
      BY <1>1, <1>2, <2>0
    <3> HIDE DEF qw, qy
    <3>6. (a.y + b.y) * (a.w + qw) <= (a.y + qy) * (a.w + b.w)
      <4>1. a.y \in Int /\ b.y \in Int
        BY <1>0
      <4> QED
        BY <4>1, <1>0, <1>3, <3>2, <3>3, <3>4, HeadOfSecond, Zenon
    <3> QED
      BY <3>5, <3>6, <1>0
  <2> QED
    BY <2>0, <2>1, <2>2
<1>6. p.w * Mid(lo + 1) <= p.s /\ p.s <= p.w * Mid(hi)
  <2>1. a.w * Mid(lo + 1) <= a.s /\ a.s <= a.w * Mid(mid)
        /\ b.w * Mid(mid + 1) <= b.s /\ b.s <= b.w * Mid(hi)
    BY DEF Pools
  <2>2. /\ Mid(lo + 1) \in Int /\ Mid(mid) \in Int /\ Mid(mid + 1) \in Int /\ Mid(hi) \in Int
        /\ Mid(lo + 1) <= Mid(mid + 1) /\ Mid(mid) <= Mid(hi)
    <3>1. lo + 1 \in Int /\ mid + 1 \in Int /\ lo + 1 <= mid + 1 /\ mid \in Int /\ hi \in Int
      OBVIOUS
    <3> QED
      BY <3>1, MidRises
  <2> DEFINE m1 == Mid(lo + 1)
             m2 == Mid(mid)
             m3 == Mid(mid + 1)
             m4 == Mid(hi)
  <2> HIDE DEF m1, m2, m3, m4
  <2>3. b.w * m1 <= b.w * m3 /\ a.w * m2 <= a.w * m4
    BY <1>0, <2>2, Z3 DEF m1, m2, m3, m4
  <2>4. (a.w + b.w) * m1 = a.w * m1 + b.w * m1 /\ (a.w + b.w) * m4 = a.w * m4 + b.w * m4
    BY <1>0, <2>2, Z3 DEF m1, m2, m3, m4
  <2>5. (a.w + b.w) * m1 <= a.s + b.s /\ a.s + b.s <= (a.w + b.w) * m4
    BY <1>0, <2>1, <2>2, <2>3, <2>4, Z3 DEF m1, m2, m3, m4
  <2> QED
    BY <2>5, <1>0 DEF m1, m4
<1> QED
  BY <1>4, <1>5, <1>6 DEF Pools, p

(* At first every bin is a block.                                           *)
LEMMA FitStart ==
    ASSUME PoolInv, StartPooling
    PROVE  FitInv'
<1> DEFINE W == WeightUpTo(tally)
           Y == WinsUpTo(tally)
           e == [k \in 0..Bins |-> k]
<1>1. /\ tally' = tally /\ tally \in [1..Bins -> Sum] /\ Bins \in Nat \ {0}
      /\ blocks' = [b \in 1..Bins |->
                       [s |-> tally[b].w * Mid(b), w |-> tally[b].w, y |-> tally[b].y]]
  BY CalibrationAssumption DEF StartPooling, PoolInv, CalTypeOK
<1>2. /\ Profile(W, Y)
      /\ \A b \in 1..Bins : W[b] = W[b - 1] + tally[b].w /\ Y[b] = Y[b - 1] + tally[b].y
  BY <1>1, TallySums
<1> HIDE DEF W, Y
<1>3. Len(blocks') = Bins
  <2>1. DOMAIN blocks' = 1..Bins
    BY <1>1
  <2>2. PoolInv'
    BY PoolStep DEF CalNext
  <2>3. blocks' \in Seq([s : Nat, w : Nat \ {0}, y : Nat])
    BY <2>2 DEF PoolInv, CalTypeOK
  <2> QED
    BY <1>1, <2>1, <2>3, LenProperties
<1>4. Ends(e, Bins)
  BY <1>1 DEF Ends
<1>5. ASSUME NEW i \in 1..Bins
      PROVE  Pools(blocks'[i], W, Y, e[i - 1], e[i])
  <2> DEFINE b == blocks'[i]
  <2>1. b.w = tally[i].w /\ b.y = tally[i].y /\ b.s = tally[i].w * Mid(i)
    BY <1>1
  <2>2. tally[i].w \in Nat \ {0} /\ tally[i].y \in Nat
    BY <1>1 DEF Sum
  <2>3. e[i - 1] = i - 1 /\ e[i] = i /\ i - 1 \in 0..Bins /\ i \in 0..Bins /\ (i - 1) + 1 = i
    BY <1>1
  <2>4. W[i] \in Int /\ W[i - 1] \in Int /\ Y[i] \in Int /\ Y[i - 1] \in Int
    BY <1>2, <2>3 DEF Profile
  <2>5. W[i] = W[i - 1] + tally[i].w /\ Y[i] = Y[i - 1] + tally[i].y
    BY <1>2
  <2> HIDE DEF b, e
  <2>6. b.w = W[i] - W[i - 1] /\ b.y = Y[i] - Y[i - 1]
    BY <2>1, <2>2, <2>4, <2>5
  <2>7. ASSUME NEW c \in (i - 1)..i
        PROVE  b.y * (W[c] - W[i - 1]) <= (Y[c] - Y[i - 1]) * b.w
    <3>1. CASE c = i
      <4>1. W[c] - W[i - 1] = b.w /\ Y[c] - Y[i - 1] = b.y
        BY <3>1, <2>6
      <4>2. b.w \in Nat /\ b.y \in Nat
        BY <2>1, <2>2
      <4> QED
        BY <4>1, <4>2
    <3>2. CASE c = i - 1
      <4>1. W[c] - W[i - 1] = 0 /\ Y[c] - Y[i - 1] = 0
        BY <3>2, <2>4
      <4>2. b.w \in Nat /\ b.y \in Nat
        BY <2>1, <2>2
      <4> QED
        BY <4>1, <4>2
    <3> QED
      BY <3>1, <3>2
  <2>8. b.w * Mid((i - 1) + 1) <= b.s /\ b.s <= b.w * Mid(i)
    <3>1. Mid(i) \in Int
      BY MidRises
    <3>2. tally[i].w * Mid(i) \in Int
      BY <3>1, <2>2
    <3> QED
      BY <3>2, <2>1, <2>3
  <2>9. Pools(b, W, Y, i - 1, i)
    BY <2>6, <2>7, <2>8 DEF Pools
  <2> QED
    BY <2>3, <2>9 DEF b
<1>6. Fits(blocks', W, Y, e)
  BY <1>3, <1>4, <1>5 DEF Fits
<1>7. e \in [0..Len(blocks') -> 0..Bins]
  BY <1>3, <1>1
<1>8. \E d \in [0..Len(blocks') -> 0..Bins] : Fits(blocks', W, Y, d)
  <2> HIDE DEF e
  <2> QED
    BY <1>6, <1>7
<1> QED
  BY <1>1, <1>8 DEF FitInv, W, Y

(* A pooling takes one end away.                                            *)
LEMMA FitPooled ==
    ASSUME PoolInv, FitInv, Pool
    PROVE  FitInv'
<1> DEFINE W == WeightUpTo(tally)
           Y == WinsUpTo(tally)
           m == Len(blocks)
           c == Pooled(blocks[at], blocks[at + 1])
<1>1. /\ blocks \in Seq(Block) /\ m \in Nat /\ at \in Nat \ {0} /\ at < m
      /\ phase = "pool" /\ tally' = tally /\ tally \in [1..Bins -> Sum]
      /\ Above(blocks[at], blocks[at + 1])
  <2>1. CalTypeOK /\ Len(blocks) \in Nat
    BY DEF PoolInv, CalTypeOK
  <2>2. blocks \in Seq(Block) /\ at \in Nat \ {0} /\ tally \in [1..Bins -> Sum]
    BY <2>1 DEF CalTypeOK, Block
  <2>3. at < Len(blocks) /\ phase = "pool" /\ tally' = tally /\ Above(blocks[at], blocks[at + 1])
    BY DEF Pool
  <2> QED
    BY <2>1, <2>2, <2>3
<1>2. \A i \in 1..m : blocks[i] \in Block
  BY <1>1, ElementOfSeq
<1>3. blocks' = [i \in 1..(m - 1) |->
                    IF i < at THEN blocks[i] ELSE IF i = at THEN c ELSE blocks[i + 1]]
  BY DEF Pool
<1>4. Len(blocks') = m - 1
  BY PoolTypes
<1>5. Profile(W, Y)
  BY <1>1, TallySums
<1>6. PICK e \in [0..m -> 0..Bins] : Fits(blocks, W, Y, e)
  BY <1>1 DEF FitInv
<1> HIDE DEF W, Y, m, c
<1>7. /\ e[0] = 0 /\ e[m] = Bins /\ \A i \in 1..m : e[i - 1] < e[i]
      /\ \A i \in 1..m : Pools(blocks[i], W, Y, e[i - 1], e[i])
  BY <1>6 DEF Fits, Ends, m
<1> DEFINE d == [k \in 0..(m - 1) |-> IF k < at THEN e[k] ELSE e[k + 1]]
<1>8. \A k \in 0..(m - 1) : d[k] = IF k < at THEN e[k] ELSE e[k + 1]
  OBVIOUS
<1>9. d \in [0..(m - 1) -> 0..Bins]
  <2>1. ASSUME NEW k \in 0..(m - 1)
        PROVE  (IF k < at THEN e[k] ELSE e[k + 1]) \in 0..Bins
    <3>1. k \in 0..m /\ k + 1 \in 0..m
      BY <1>1
    <3> QED
      BY <3>1
  <2> QED
    BY <2>1
<1> HIDE DEF d
<1>10. d[0] = 0 /\ d[m - 1] = Bins
  <2>1. 0 \in 0..(m - 1) /\ m - 1 \in 0..(m - 1) /\ (m - 1) + 1 = m /\ 0 < at /\ ~(m - 1 < at)
    BY <1>1
  <2> QED
    BY <2>1, <1>7, <1>8
<1>11. ASSUME NEW i \in 1..(m - 1)
       PROVE  /\ d[i - 1] < d[i]
              /\ Pools(blocks'[i], W, Y, d[i - 1], d[i])
  <2>0. i \in 1..m /\ i + 1 \in 1..m /\ i - 1 \in 0..(m - 1) /\ i \in 0..(m - 1)
        /\ (i - 1) + 1 = i /\ (i + 1) - 1 = i
    BY <1>1
  <2>1. CASE i < at
    <3>1. d[i - 1] = e[i - 1] /\ d[i] = e[i] /\ blocks'[i] = blocks[i]
      BY <2>0, <2>1, <1>1, <1>3, <1>8
    <3> QED
      BY <3>1, <2>0, <1>7
  <2>2. CASE i = at
    <3>1. d[i - 1] = e[i - 1] /\ d[i] = e[i + 1] /\ blocks'[i] = c
      BY <2>0, <2>2, <1>1, <1>3, <1>8
    <3>2. e[i - 1] < e[i] /\ e[i] < e[i + 1]
      BY <1>7, <2>0
    <3>3. e[i - 1] \in 0..Bins /\ e[i] \in 0..Bins /\ e[i + 1] \in 0..Bins
      BY <2>0, <1>1
    <3>4. Pools(blocks[i], W, Y, e[i - 1], e[i]) /\ Pools(blocks[i + 1], W, Y, e[i], e[i + 1])
      BY <1>7, <2>0
    <3>5. Pools(Pooled(blocks[i], blocks[i + 1]), W, Y, e[i - 1], e[i + 1])
      BY <3>2, <3>3, <3>4, <2>0, <2>2, <1>1, <1>2, <1>5, PoolsTogether
    <3>6. e[i - 1] < e[i + 1]
      BY <3>2, <3>3
    <3> QED
      BY <3>1, <3>5, <3>6, <2>2 DEF c
  <2>3. CASE at < i
    <3>1. d[i - 1] = e[i] /\ d[i] = e[i + 1] /\ blocks'[i] = blocks[i + 1]
      <4>1. ~(i - 1 < at) /\ ~(i < at) /\ i # at
        BY <2>0, <2>3, <1>1
      <4>2. d[i - 1] = e[(i - 1) + 1] /\ d[i] = e[i + 1]
        BY <2>0, <4>1, <1>8
      <4>3. blocks'[i] = blocks[i + 1]
        BY <4>1, <1>3
      <4> QED
        BY <4>2, <4>3, <2>0
    <3>2. e[(i + 1) - 1] < e[i + 1] /\ Pools(blocks[i + 1], W, Y, e[(i + 1) - 1], e[i + 1])
      BY <1>7, <2>0
    <3> QED
      BY <3>1, <3>2, <2>0
  <2> QED
    BY <2>1, <2>2, <2>3, <1>1
<1>12. Fits(blocks', W, Y, d)
  BY <1>4, <1>9, <1>10, <1>11 DEF Fits, Ends
<1>13. \E f \in [0..Len(blocks') -> 0..Bins] : Fits(blocks', W, Y, f)
  BY <1>4, <1>9, <1>12
<1> QED
  BY <1>1, <1>13 DEF FitInv, W, Y

LEMMA FitStep == PoolInv /\ FitInv /\ [CalNext]_calVars => FitInv'
<1> SUFFICES ASSUME PoolInv, FitInv, [CalNext]_calVars PROVE FitInv'
  OBVIOUS
<1>1. ASSUME NEW score \in Scores, NEW bull \in BOOLEAN, Tally(score, bull)
      PROVE  FitInv'
  BY <1>1 DEF Tally, FitInv
<1>2. CASE StartPooling
  BY <1>2, FitStart
<1>3. CASE Pool
  BY <1>3, FitPooled
<1>4. CASE Advance
  BY <1>4 DEF Advance, FitInv
<1>5. CASE PoolingDone
  BY <1>5 DEF PoolingDone, FitInv
<1>6. CASE NextCalibration
  BY <1>6 DEF NextCalibration, FitInv
<1>7. CASE UNCHANGED calVars
  BY <1>7 DEF calVars, FitInv
<1> QED
  BY <1>1, <1>2, <1>3, <1>4, <1>5, <1>6, <1>7 DEF CalNext

LEMMA FitInvariant == CalSpec => [](PoolInv /\ FitInv)
<1>1. CalInit => FitInv
  BY DEF CalInit, FitInv
<1> QED
  BY <1>1, PoolInvariant, FitStep, PTL DEF CalSpec

-----------------------------------------------------------------------------

InOrderUp(bs) == \A i \in 1..(Len(bs) - 1) : ~Above(bs[i], bs[i + 1])

Fitted(bs, W, Y, e) ==
    /\ Profile(W, Y) /\ bs \in Seq(Block) /\ Fits(bs, W, Y, e) /\ InOrderUp(bs)

\* What it means not to be above.
LEMMA AboveIs ==
    ASSUME NEW a \in Block, NEW b \in Block
    PROVE  /\ a.w \in Nat \ {0} /\ a.y \in Nat /\ a.s \in Nat
           /\ a.y * b.w \in Nat
           /\ ~Above(a, b) <=> a.y * b.w <= b.y * a.w
<1>1. a.w \in Nat \ {0} /\ a.y \in Nat /\ a.s \in Nat /\ b.w \in Nat \ {0} /\ b.y \in Nat
  BY DEF Block
<1>2. a.y * b.w \in Nat /\ b.y * a.w \in Nat
  BY <1>1
<1> QED
  BY <1>1, <1>2 DEF Above

LEMMA Products ==
    ASSUME NEW aw \in Nat \ {0}, NEW ay \in Int, NEW bw \in Nat \ {0}, NEW by \in Int,
           NEW cw \in Nat \ {0}, NEW cy \in Int,
           ay * bw <= by * aw, by * cw <= cy * bw
    PROVE  ay * cw <= cy * aw
<1>1. ay * bw * cw <= by * aw * cw
  BY Z3
<1>2. by * cw * aw <= cy * bw * aw
  BY Z3
<1>3. bw * (ay * cw) <= bw * (cy * aw)
  BY <1>1, <1>2, Z3
<1> QED
  BY <1>3, Z3

(* Not above is transitive.                                                 *)
LEMMA RatesCompose ==
    ASSUME NEW a \in Block, NEW b \in Block, NEW c \in Block, ~Above(a, b), ~Above(b, c)
    PROVE  ~Above(a, c)
<1> DEFINE aw == a.w
           ay == a.y
           bw == b.w
           by == b.y
           cw == c.w
           cy == c.y
<1>1. aw \in Nat \ {0} /\ ay \in Nat /\ bw \in Nat \ {0} /\ by \in Nat
      /\ cw \in Nat \ {0} /\ cy \in Nat
  BY AboveIs
<1>2. ay * bw <= by * aw /\ by * cw <= cy * bw
  BY AboveIs
<1>3. ay * cw <= cy * aw => ~Above(a, c)
  BY AboveIs
<1> HIDE DEF aw, ay, bw, by, cw, cy
<1>4. ay * cw <= cy * aw
  BY <1>1, <1>2, Products
<1> QED
  BY <1>3, <1>4

LEMMA RatesRise ==
    ASSUME NEW bs \in Seq(Block), InOrderUp(bs),
           NEW i \in 1..Len(bs), NEW j \in 1..Len(bs), i <= j
    PROVE  ~Above(bs[i], bs[j])
<1> DEFINE n == Len(bs)
           A == {d \in Nat : i + d <= n => ~Above(bs[i], bs[i + d])}
<1>0. n \in Nat /\ i \in Nat /\ j \in Nat /\ i \in 1..n /\ j \in 1..n
  BY LenProperties
<1>1. \A k \in 1..n : bs[k] \in Block
  BY ElementOfSeq
<1>2. \A k \in 1..(n - 1) : ~Above(bs[k], bs[k + 1])
  BY DEF InOrderUp
<1> HIDE DEF n
<1>3. 0 \in A
  <2>1. ~Above(bs[i], bs[i])
    <3> DEFINE b == bs[i]
    <3>1. b \in Block
      BY <1>0, <1>1
    <3> HIDE DEF b
    <3>2. b.y * b.w \in Nat
      BY <3>1, AboveIs
    <3> QED
      BY <3>1, <3>2, AboveIs DEF b
  <2>2. i + 0 = i
    BY <1>0
  <2> QED
    BY <2>1, <2>2
<1>4. ASSUME NEW d \in Nat, d \in A PROVE d + 1 \in A
  <2>1. SUFFICES ASSUME i + (d + 1) <= n PROVE ~Above(bs[i], bs[i + (d + 1)])
    OBVIOUS
  <2> DEFINE m == i + d
  <2>2. m \in 1..(n - 1) /\ m \in 1..n /\ m + 1 \in 1..n /\ i + (d + 1) = m + 1
    BY <1>0, <2>1
  <2>3. ~Above(bs[i], bs[m])
    BY <1>4, <2>1, <1>0
  <2> HIDE DEF m
  <2>4. ~Above(bs[m], bs[m + 1])
    BY <2>2, <1>2
  <2>5. ~Above(bs[i], bs[m + 1])
    BY <1>0, <1>1, <2>2, <2>3, <2>4, RatesCompose
  <2> QED
    BY <2>2, <2>5
<1> HIDE DEF A
<1>5. Nat \subseteq A
  BY <1>3, <1>4, Induction
<1>6. j - i \in Nat /\ i + (j - i) = j /\ j <= n
  BY <1>0
<1>7. j - i \in A
  BY <1>5, <1>6
<1> QED
  BY <1>6, <1>7 DEF A

(* Every bin is in a block ...                                              *)
LEMMA BinInBlock ==
    ASSUME NEW n \in Nat, NEW e, Ends(e, n), NEW c \in 1..Bins
    PROVE  \E j \in 1..n : e[j - 1] < c /\ c <= e[j]
<1> DEFINE A == {j \in 0..n : c <= e[j]}
<1>0. Bins \in Nat /\ e \in [0..n -> 0..Bins] /\ e[0] = 0 /\ e[n] = Bins
  BY CalibrationAssumption DEF Ends
<1>1. A \in SUBSET Nat /\ n \in A
  BY <1>0
<1>2. PICK j \in A : \A k \in A : j <= k
  BY <1>1, LeastElement
<1>3. j \in 1..n
  BY <1>0, <1>2
<1>4. e[j - 1] < c
  <2>1. j - 1 \in 0..n /\ ~(j <= j - 1)
    BY <1>3
  <2>2. j - 1 \notin A
    BY <2>1, <1>2
  <2>3. e[j - 1] \in 0..Bins
    BY <2>1, <1>0
  <2> QED
    BY <2>1, <2>2, <2>3, <1>0
<1> QED
  BY <1>2, <1>3, <1>4

(* ... and the ends of the blocks rise.                                     *)
LEMMA EndsRise ==
    ASSUME NEW n \in Nat, NEW e, Ends(e, n), NEW j \in 0..n, NEW k \in 0..n, j < k
    PROVE  e[j] < e[k]
<1> DEFINE A == {d \in Nat : j + d + 1 <= n => e[j] < e[j + d + 1]}
<1>0. Bins \in Nat /\ e \in [0..n -> 0..Bins] /\ \A i \in 1..n : e[i - 1] < e[i]
  BY CalibrationAssumption DEF Ends
<1>1. 0 \in A
  <2>1. SUFFICES ASSUME j + 0 + 1 <= n PROVE e[j] < e[j + 0 + 1]
    OBVIOUS
  <2>2. j + 0 + 1 \in 1..n /\ (j + 0 + 1) - 1 = j
    BY <2>1
  <2> QED
    BY <2>2, <1>0
<1>2. ASSUME NEW d \in Nat, d \in A PROVE d + 1 \in A
  <2>1. SUFFICES ASSUME j + (d + 1) + 1 <= n PROVE e[j] < e[j + (d + 1) + 1]
    OBVIOUS
  <2> DEFINE m == j + d + 1
  <2>2. m \in 0..n /\ m + 1 \in 1..n /\ m + 1 \in 0..n /\ (m + 1) - 1 = m
        /\ j + (d + 1) + 1 = m + 1
    BY <2>1
  <2>3. e[j] < e[m]
    BY <1>2, <2>1
  <2> HIDE DEF m
  <2>4. e[m] < e[m + 1]
    BY <2>2, <1>0
  <2>5. e[j] \in 0..Bins /\ e[m] \in 0..Bins /\ e[m + 1] \in 0..Bins
    BY <2>2, <1>0
  <2> QED
    BY <2>2, <2>3, <2>4, <2>5
<1> HIDE DEF A
<1>3. Nat \subseteq A
  BY <1>1, <1>2, Induction
<1>4. k - j - 1 \in Nat /\ j + (k - j - 1) + 1 = k
  OBVIOUS
<1> QED
  BY <1>3, <1>4 DEF A

\* What the first bins won beyond the rate of block b, times its weight.
Gain(W, Y, b) == [k \in 0..Bins |-> Y[k] * b.w - b.y * W[k]]

\* Bins p of a block (or its tail) with a rate not below (above) that of b.
LEMMA NotBelow ==
    ASSUME NEW fw \in Nat \ {0}, NEW fy \in Nat, NEW bw \in Nat \ {0}, NEW by \in Nat,
           NEW pw \in Nat, NEW py \in Int,
           fy * bw <= by * fw, by * pw <= py * bw
    PROVE  fy * pw <= py * fw
<1>1. fy * bw * pw <= by * fw * pw
  BY Z3
<1>2. by * pw * fw <= py * bw * fw
  BY Z3
<1>3. bw * (fy * pw) <= bw * (py * fw)
  BY <1>1, <1>2, Z3
<1> QED
  BY <1>3, Z3

LEMMA NotAbove ==
    ASSUME NEW fw \in Nat \ {0}, NEW fy \in Nat, NEW bw \in Nat \ {0}, NEW by \in Nat,
           NEW pw \in Nat, NEW py \in Int,
           by * fw <= fy * bw, py * bw <= by * pw
    PROVE  py * fw <= fy * pw
<1>1. by * fw * pw <= fy * bw * pw
  BY Z3
<1>2. py * bw * fw <= by * pw * fw
  BY Z3
<1>3. bw * (py * fw) <= bw * (fy * pw)
  BY <1>1, <1>2, Z3
<1> QED
  BY <1>3, Z3

LEMMA GainDifference ==
    ASSUME NEW a \in Int, NEW b \in Int, NEW c \in Int, NEW d \in Int,
           NEW fw \in Int, NEW fy \in Int
    PROVE  (a * fw - fy * b) - (c * fw - fy * d) = (a - c) * fw - fy * (b - d)
  BY Z3

\* The gain at the bounds of a block and within it, in numbers.
LEMMA GainNumbers ==
    ASSUME NEW fw \in Nat \ {0}, NEW fy \in Nat, NEW bw \in Nat \ {0}, NEW by \in Nat,
           NEW wlo \in Int, NEW wc \in Int, NEW whi \in Int,
           NEW ylo \in Int, NEW yc \in Int, NEW yhi \in Int,
           wlo <= wc, wc <= whi, bw = whi - wlo, by = yhi - ylo,
           by * (wc - wlo) <= (yc - ylo) * bw
    PROVE  /\ fy * bw <= by * fw => ylo * fw - fy * wlo <= yc * fw - fy * wc
           /\ by * fw <= fy * bw => yhi * fw - fy * whi <= yc * fw - fy * wc
<1> DEFINE pw == wc - wlo
           py == yc - ylo
           sw == whi - wc
           sy == yhi - yc
<1>1. pw \in Nat /\ py \in Int /\ sw \in Nat /\ sy \in Int /\ bw = pw + sw /\ by = py + sy
  OBVIOUS
<1>2. (yc * fw - fy * wc) - (ylo * fw - fy * wlo) = py * fw - fy * pw
  BY GainDifference
<1>3. (yhi * fw - fy * whi) - (yc * fw - fy * wc) = sy * fw - fy * sw
  BY GainDifference
<1>4. yc * fw \in Int /\ fy * wc \in Int /\ ylo * fw \in Int /\ fy * wlo \in Int
      /\ yhi * fw \in Int /\ fy * whi \in Int
  OBVIOUS
<1>5. by * pw <= py * bw
  OBVIOUS
<1> HIDE DEF pw, py, sw, sy
<1>6. sy * bw <= by * sw
  BY <1>1, <1>5, Z3
<1>7. ASSUME fy * bw <= by * fw PROVE fy * pw <= py * fw
  BY <1>1, <1>5, <1>7, NotBelow
<1>8. ASSUME by * fw <= fy * bw PROVE sy * fw <= fy * sw
  BY <1>1, <1>6, <1>8, NotAbove
<1>9. fy * pw \in Int /\ py * fw \in Int /\ sy * fw \in Int /\ fy * sw \in Int
  BY <1>1
<1> QED
  BY <1>2, <1>3, <1>4, <1>7, <1>8, <1>9

(* Within a later block the gain is nowhere below its beginning; within an  *)
(* earlier one, nowhere below its end.                                      *)
LEMMA GainInBlock ==
    ASSUME NEW bs, NEW W, NEW Y, NEW e, Fitted(bs, W, Y, e),
           NEW i \in 1..Len(bs), NEW j \in 1..Len(bs), NEW c \in e[j - 1]..e[j]
    PROVE  /\ i <= j => Gain(W, Y, bs[i])[e[j - 1]] <= Gain(W, Y, bs[i])[c]
           /\ j <= i => Gain(W, Y, bs[i])[e[j]] <= Gain(W, Y, bs[i])[c]
<1> DEFINE n == Len(bs)
           f == bs[i]
           b == bs[j]
           lo == e[j - 1]
           hi == e[j]
<1>1. /\ bs \in Seq(Block) /\ InOrderUp(bs) /\ n \in Nat /\ Bins \in Nat
      /\ Profile(W, Y) /\ Fits(bs, W, Y, e)
  BY CalibrationAssumption, LenProperties DEF Fitted
<1>2. f \in Block /\ b \in Block
  BY <1>1, ElementOfSeq
<1>3. f.w \in Nat \ {0} /\ f.y \in Nat /\ b.w \in Nat \ {0} /\ b.y \in Nat
  BY <1>2 DEF Block
<1>4. lo \in 0..Bins /\ hi \in 0..Bins /\ lo < hi
  <2>1. /\ e \in [0..n -> 0..Bins]
        /\ \A k \in 1..n : e[k - 1] < e[k]
    BY <1>1 DEF Fits, Ends
  <2>2. j - 1 \in 0..n /\ j \in 0..n /\ j \in 1..n
    BY <1>1
  <2> QED
    BY <2>1, <2>2
<1>5. Pools(b, W, Y, lo, hi)
  BY <1>1 DEF Fits
<1>6. i <= j => f.y * b.w <= b.y * f.w
  <2>1. i <= j => ~Above(f, b)
    BY <1>1, RatesRise
  <2> QED
    BY <2>1, <1>2, AboveIs
<1>7. j <= i => b.y * f.w <= f.y * b.w
  <2>1. j <= i => ~Above(b, f)
    BY <1>1, RatesRise
  <2> QED
    BY <2>1, <1>2, AboveIs
<1>8. c \in lo..hi
  OBVIOUS
<1> HIDE DEF f, b, lo, hi, n
<1>9. c \in 0..Bins /\ lo <= c /\ c <= hi
  BY <1>4, <1>8, <1>1
<1>10. /\ W[c] \in Int /\ W[lo] \in Int /\ W[hi] \in Int
       /\ Y[c] \in Int /\ Y[lo] \in Int /\ Y[hi] \in Int
  BY <1>1, <1>4, <1>9 DEF Profile
<1>11. W[lo] <= W[c] /\ W[c] <= W[hi]
  <2>1. c = lo \/ W[lo] < W[c]
    BY <1>1, <1>4, <1>9, WeightsRise
  <2>2. c = hi \/ W[c] < W[hi]
    BY <1>1, <1>4, <1>9, WeightsRise
  <2> QED
    BY <2>1, <2>2, <1>10
<1>12. b.y * (W[c] - W[lo]) <= (Y[c] - Y[lo]) * b.w /\ b.w = W[hi] - W[lo] /\ b.y = Y[hi] - Y[lo]
  BY <1>5, <1>8 DEF Pools
<1>13. /\ f.y * b.w <= b.y * f.w => Y[lo] * f.w - f.y * W[lo] <= Y[c] * f.w - f.y * W[c]
       /\ b.y * f.w <= f.y * b.w => Y[hi] * f.w - f.y * W[hi] <= Y[c] * f.w - f.y * W[c]
  BY <1>3, <1>10, <1>11, <1>12, GainNumbers, Zenon
<1> DEFINE g == Gain(W, Y, f)
<1>14. /\ g[c] = Y[c] * f.w - f.y * W[c]
       /\ g[lo] = Y[lo] * f.w - f.y * W[lo]
       /\ g[hi] = Y[hi] * f.w - f.y * W[hi]
  BY <1>4, <1>9 DEF Gain
<1> HIDE DEF g
<1>15. (i <= j => g[lo] <= g[c]) /\ (j <= i => g[hi] <= g[c])
  BY <1>6, <1>7, <1>13, <1>14, Zenon
<1> QED
  BY <1>15 DEF g, f, lo, hi

(* What is known of the blocks, their ends and the gain.                    *)
LEMMA FittedFacts ==
    ASSUME NEW bs, NEW W, NEW Y, NEW e, Fitted(bs, W, Y, e), NEW i \in 1..Len(bs)
    PROVE  /\ Bins \in Nat \ {0} /\ Len(bs) \in Nat
           /\ \A k \in 1..Len(bs) : bs[k] \in Block
           /\ Ends(e, Len(bs)) /\ e[0] = 0 /\ e[Len(bs)] = Bins
           /\ \A k \in 0..Len(bs) : e[k] \in 0..Bins
           /\ \A k \in 1..Len(bs) : e[k - 1] < e[k]
           /\ \A k \in 0..Bins : Gain(W, Y, bs[i])[k] \in Int
<1>1. /\ bs \in Seq(Block) /\ Len(bs) \in Nat /\ Profile(W, Y) /\ Ends(e, Len(bs))
  BY LenProperties DEF Fitted, Fits
<1>2. \A k \in 1..Len(bs) : bs[k] \in Block
  BY <1>1, ElementOfSeq
<1>3. /\ e \in [0..Len(bs) -> 0..Bins] /\ e[0] = 0 /\ e[Len(bs)] = Bins
      /\ \A k \in 1..Len(bs) : e[k - 1] < e[k]
  BY <1>1 DEF Ends
<1>4. ASSUME NEW k \in 0..Bins PROVE Gain(W, Y, bs[i])[k] \in Int
  <2>1. bs[i].w \in Nat /\ bs[i].y \in Nat /\ W[k] \in Int /\ Y[k] \in Int
    BY <1>1, <1>2, AboveIs DEF Profile
  <2>2. Y[k] * bs[i].w \in Int /\ bs[i].y * W[k] \in Int
    BY <2>1
  <2>3. Gain(W, Y, bs[i])[k] = Y[k] * bs[i].w - bs[i].y * W[k]
    BY DEF Gain
  <2> QED
    BY <2>2, <2>3
<1>5. Bins \in Nat \ {0}
  BY CalibrationAssumption
<1>6. \A k \in 0..Len(bs) : e[k] \in 0..Bins
  BY <1>3
<1> QED
  BY <1>1, <1>2, <1>3, <1>4, <1>5, <1>6

(* From the beginning of a block on, the gain is not below that there.      *)
LEMMA GainAfter ==
    ASSUME NEW bs, NEW W, NEW Y, NEW e, Fitted(bs, W, Y, e),
           NEW i \in 1..Len(bs), NEW c \in e[i - 1]..Bins
    PROVE  Gain(W, Y, bs[i])[e[i - 1]] <= Gain(W, Y, bs[i])[c]
<1> DEFINE n == Len(bs)
           g == Gain(W, Y, bs[i])
           A == {d \in Nat : (i - 1) + d <= n => g[e[i - 1]] <= g[e[(i - 1) + d]]}
<1>0. /\ Bins \in Nat \ {0} /\ n \in Nat /\ Ends(e, n) /\ e[0] = 0
      /\ \A k \in 0..n : e[k] \in 0..Bins
      /\ \A k \in 1..n : e[k - 1] < e[k]
      /\ \A k \in 0..Bins : g[k] \in Int
  BY FittedFacts
<1>1. ASSUME NEW j \in 1..n, i <= j, NEW b \in e[j - 1]..e[j]
      PROVE  g[e[j - 1]] <= g[b]
  BY <1>1, GainInBlock
<1>2. i \in 1..n /\ i - 1 \in 0..n
  BY <1>0
<1> HIDE DEF n, g
<1>3. \A k \in 0..n : g[e[k]] \in Int
  BY <1>0
<1>4. 0 \in A
  BY <1>2, <1>3
<1>5. ASSUME NEW d \in Nat, d \in A PROVE d + 1 \in A
  <2>1. SUFFICES ASSUME (i - 1) + (d + 1) <= n
                 PROVE  g[e[i - 1]] <= g[e[(i - 1) + (d + 1)]]
    OBVIOUS
  <2> DEFINE j == i + d
  <2>2. j \in 1..n /\ i <= j /\ (i - 1) + d = j - 1 /\ (i - 1) + (d + 1) = j
        /\ j - 1 \in 0..n /\ j \in 0..n
    BY <1>0, <1>2, <2>1
  <2>3. g[e[i - 1]] <= g[e[j - 1]]
    BY <1>5, <2>2, <1>0
  <2> HIDE DEF j
  <2>4. e[j] \in e[j - 1]..e[j]
    <3>1. e[j - 1] < e[j] /\ e[j] \in 0..Bins /\ e[j - 1] \in 0..Bins
      BY <2>2, <1>0
    <3> QED
      BY <3>1
  <2>5. g[e[j - 1]] <= g[e[j]]
    BY <2>2, <2>4, <1>1
  <2>6. g[e[i - 1]] \in Int /\ g[e[j - 1]] \in Int /\ g[e[j]] \in Int
    BY <1>2, <1>3, <2>2
  <2>7. g[e[i - 1]] <= g[e[j]]
    BY <2>3, <2>5, <2>6
  <2> QED
    BY <2>2, <2>7
<1> HIDE DEF A
<1>6. Nat \subseteq A
  BY <1>4, <1>5, Induction
<1>7. e[i - 1] \in 0..Bins /\ c \in 0..Bins /\ e[i - 1] <= c
  BY <1>0, <1>2
<1>8. CASE c = 0
  <2>1. e[i - 1] = c
    BY <1>7, <1>8
  <2> QED
    BY <2>1, <1>0, <1>7 DEF g
<1>9. CASE c # 0
  <2>1. c \in 1..Bins
    BY <1>7, <1>9
  <2>2. PICK j \in 1..n : e[j - 1] < c /\ c <= e[j]
    BY <2>1, <1>0, BinInBlock
  <2>3. j \in 0..n /\ j - 1 \in 0..n /\ e[j] \in 0..Bins /\ e[j - 1] \in 0..Bins
    BY <1>0
  <2>4. CASE i <= j
    <3>1. (j - i) \in A /\ (i - 1) + (j - i) = j - 1
      BY <1>2, <1>6, <2>4
    <3>2. g[e[i - 1]] <= g[e[j - 1]]
      BY <3>1, <2>3 DEF A
    <3>3. c \in e[j - 1]..e[j]
      BY <2>2, <2>3, <1>7
    <3>4. g[e[j - 1]] <= g[c]
      BY <3>3, <2>4, <1>1
    <3>5. g[e[i - 1]] \in Int /\ g[e[j - 1]] \in Int /\ g[c] \in Int
      BY <1>0, <1>2, <1>3, <1>7, <2>3
    <3> QED
      BY <3>2, <3>4, <3>5 DEF g
  <2>5. CASE j < i
    <3>1. j = i - 1 \/ j < i - 1
      BY <2>5, <1>2
    <3>2. e[j] <= e[i - 1]
      BY <3>1, <2>3, <1>0, <1>2, <1>7, EndsRise
    <3>3. c = e[i - 1]
      BY <3>2, <2>2, <2>3, <1>7
    <3> QED
      BY <3>3, <1>0, <1>7 DEF g
  <2> QED
    BY <2>4, <2>5, <1>2
<1> QED
  BY <1>8, <1>9

(* Up to the end of a block, the gain is not below that there.              *)
LEMMA GainBefore ==
    ASSUME NEW bs, NEW W, NEW Y, NEW e, Fitted(bs, W, Y, e),
           NEW i \in 1..Len(bs), NEW c \in 0..e[i]
    PROVE  Gain(W, Y, bs[i])[e[i]] <= Gain(W, Y, bs[i])[c]
<1> DEFINE n == Len(bs)
           g == Gain(W, Y, bs[i])
           A == {d \in Nat : d <= i => g[e[i]] <= g[e[i - d]]}
<1>0. /\ Bins \in Nat \ {0} /\ n \in Nat /\ Ends(e, n) /\ e[0] = 0
      /\ \A k \in 0..n : e[k] \in 0..Bins
      /\ \A k \in 1..n : e[k - 1] < e[k]
      /\ \A k \in 0..Bins : g[k] \in Int
  BY FittedFacts
<1>1. ASSUME NEW j \in 1..n, j <= i, NEW b \in e[j - 1]..e[j]
      PROVE  g[e[j]] <= g[b]
  BY <1>1, GainInBlock
<1>2. i \in 1..n /\ i \in 0..n
  BY <1>0
<1> HIDE DEF n, g
<1>3. \A k \in 0..n : g[e[k]] \in Int
  BY <1>0
<1>4. 0 \in A
  <2>1. i - 0 = i
    BY <1>2
  <2> QED
    BY <2>1, <1>2, <1>3
<1>5. ASSUME NEW d \in Nat, d \in A PROVE d + 1 \in A
  <2>1. SUFFICES ASSUME d + 1 <= i PROVE g[e[i]] <= g[e[i - (d + 1)]]
    OBVIOUS
  <2> DEFINE j == i - d
  <2>2. j \in 1..n /\ j <= i /\ d <= i /\ i - (d + 1) = j - 1 /\ j - 1 \in 0..n /\ j \in 0..n
    BY <1>0, <1>2, <2>1
  <2>3. g[e[i]] <= g[e[j]]
    BY <1>5, <2>2
  <2> HIDE DEF j
  <2>4. e[j - 1] \in e[j - 1]..e[j]
    <3>1. e[j - 1] < e[j] /\ e[j] \in 0..Bins /\ e[j - 1] \in 0..Bins
      BY <2>2, <1>0
    <3> QED
      BY <3>1
  <2>5. g[e[j]] <= g[e[j - 1]]
    BY <2>2, <2>4, <1>1
  <2>6. g[e[i]] \in Int /\ g[e[j - 1]] \in Int /\ g[e[j]] \in Int
    BY <1>2, <1>3, <2>2
  <2>7. g[e[i]] <= g[e[j - 1]]
    BY <2>3, <2>5, <2>6
  <2> QED
    BY <2>2, <2>7
<1> HIDE DEF A
<1>6. Nat \subseteq A
  BY <1>4, <1>5, Induction
<1>7. e[i] \in 0..Bins /\ c \in 0..Bins /\ c <= e[i]
  BY <1>0, <1>2
<1>8. CASE c = 0
  <2>1. i \in A /\ i - i = 0 /\ i <= i
    BY <1>2, <1>6
  <2>2. g[e[i]] <= g[e[0]]
    BY <2>1 DEF A
  <2> QED
    BY <2>2, <1>0, <1>8 DEF g
<1>9. CASE c # 0
  <2>1. c \in 1..Bins
    BY <1>7, <1>9
  <2>2. PICK j \in 1..n : e[j - 1] < c /\ c <= e[j]
    BY <2>1, <1>0, BinInBlock
  <2>3. j \in 0..n /\ j - 1 \in 0..n /\ e[j] \in 0..Bins /\ e[j - 1] \in 0..Bins
    BY <1>0
  <2>4. CASE j <= i
    <3>1. (i - j) \in A /\ i - (i - j) = j /\ i - j <= i
      BY <1>2, <1>6, <2>4
    <3>2. g[e[i]] <= g[e[j]]
      BY <3>1 DEF A
    <3>3. c \in e[j - 1]..e[j]
      BY <2>2, <2>3, <1>7
    <3>4. g[e[j]] <= g[c]
      BY <3>3, <2>4, <1>1
    <3>5. g[e[i]] \in Int /\ g[e[j]] \in Int /\ g[c] \in Int
      BY <1>0, <1>2, <1>3, <1>7, <2>3
    <3> QED
      BY <3>2, <3>4, <3>5 DEF g
  <2>5. CASE i < j
    <3>1. j - 1 = i \/ i < j - 1
      BY <2>5, <1>2
    <3>2. e[i] <= e[j - 1]
      BY <3>1, <2>3, <1>0, <1>2, <1>7, EndsRise
    <3> QED
      BY <3>2, <2>2, <2>3, <1>7
  <2> QED
    BY <2>4, <2>5, <1>2
<1> QED
  BY <1>8, <1>9

-----------------------------------------------------------------------------

\* The weight of the first blocks.
BlocksUpTo(bs, i) == SumFunctionOnSet([j \in DOMAIN bs |-> bs[j].w], 1..i)

(* It is the weight of their bins.                                          *)
LEMMA BlockSums ==
    ASSUME NEW bs, NEW W, NEW Y, NEW e, Fitted(bs, W, Y, e), NEW i \in 0..Len(bs)
    PROVE  BlocksUpTo(bs, i) = W[e[i]]
<1> DEFINE n == Len(bs)
           h == [j \in DOMAIN bs |-> bs[j].w]
           U == [k \in 0..n |-> SumFunctionOnSet(h, 1..k)]
           A == {k \in Nat : k <= n => U[k] = W[e[k]]}
<1>1. /\ bs \in Seq(Block) /\ n \in Nat /\ Profile(W, Y) /\ Fits(bs, W, Y, e)
      /\ DOMAIN bs = 1..n
  BY LenProperties DEF Fitted
<1>2. \A k \in 1..n : bs[k] \in Block
  BY <1>1, ElementOfSeq
<1>3. /\ \A k \in 0..n : e[k] \in 0..Bins
      /\ e[0] = 0
      /\ \A k \in 1..n : bs[k].w = W[e[k]] - W[e[k - 1]]
  BY <1>1 DEF Fits, Ends, Pools
<1>4. \A k \in 0..Bins : W[k] \in Int
  BY <1>1 DEF Profile
<1>5. W[0] = 0
  BY <1>1 DEF Profile
<1> HIDE DEF n
<1>6. h \in [1..n -> Int]
  <2>1. \A k \in 1..n : bs[k].w \in Int
    BY <1>2 DEF Block
  <2> QED
    BY <2>1, <1>1
<1>7. \A k \in 1..n : h[k] = bs[k].w
  BY <1>1
<1> HIDE DEF h
<1>8. SumsUp(U, h, n)
  BY <1>1, <1>6, PrefixSums
<1>9. i \in 0..n /\ U[i] = SumFunctionOnSet(h, 1..i)
  BY DEF n
<1> HIDE DEF U
<1>10. 0 \in A
  BY <1>3, <1>5, <1>8 DEF SumsUp
<1>11. ASSUME NEW k \in Nat, k \in A PROVE k + 1 \in A
  <2>1. SUFFICES ASSUME k + 1 <= n PROVE U[k + 1] = W[e[k + 1]]
    OBVIOUS
  <2>2. k + 1 \in 1..n /\ (k + 1) - 1 = k /\ k \in 0..n /\ k + 1 \in 0..n /\ k <= n
    BY <1>1, <2>1
  <2>3. U[k] = W[e[k]]
    BY <1>11, <2>2
  <2>4. U[k + 1] = U[k] + h[k + 1]
    BY <1>8, <2>2 DEF SumsUp
  <2>5. h[k + 1] = W[e[k + 1]] - W[e[k]]
    BY <1>3, <1>7, <2>2
  <2>6. W[e[k]] \in Int /\ W[e[k + 1]] \in Int
    BY <1>3, <1>4, <2>2
  <2> QED
    BY <2>3, <2>4, <2>5, <2>6
<1> HIDE DEF A
<1>12. Nat \subseteq A
  BY <1>10, <1>11, Induction
<1>13. i \in Nat /\ i <= n
  BY <1>9, <1>1
<1>14. U[i] = W[e[i]]
  BY <1>12, <1>13 DEF A
<1> QED
  BY <1>9, <1>14 DEF BlocksUpTo, h

\* Block i is the first whose weight with those before reaches bin b.
Reaches(bs, W, b, i) ==
    /\ BlocksUpTo(bs, i) >= W[b]
    /\ \A k \in 1..(i - 1) : BlocksUpTo(bs, k) < W[b]

(* The block of a bin is the one whose range holds it.                      *)
LEMMA ReachesIs ==
    ASSUME NEW bs, NEW W, NEW Y, NEW e, Fitted(bs, W, Y, e), NEW b \in 1..Bins
    PROVE  /\ \E i \in 1..Len(bs) : Reaches(bs, W, b, i)
           /\ \A i \in 1..Len(bs) : Reaches(bs, W, b, i) => e[i - 1] < b /\ b <= e[i]
<1> DEFINE n == Len(bs)
<1>1. /\ n \in Nat /\ Profile(W, Y) /\ Ends(e, n) /\ Bins \in Nat
  BY CalibrationAssumption, LenProperties DEF Fitted, Fits
<1>2. /\ \A k \in 0..n : e[k] \in 0..Bins
      /\ e[0] = 0
  BY <1>1 DEF Ends
<1>3. \A k \in 0..n : BlocksUpTo(bs, k) = W[e[k]]
  BY BlockSums
<1> HIDE DEF n
<1>4. b \in 0..Bins /\ \A k \in 0..Bins : W[k] \in Int
  BY <1>1 DEF Profile
<1>5. ASSUME NEW k \in 0..n PROVE (e[k] < b) <=> (W[e[k]] < W[b])
  <2>1. e[k] \in 0..Bins /\ W[e[k]] \in Int /\ W[b] \in Int
    BY <1>2, <1>4
  <2>2. e[k] < b => W[e[k]] < W[b]
    BY <2>1, <1>1, <1>4, WeightsRise
  <2>3. b < e[k] => W[b] < W[e[k]]
    BY <2>1, <1>1, <1>4, WeightsRise
  <2> QED
    BY <2>1, <2>2, <2>3
<1>6. \E i \in 1..n : Reaches(bs, W, b, i)
  <2>1. PICK j \in 1..n : e[j - 1] < b /\ b <= e[j]
    BY <1>1, BinInBlock
  <2>2. j \in 0..n /\ j - 1 \in 0..n /\ e[j] \in 0..Bins /\ e[j - 1] \in 0..Bins
    BY <1>1, <1>2
  <2>3. BlocksUpTo(bs, j) >= W[b]
    <3>1. ~(W[e[j]] < W[b])
      BY <1>5, <2>1, <2>2
    <3> QED
      BY <3>1, <1>3, <1>4, <2>2
  <2>4. ASSUME NEW k \in 1..(j - 1) PROVE BlocksUpTo(bs, k) < W[b]
    <3>1. k \in 0..n /\ (k = j - 1 \/ k < j - 1)
      BY <2>2, <1>1
    <3>2. e[k] \in 0..Bins
      BY <3>1, <1>2
    <3>3. k < j - 1 => e[k] < e[j - 1]
      BY <3>1, <2>2, <1>1, EndsRise
    <3>4. e[k] < b
      BY <3>1, <3>2, <3>3, <2>1, <2>2
    <3> QED
      BY <3>1, <3>4, <1>3, <1>5
  <2> QED
    BY <2>3, <2>4 DEF Reaches
<1>7. ASSUME NEW i \in 1..n, Reaches(bs, W, b, i)
      PROVE  e[i - 1] < b /\ b <= e[i]
  <2>1. i \in 0..n /\ i - 1 \in 0..n /\ e[i] \in 0..Bins /\ e[i - 1] \in 0..Bins
    BY <1>1, <1>2
  <2>2. b <= e[i]
    <3>1. W[e[i]] >= W[b] /\ W[e[i]] \in Int /\ W[b] \in Int
      BY <1>7, <1>3, <1>4, <2>1 DEF Reaches
    <3>2. ~(e[i] < b)
      BY <3>1, <1>5, <2>1
    <3> QED
      BY <3>2, <2>1
  <2>3. e[i - 1] < b
    <3>1. CASE i = 1
      BY <3>1, <1>2
    <3>2. CASE i # 1
      <4>1. i - 1 \in 1..(i - 1)
        BY <3>2
      <4>2. W[e[i - 1]] < W[b]
        BY <4>1, <1>7, <1>3, <2>1 DEF Reaches
      <4> QED
        BY <4>2, <1>5, <2>1
    <3> QED
      BY <3>1, <3>2
  <2> QED
    BY <2>2, <2>3
<1> QED
  BY <1>6, <1>7 DEF n

LEMMA BlockOfBin ==
    ASSUME tally \in [1..Bins -> Sum], NEW e,
           Fitted(blocks, WeightUpTo(tally), WinsUpTo(tally), e), NEW b \in 1..Bins
    PROVE  \E i \in 1..Len(blocks) : BlockOf(b) = blocks[i] /\ e[i - 1] < b /\ b <= e[i]
<1> DEFINE W == WeightUpTo(tally)
           Y == WinsUpTo(tally)
           i == CHOOSE i \in 1..Len(blocks) : Reaches(blocks, W, b, i)
<1>1. Profile(W, Y)
  BY TallySums
<1>2. Segment(1, b).w = W[b]
  <2>1. 1 \in 1..Bins /\ b \in 1..Bins /\ 1 - 1 = 0 /\ b \in 0..Bins
    BY CalibrationAssumption
  <2>2. Segment(1, b) = [w |-> W[b] - W[1 - 1], y |-> Y[b] - Y[1 - 1]]
    BY <2>1, SegmentIs
  <2>3. W[0] = 0 /\ W[b] \in Int
    BY <1>1, <2>1 DEF Profile
  <2> HIDE DEF W, Y
  <2>4. Segment(1, b).w = W[b] - W[0]
    BY <2>1, <2>2
  <2> QED
    BY <2>3, <2>4
<1>3. BlockOf(b) = blocks[i]
  <2> HIDE DEF W
  <2>1. BlockOf(b) = blocks[CHOOSE l \in 1..Len(blocks) :
                  /\ BlocksUpTo(blocks, l) >= Segment(1, b).w
                  /\ \A k \in 1..(l - 1) : BlocksUpTo(blocks, k) < Segment(1, b).w]
    BY Zenon DEF BlockOf, BlocksUpTo
  <2>2. BlockOf(b) = blocks[CHOOSE l \in 1..Len(blocks) :
                  /\ BlocksUpTo(blocks, l) >= W[b]
                  /\ \A k \in 1..(l - 1) : BlocksUpTo(blocks, k) < W[b]]
    BY <1>2, <2>1, Zenon
  <2> QED
    BY <2>2, Zenon DEF Reaches
<1>4. \E l \in 1..Len(blocks) : Reaches(blocks, W, b, l)
  BY ReachesIs
<1>5. i \in 1..Len(blocks) /\ Reaches(blocks, W, b, i)
  <2> HIDE DEF W
  <2> QED
    BY <1>4, Zenon
<1> HIDE DEF i
<1>6. e[i - 1] < b /\ b <= e[i]
  BY <1>5, ReachesIs
<1> QED
  BY <1>3, <1>5, <1>6

(* A finished fit is the isotonic regression.                               *)
LEMMA FitIsRegression ==
    ASSUME PoolInv, FitInv, phase = "done", NEW b \in 1..Bins
    PROVE  /\ \E a \in 1..b : \A c \in b..Bins : Leq(BlockOf(b), Segment(a, c))
           /\ \A a \in 1..b : \E c \in b..Bins : Leq(Segment(a, c), BlockOf(b))
<1> DEFINE W == WeightUpTo(tally)
           Y == WinsUpTo(tally)
           n == Len(blocks)
<1>1. tally \in [1..Bins -> Sum] /\ blocks \in Seq(Block) /\ n \in Nat /\ at \in Nat \ {0}
  BY DEF PoolInv, CalTypeOK, Block
<1>2. InOrderUp(blocks)
  BY <1>1 DEF PoolInv, InOrderUp
<1>3. PICK e : Fits(blocks, W, Y, e)
  BY DEF FitInv
<1>4. Profile(W, Y)
  BY <1>1, TallySums
<1>5. Fitted(blocks, W, Y, e)
  BY <1>1, <1>2, <1>3, <1>4 DEF Fitted
<1>6. PICK i \in 1..n : BlockOf(b) = blocks[i] /\ e[i - 1] < b /\ b <= e[i]
  BY <1>1, <1>5, BlockOfBin
<1> DEFINE fit == blocks[i]
           g == Gain(W, Y, fit)
<1>7. /\ Bins \in Nat \ {0}
      /\ \A k \in 0..n : e[k] \in 0..Bins
      /\ \A k \in 1..n : blocks[k] \in Block
      /\ \A k \in 0..Bins : g[k] \in Int
  BY <1>5, FittedFacts
<1>8. i - 1 \in 0..n /\ i \in 0..n /\ e[i - 1] \in 0..Bins /\ e[i] \in 0..Bins
  BY <1>1, <1>7
<1>9. fit.w \in Nat /\ fit.y \in Nat
  BY <1>7, AboveIs
<1>10. ASSUME NEW a \in 1..b, NEW c \in b..Bins
       PROVE  /\ Leq(fit, Segment(a, c)) <=> g[a - 1] <= g[c]
              /\ Leq(Segment(a, c), fit) <=> g[c] <= g[a - 1]
  <2> DEFINE s == Segment(a, c)
  <2>1. a \in 1..Bins /\ c \in a..Bins /\ a - 1 \in 0..Bins /\ c \in 0..Bins
    BY <1>7
  <2>2. s = [w |-> W[c] - W[a - 1], y |-> Y[c] - Y[a - 1]]
    BY <1>1, <2>1, SegmentIs
  <2> HIDE DEF W, Y, s, fit
  <2>3. s.w = W[c] - W[a - 1] /\ s.y = Y[c] - Y[a - 1]
    <3> DEFINE w == W[c] - W[a - 1]
               y == Y[c] - Y[a - 1]
    <3>1. s = [w |-> w, y |-> y]
      BY <2>2
    <3> HIDE DEF w, y
    <3>2. s.w = w /\ s.y = y
      BY <3>1
    <3> QED
      BY <3>2 DEF w, y
  <2>4. W[c] \in Int /\ W[a - 1] \in Int /\ Y[c] \in Int /\ Y[a - 1] \in Int
    BY <1>4, <2>1 DEF Profile
  <2>5. g[c] = Y[c] * fit.w - fit.y * W[c] /\ g[a - 1] = Y[a - 1] * fit.w - fit.y * W[a - 1]
    BY <2>1 DEF Gain
  <2>6. g[c] \in Int /\ g[a - 1] \in Int
    BY <1>7, <2>1 DEF fit
  <2>7. fit.w \in Int /\ fit.y \in Int
    BY <1>9
  <2> HIDE DEF g
  <2>8. (Y[c] * fit.w - fit.y * W[c]) - (Y[a - 1] * fit.w - fit.y * W[a - 1])
           = (Y[c] - Y[a - 1]) * fit.w - fit.y * (W[c] - W[a - 1])
    <3> DEFINE wc == W[c]
               wa == W[a - 1]
               yc == Y[c]
               ya == Y[a - 1]
               fw == fit.w
               fy == fit.y
    <3>1. wc \in Int /\ wa \in Int /\ yc \in Int /\ ya \in Int /\ fw \in Int /\ fy \in Int
      BY <2>4, <2>7
    <3> HIDE DEF wc, wa, yc, ya, fw, fy
    <3>2. (yc * fw - fy * wc) - (ya * fw - fy * wa) = (yc - ya) * fw - fy * (wc - wa)
      BY <3>1, GainDifference
    <3> QED
      BY <3>2 DEF wc, wa, yc, ya, fw, fy
  <2>9. g[c] - g[a - 1] = s.y * fit.w - fit.y * s.w
    BY <2>3, <2>5, <2>8, Zenon
  <2>10. s.w \in Int /\ s.y \in Int
    BY <2>3, <2>4
  <2>11. s.y * fit.w \in Int /\ fit.y * s.w \in Int
    BY <2>7, <2>10
  <2>12. (~(fit.y * s.w > s.y * fit.w) <=> g[a - 1] <= g[c])
         /\ (~(s.y * fit.w > fit.y * s.w) <=> g[c] <= g[a - 1])
    BY <2>6, <2>9, <2>11
  <2>13. Leq(fit, s) <=> ~(fit.y * s.w > s.y * fit.w)
    BY DEF Leq, Above
  <2>14. Leq(s, fit) <=> ~(s.y * fit.w > fit.y * s.w)
    BY DEF Leq, Above
  <2> QED
    BY <2>12, <2>13, <2>14 DEF s
<1>11. \E a \in 1..b : \A c \in b..Bins : Leq(fit, Segment(a, c))
  <2> DEFINE a == e[i - 1] + 1
  <2>1. a \in 1..b /\ a - 1 = e[i - 1]
    BY <1>6, <1>8
  <2>2. ASSUME NEW c \in b..Bins PROVE g[e[i - 1]] <= g[c]
    <3>1. c \in e[i - 1]..Bins
      BY <1>6, <1>7, <1>8
    <3> QED
      BY <3>1, <1>5, GainAfter
  <2> HIDE DEF a
  <2>3. ASSUME NEW c \in b..Bins PROVE Leq(fit, Segment(a, c))
    <3>1. g[a - 1] <= g[c]
      BY <2>1, <2>2
    <3> HIDE DEF g, fit
    <3> QED
      BY <3>1, <2>1, <1>10
  <2> HIDE DEF fit
  <2> QED
    BY <2>1, <2>3
<1>12. ASSUME NEW a \in 1..b PROVE \E c \in b..Bins : Leq(Segment(a, c), fit)
  <2>1. e[i] \in b..Bins
    BY <1>6, <1>8
  <2>2. a - 1 \in 0..e[i]
    BY <1>6, <1>8
  <2>3. g[e[i]] <= g[a - 1]
    BY <2>2, <1>5, GainBefore
  <2>4. Leq(Segment(a, e[i]), fit)
    <3> HIDE DEF g, fit
    <3> QED
      BY <2>1, <2>3, <1>10
  <2> HIDE DEF fit
  <2> QED
    BY <2>1, <2>4
<1> HIDE DEF g
<1> QED
  BY <1>6, <1>11, <1>12

LEMMA FinishedIsIsotonic == PoolInv /\ FitInv => FitIsIsotonic
<1> SUFFICES ASSUME PoolInv, FitInv, phase = "done", NEW b \in 1..Bins
             PROVE  /\ \E a \in 1..b : \A c \in b..Bins : Leq(BlockOf(b), Segment(a, c))
                    /\ \A a \in 1..b : \E c \in b..Bins : Leq(Segment(a, c), BlockOf(b))
  BY Zenon DEF FitIsIsotonic
<1> QED
  BY FitIsRegression, Zenon

-----------------------------------------------------------------------------

Fraction == [num : Int, den : Nat \ {0}]

AtMost(p, q) == p.num * q.den <= q.num * p.den

RateOf(b) == [num |-> b.y, den |-> b.w]

(* The order of fractions.                                                  *)
LEMMA AtMostComposes ==
    ASSUME NEW p \in Fraction, NEW q \in Fraction, NEW r \in Fraction, AtMost(p, q), AtMost(q, r)
    PROVE  AtMost(p, r)
<1> DEFINE pn == p.num
           pd == p.den
           qn == q.num
           qd == q.den
           rn == r.num
           rd == r.den
<1>1. /\ pn \in Int /\ pd \in Nat \ {0} /\ qn \in Int /\ qd \in Nat \ {0}
      /\ rn \in Int /\ rd \in Nat \ {0}
  BY DEF Fraction
<1>2. pn * qd <= qn * pd /\ qn * rd <= rn * qd
  BY DEF AtMost
<1>3. pn * rd <= rn * pd => AtMost(p, r)
  BY DEF AtMost
<1> HIDE DEF pn, pd, qn, qd, rn, rd
<1>4. pn * rd <= rn * pd
  BY <1>1, <1>2, Products
<1> QED
  BY <1>3, <1>4

LEMMA FractionOrder ==
    ASSUME NEW p \in Fraction, NEW q \in Fraction
    PROVE  AtMost(p, p) /\ (AtMost(p, q) \/ AtMost(q, p))
<1> DEFINE pn == p.num
           pd == p.den
           qn == q.num
           qd == q.den
<1>1. pn \in Int /\ pd \in Int /\ qn \in Int /\ qd \in Int
  BY DEF Fraction
<1>2. /\ AtMost(p, p) <=> pn * pd <= pn * pd
      /\ AtMost(p, q) <=> pn * qd <= qn * pd
      /\ AtMost(q, p) <=> qn * pd <= pn * qd
  BY DEF AtMost
<1> HIDE DEF pn, pd, qn, qd
<1>3. pn * pd \in Int /\ pn * qd \in Int /\ qn * pd \in Int
  BY <1>1
<1> QED
  BY <1>2, <1>3

Lowest == [num |-> Floor, den |-> FloorUnit]
Highest == [num |-> FloorUnit - Floor, den |-> FloorUnit]

\* Cut in terms of the order.
LEMMA CutIs ==
    ASSUME NEW p \in Fraction
    PROVE  /\ Lowest \in Fraction /\ Highest \in Fraction /\ AtMost(Lowest, Highest)
           /\ Cut(p) = IF ~AtMost(Lowest, p) THEN Lowest
                       ELSE IF ~AtMost(p, Highest) THEN Highest ELSE p
<1>1. FloorUnit \in Nat \ {0} /\ Floor \in Nat /\ Floor <= FloorUnit - Floor
  BY CalibrationAssumption
<1>2. Lowest \in Fraction /\ Highest \in Fraction
  BY <1>1 DEF Lowest, Highest, Fraction
<1>3. AtMost(Lowest, Highest)
  <2>1. Floor * FloorUnit <= (FloorUnit - Floor) * FloorUnit
    BY <1>1, Z3
  <2> QED
    BY <2>1 DEF Lowest, Highest, AtMost
<1>4. p.num \in Int /\ p.den \in Int
  BY DEF Fraction
<1>5. p.num * FloorUnit \in Int /\ Floor * p.den \in Int /\ (FloorUnit - Floor) * p.den \in Int
  BY <1>1, <1>4
<1>6. /\ AtMost(Lowest, p) <=> Floor * p.den <= p.num * FloorUnit
      /\ AtMost(p, Highest) <=> p.num * FloorUnit <= (FloorUnit - Floor) * p.den
  BY DEF AtMost, Lowest, Highest
<1>7. /\ ~AtMost(Lowest, p) <=> p.num * FloorUnit < Floor * p.den
      /\ ~AtMost(p, Highest) <=> p.num * FloorUnit > (FloorUnit - Floor) * p.den
  BY <1>5, <1>6
<1>8. Cut(p) = IF p.num * FloorUnit < Floor * p.den THEN Lowest
               ELSE IF p.num * FloorUnit > (FloorUnit - Floor) * p.den THEN Highest ELSE p
  BY DEF Cut, Lowest, Highest
<1>9. Cut(p) = IF ~AtMost(Lowest, p) THEN Lowest
               ELSE IF ~AtMost(p, Highest) THEN Highest ELSE p
  BY <1>7, <1>8, Zenon
<1> QED
  BY <1>2, <1>3, <1>9

(* Cutting off keeps the order, and the result is within the limits.        *)
LEMMA CutWithin ==
    ASSUME NEW p \in Fraction
    PROVE  Cut(p) \in Fraction /\ AtMost(Lowest, Cut(p)) /\ AtMost(Cut(p), Highest)
  BY CutIs, FractionOrder, Zenon

LEMMA CutRises ==
    ASSUME NEW p \in Fraction, NEW q \in Fraction, AtMost(p, q)
    PROVE  AtMost(Cut(p), Cut(q))
<1>1. Lowest \in Fraction /\ Highest \in Fraction
  BY CutIs
<1>2. CASE ~AtMost(Lowest, p)
  <2>1. Cut(p) = Lowest
    BY <1>2, CutIs
  <2> QED
    BY <2>1, CutWithin
<1>3. CASE AtMost(Lowest, p)
  <2>1. AtMost(Lowest, q)
    BY <1>1, <1>3, AtMostComposes
  <2>2. CASE ~AtMost(q, Highest)
    <3>1. Cut(q) = Highest
      BY <2>1, <2>2, CutIs
    <3> QED
      BY <3>1, CutWithin
  <2>3. CASE AtMost(q, Highest)
    <3>1. AtMost(p, Highest)
      BY <1>1, <2>3, AtMostComposes
    <3>2. Cut(p) = p /\ Cut(q) = q
      BY <1>3, <2>1, <2>3, <3>1, CutIs
    <3> QED
      BY <3>2
  <2> QED
    BY <2>2, <2>3
<1> QED
  BY <1>2, <1>3

LEMMA Scaled ==
    ASSUME NEW x \in Int, NEW y \in Int, NEW k \in Nat, x <= y
    PROVE  x * k <= y * k /\ k * x <= k * y /\ x * k \in Int /\ y * k \in Int
  BY Z3

\* What a line rises above its first block, and stays below its second.
LEMMA LineAbove ==
    ASSUME NEW aw \in Int, NEW ay \in Int, NEW width \in Int, NEW from \in Int, NEW D \in Int
    PROVE  (ay * width + from * D) * aw = ay * (aw * width) + (from * D) * aw
  BY Z3

LEMMA LineBelow ==
    ASSUME NEW aw \in Int, NEW ay \in Int, NEW bw \in Int, NEW by \in Int,
           NEW width \in Int, NEW from \in Int
    PROVE  by * (aw * width) - (ay * width + from * (by * aw - ay * bw)) * bw
              = width * (by * aw - ay * bw) - (from * bw) * (by * aw - ay * bw)
  BY Z3

LEMMA FromBelow ==
    ASSUME NEW aw \in Nat, NEW az \in Nat, NEW bw \in Nat, NEW bz \in Nat, NEW s \in Int,
           s * bw <= bz
    PROVE  (s * aw - az) * bw <= bz * aw - az * bw
<1> DEFINE x == s * bw
<1>1. (s * aw - az) * bw = x * aw - az * bw
  BY Z3
<1>2. x \in Int /\ az * bw \in Int /\ x <= bz
  OBVIOUS
<1> HIDE DEF x
<1>3. x * aw <= bz * aw /\ x * aw \in Int /\ bz * aw \in Int
  BY <1>2, Scaled
<1> QED
  BY <1>1, <1>2, <1>3

\* The line between two blocks, in numbers.
LEMMA LineNumbers ==
    ASSUME NEW aw \in Nat \ {0}, NEW ay \in Int, NEW bw \in Nat, NEW by \in Int,
           NEW width \in Nat \ {0}, NEW from \in Nat, from * bw <= width, ay * bw <= by * aw
    PROVE  LET num == ay * width + from * (by * aw - ay * bw)
           IN  /\ num \in Int /\ aw * width \in Nat \ {0}
               /\ ay * (aw * width) <= num * aw
               /\ num * bw <= by * (aw * width)
<1> DEFINE D == by * aw - ay * bw
           num == ay * width + from * D
           den == aw * width
<1>1. D \in Nat /\ ay * width \in Int /\ from * bw \in Int
  <2>1. by * aw \in Int /\ ay * bw \in Int
    OBVIOUS
  <2> QED
    BY <2>1
<1>2. den \in Nat \ {0}
  BY Z3
<1>3. num * aw = ay * den + (from * D) * aw
  <2> HIDE DEF D
  <2> QED
    BY <1>1, LineAbove
<1>4. by * den - num * bw = width * D - (from * bw) * D
  BY LineBelow
<1>5. (from * bw) * D <= width * D /\ (from * bw) * D \in Int /\ width * D \in Int
  BY <1>1, Scaled
<1> HIDE DEF D
<1>6. from * D \in Nat
  BY <1>1, Z3
<1>7. (from * D) * aw \in Nat
  BY <1>6, Z3
<1>8. num \in Int
  BY <1>1, <1>6
<1> HIDE DEF num, den
<1>9. num * aw \in Int /\ ay * den \in Int /\ by * den \in Int /\ num * bw \in Int
  BY <1>2, <1>8
<1>10. ay * den <= num * aw /\ num * bw <= by * den
  BY <1>3, <1>4, <1>5, <1>7, <1>9
<1> QED
  BY <1>2, <1>8, <1>10 DEF num, den, D

\* A score at or after block a and at or before b, with a before b.
OnBetween(a, b, s) ==
    /\ a.s * b.w < b.s * a.w /\ ~Above(a, b)
    /\ a.s <= s * a.w /\ s * b.w <= b.s

(* A line stays between the rates of its blocks ...                         *)
LEMMA LineBounds ==
    ASSUME NEW a \in Block, NEW b \in Block, NEW s \in Int, OnBetween(a, b, s)
    PROVE  /\ OnLine(a, b, s) \in Fraction
           /\ AtMost(RateOf(a), OnLine(a, b, s)) /\ AtMost(OnLine(a, b, s), RateOf(b))
<1> DEFINE aw == a.w
           ay == a.y
           as == a.s
           bw == b.w
           by == b.y
           bz == b.s
           from == s * aw - as
           width == bz * aw - as * bw
           num == ay * width + from * (by * aw - ay * bw)
           p == OnLine(a, b, s)
<1>1. /\ aw \in Nat \ {0} /\ ay \in Nat /\ as \in Nat
      /\ bw \in Nat \ {0} /\ by \in Nat /\ bz \in Nat
  BY AboveIs
<1>2. as * bw < bz * aw /\ as <= s * aw /\ s * bw <= bz /\ ay * bw <= by * aw
  BY AboveIs DEF OnBetween
<1>3. p = [num |-> num, den |-> aw * width]
  BY DEF OnLine
<1>4. width \in Nat \ {0} /\ from \in Nat
  <2>1. as * bw \in Int /\ bz * aw \in Int /\ s * aw \in Int
    BY <1>1
  <2> QED
    BY <1>1, <1>2, <2>1
<1>5. from * bw <= width
  <2> HIDE DEF aw, ay, as, bw, by, bz
  <2>1. aw \in Nat /\ bw \in Nat
    BY <1>1
  <2> QED
    BY <1>1, <1>2, <2>1, FromBelow
<1>6. /\ num \in Int /\ aw * width \in Nat \ {0}
      /\ ay * (aw * width) <= num * aw
      /\ num * bw <= by * (aw * width)
  <2>1. ay \in Int /\ by \in Int /\ bw \in Nat
    BY <1>1
  <2> HIDE DEF aw, ay, as, bw, by, bz, from, width
  <2>2. LET m == ay * width + from * (by * aw - ay * bw)
        IN  /\ m \in Int /\ aw * width \in Nat \ {0}
            /\ ay * (aw * width) <= m * aw
            /\ m * bw <= by * (aw * width)
    BY <1>1, <1>2, <1>4, <1>5, <2>1, LineNumbers
  <2> QED
    BY <2>2
<1> HIDE DEF width, num, p
<1>7. p.num = num /\ p.den = aw * width
  BY <1>3
<1>8. p \in Fraction
  BY <1>3, <1>6 DEF Fraction
<1>9. AtMost(RateOf(a), p) /\ AtMost(p, RateOf(b))
  BY <1>6, <1>7 DEF AtMost, RateOf
<1> QED
  BY <1>8, <1>9 DEF p

(* ... and rises.                                                           *)
LEMMA LineRises ==
    ASSUME NEW a \in Block, NEW b \in Block, NEW s \in Int, NEW t \in Int, s <= t,
           OnBetween(a, b, s), OnBetween(a, b, t)
    PROVE  AtMost(OnLine(a, b, s), OnLine(a, b, t))
<1> DEFINE aw == a.w
           ay == a.y
           as == a.s
           D == b.y * a.w - a.y * b.w
           width == b.s * a.w - a.s * b.w
           den == aw * width
           ns == ay * width + (s * aw - as) * D
           nt == ay * width + (t * aw - as) * D
           p == OnLine(a, b, s)
           q == OnLine(a, b, t)
<1>1. aw \in Nat \ {0} /\ ay \in Nat /\ as \in Nat
  BY AboveIs
<1>2. D \in Nat /\ width \in Nat
  <2>1. a.s * b.w < b.s * a.w /\ a.y * b.w <= b.y * a.w
    BY AboveIs DEF OnBetween
  <2>2. a.s * b.w \in Int /\ b.s * a.w \in Int /\ a.y * b.w \in Int /\ b.y * a.w \in Int
    <3>1. a.s \in Nat /\ a.w \in Nat /\ a.y \in Nat /\ b.s \in Nat /\ b.w \in Nat /\ b.y \in Nat
      BY AboveIs
    <3> QED
      BY <3>1
  <2> QED
    BY <2>1, <2>2
<1>3. p = [num |-> ns, den |-> den] /\ q = [num |-> nt, den |-> den]
  BY DEF OnLine
<1> HIDE DEF aw, ay, as, D, width
<1>4. den \in Nat /\ ns \in Int /\ nt \in Int
  BY <1>1, <1>2, Z3
<1>5. ns <= nt
  <2>1. s * aw \in Int /\ t * aw \in Int /\ s * aw <= t * aw
    BY <1>1, Scaled
  <2> DEFINE fs == s * aw - as
             ft == t * aw - as
  <2>2. fs \in Int /\ ft \in Int /\ fs <= ft
    BY <1>1, <2>1
  <2> HIDE DEF fs, ft
  <2>3. fs * D <= ft * D /\ fs * D \in Int /\ ft * D \in Int /\ ay * width \in Int
    BY <1>1, <1>2, <2>2, Scaled
  <2>4. ay * width + fs * D <= ay * width + ft * D
    BY <2>3
  <2> QED
    BY <2>4 DEF fs, ft
<1> HIDE DEF den, ns, nt, p, q
<1>6. ns * den <= nt * den
  BY <1>4, <1>5, Z3
<1>7. p.num = ns /\ p.den = den /\ q.num = nt /\ q.den = den
  BY <1>3
<1>8. AtMost(p, q)
  BY <1>6, <1>7 DEF AtMost
<1> QED
  BY <1>8 DEF p, q

(* The middles of the blocks rise.                                          *)
LEMMA MiddlesRise ==
    ASSUME NEW bs, NEW W, NEW Y, NEW e, Fitted(bs, W, Y, e),
           NEW i \in 1..Len(bs), NEW j \in 1..Len(bs), i < j
    PROVE  bs[i].s * bs[j].w < bs[j].s * bs[i].w
<1> DEFINE n == Len(bs)
           a == bs[i]
           b == bs[j]
           m == Mid(e[i])
           k == Mid(e[j - 1] + 1)
<1>1. /\ Bins \in Nat \ {0} /\ n \in Nat /\ Ends(e, n)
      /\ \A l \in 1..n : bs[l] \in Block
      /\ \A l \in 0..n : e[l] \in 0..Bins
  BY FittedFacts
<1>2. i \in 0..n /\ j - 1 \in 0..n /\ (i = j - 1 \/ i < j - 1)
  BY <1>1
<1>3. e[i] \in Int /\ e[j - 1] + 1 \in Int /\ e[i] < e[j - 1] + 1
  <2>1. e[i] = e[j - 1] \/ e[i] < e[j - 1]
    BY <1>1, <1>2, EndsRise
  <2> QED
    BY <2>1, <1>1, <1>2
<1>4. m \in Int /\ k \in Int /\ m < k
  <2> DEFINE x == e[i]
             y == e[j - 1] + 1
  <2>1. x \in Int /\ y \in Int /\ x < y /\ x <= y
    BY <1>3
  <2> HIDE DEF x, y
  <2>2. Mid(x) \in Int /\ Mid(y) \in Int /\ Mid(x) < Mid(y)
    BY <2>1, MidRises
  <2> QED
    BY <2>2 DEF x, y
<1>5. a.s <= a.w * m /\ b.w * k <= b.s
  BY DEF Fitted, Fits, Pools
<1>6. a.w \in Nat \ {0} /\ a.s \in Nat /\ b.w \in Nat \ {0} /\ b.s \in Nat
  BY <1>1, AboveIs
<1> DEFINE aw == a.w
           az == a.s
           bw == b.w
           bz == b.s
<1> HIDE DEF aw, az, bw, bz, m, k
<1>7. /\ aw \in Nat \ {0} /\ az \in Nat /\ bw \in Nat \ {0} /\ bz \in Nat
      /\ az <= aw * m /\ bw * k <= bz
  BY <1>5, <1>6 DEF aw, az, bw, bz
<1>8. az * bw < bz * aw
  <2>1. az * bw <= (aw * m) * bw
    BY <1>4, <1>7, Scaled
  <2>2. (bw * k) * aw <= bz * aw
    BY <1>4, <1>7, Scaled
  <2>3. (aw * bw) * m < (aw * bw) * k
    BY <1>4, <1>7, Z3
  <2>4. (aw * m) * bw = (aw * bw) * m /\ (bw * k) * aw = (aw * bw) * k
    BY <1>4, <1>7, Z3
  <2>5. az * bw \in Int /\ bz * aw \in Int /\ (aw * bw) * m \in Int /\ (aw * bw) * k \in Int
    BY <1>4, <1>7
  <2> QED
    BY <2>1, <2>2, <2>3, <2>4, <2>5
<1> QED
  BY <1>8 DEF aw, az, bw, bz

(* A score up to a block is not after one from a later block on.            *)
LEMMA ScoresApart ==
    ASSUME NEW a \in Block, NEW b \in Block, a.s * b.w <= b.s * a.w,
           NEW s \in Int, NEW t \in Int, t * a.w <= a.s, b.s <= s * b.w
    PROVE  t <= s
<1> DEFINE aw == a.w
           az == a.s
           bw == b.w
           bz == b.s
<1>1. aw \in Nat \ {0} /\ az \in Nat /\ bw \in Nat \ {0} /\ bz \in Nat
  BY AboveIs
<1>2. az * bw <= bz * aw /\ t * aw <= az /\ bz <= s * bw
  OBVIOUS
<1> HIDE DEF aw, az, bw, bz
<1>3. (t * aw) * bw <= az * bw /\ bz * aw <= (s * bw) * aw
  BY <1>1, <1>2, Scaled
<1>4. (t * aw) * bw = t * (aw * bw) /\ (s * bw) * aw = s * (aw * bw)
  BY <1>1, Z3
<1> DEFINE k == aw * bw
<1>5. k \in Nat \ {0}
  BY <1>1, Z3
<1>6. az * bw \in Int /\ bz * aw \in Int
  BY <1>1
<1> HIDE DEF k
<1>7. t * k <= s * k
  <2>1. t * k \in Int /\ s * k \in Int
    BY <1>5
  <2> QED
    BY <2>1, <1>2, <1>3, <1>4, <1>6 DEF k
<1> QED
  BY <1>5, <1>7, Z3

-----------------------------------------------------------------------------

\* What a lookup finds before it is cut off: the rate of the first block, of
\* the last, or a point of the line between two neighbours.
First(bs, s, p) == s * bs[1].w <= bs[1].s /\ p = RateOf(bs[1])

Last(bs, s, p) == bs[Len(bs)].s <= s * bs[Len(bs)].w /\ p = RateOf(bs[Len(bs)])

Inner(bs, s, p, j) ==
    /\ j \in 1..(Len(bs) - 1)
    /\ bs[j].s <= s * bs[j].w /\ s * bs[j + 1].w <= bs[j + 1].s
    /\ p = OnLine(bs[j], bs[j + 1], s)

Finds(bs, s, p) ==
    \/ First(bs, s, p)
    \/ Last(bs, s, p)
    \/ \E j \in 1..(Len(bs) - 1) : Inner(bs, s, p, j)

LEMMA BlockOrder ==
    ASSUME NEW bs, NEW W, NEW Y, NEW e, Fitted(bs, W, Y, e)
    PROVE  /\ Len(bs) \in Nat \ {0}
           /\ \A i \in 1..Len(bs) : /\ bs[i] \in Block /\ RateOf(bs[i]) \in Fraction
           /\ \A i, j \in 1..Len(bs) : i <= j => AtMost(RateOf(bs[i]), RateOf(bs[j]))
           /\ \A i, j \in 1..Len(bs) : i <= j => bs[i].s * bs[j].w <= bs[j].s * bs[i].w
<1>1. bs \in Seq(Block) /\ InOrderUp(bs) /\ Len(bs) \in Nat /\ Ends(e, Len(bs))
  BY LenProperties DEF Fitted, Fits
<1>2. \A i \in 1..Len(bs) : bs[i] \in Block
  BY <1>1, ElementOfSeq
<1>3. Len(bs) # 0
  BY <1>1, CalibrationAssumption DEF Ends
<1>4. ASSUME NEW i \in 1..Len(bs) PROVE RateOf(bs[i]) \in Fraction
  <2>1. bs[i].w \in Nat \ {0} /\ bs[i].y \in Nat
    BY <1>2, AboveIs
  <2> QED
    BY <2>1 DEF RateOf, Fraction
<1>5. ASSUME NEW i \in 1..Len(bs), NEW j \in 1..Len(bs), i <= j
      PROVE  AtMost(RateOf(bs[i]), RateOf(bs[j]))
  <2>1. ~Above(bs[i], bs[j])
    BY <1>1, <1>5, RatesRise
  <2>2. bs[i].y * bs[j].w <= bs[j].y * bs[i].w
    BY <2>1, <1>2, AboveIs
  <2> QED
    BY <2>2 DEF AtMost, RateOf
<1>6. ASSUME NEW i \in 1..Len(bs), NEW j \in 1..Len(bs), i <= j
      PROVE  bs[i].s * bs[j].w <= bs[j].s * bs[i].w
  <2>1. bs[i].s * bs[j].w \in Int /\ bs[j].s * bs[i].w \in Int
    <3>1. bs[i].s \in Nat /\ bs[j].s \in Nat /\ bs[i].w \in Nat /\ bs[j].w \in Nat
      BY <1>2, AboveIs
    <3> QED
      BY <3>1
  <2>2. CASE i = j
    BY <2>1, <2>2
  <2>3. CASE i < j
    BY <2>1, <2>3, MiddlesRise
  <2> QED
    BY <2>2, <2>3, <1>6
<1> QED
  BY <1>1, <1>2, <1>3, <1>4, <1>5, <1>6

\* A line of a finished fit.
LEMMA InnerIs ==
    ASSUME NEW bs, NEW W, NEW Y, NEW e, Fitted(bs, W, Y, e),
           NEW s \in Int, NEW p, NEW j, Inner(bs, s, p, j)
    PROVE  /\ j \in 1..Len(bs) /\ j + 1 \in 1..Len(bs)
           /\ OnBetween(bs[j], bs[j + 1], s)
           /\ p \in Fraction
           /\ AtMost(RateOf(bs[j]), p) /\ AtMost(p, RateOf(bs[j + 1]))
<1>1. /\ Len(bs) \in Nat \ {0} /\ \A i \in 1..Len(bs) : bs[i] \in Block
  BY BlockOrder
<1>2. j \in 1..Len(bs) /\ j + 1 \in 1..Len(bs) /\ j < j + 1 /\ j \in 1..(Len(bs) - 1)
  BY <1>1 DEF Inner
<1>3. bs[j].s * bs[j + 1].w < bs[j + 1].s * bs[j].w
  BY <1>2, MiddlesRise
<1>4. ~Above(bs[j], bs[j + 1])
  BY <1>2 DEF Fitted, InOrderUp
<1>5. OnBetween(bs[j], bs[j + 1], s)
  BY <1>3, <1>4 DEF Inner, OnBetween
<1> QED
  BY <1>1, <1>2, <1>5, LineBounds DEF Inner

(* What is found rises with the score.                                      *)
LEMMA FindsRise ==
    ASSUME NEW bs, NEW W, NEW Y, NEW e, Fitted(bs, W, Y, e),
           NEW s \in Int, NEW t \in Int, s < t,
           NEW p, NEW q, Finds(bs, s, p), Finds(bs, t, q)
    PROVE  AtMost(p, q)
<1> DEFINE n == Len(bs)
           R(i) == RateOf(bs[i])
<1>1. /\ n \in Nat \ {0}
      /\ \A i \in 1..n : bs[i] \in Block /\ R(i) \in Fraction
      /\ \A i, j \in 1..n : i <= j => AtMost(R(i), R(j))
      /\ \A i, j \in 1..n : i <= j => bs[i].s * bs[j].w <= bs[j].s * bs[i].w
  BY BlockOrder
<1>2. 1 \in 1..n /\ n \in 1..n
  BY <1>1
\* A score from block j on is never before one up to block i.
<1>3. ASSUME NEW i \in 1..n, NEW j \in 1..n, i <= j,
             t * bs[i].w <= bs[i].s, bs[j].s <= s * bs[j].w
      PROVE  FALSE
  <2>1. bs[i] \in Block /\ bs[j] \in Block /\ bs[i].s * bs[j].w <= bs[j].s * bs[i].w
    BY <1>1, <1>3
  <2>2. t <= s
    BY <2>1, <1>3, ScoresApart
  <2> QED
    BY <2>2
<1>4. ASSUME NEW j, Inner(bs, s, p, j)
      PROVE  /\ j \in 1..n /\ j + 1 \in 1..n /\ j \in Int
             /\ OnBetween(bs[j], bs[j + 1], s) /\ p = OnLine(bs[j], bs[j + 1], s)
             /\ p \in Fraction /\ AtMost(p, R(j + 1)) /\ bs[j].s <= s * bs[j].w
  <2>1. /\ j \in 1..n /\ j + 1 \in 1..n /\ OnBetween(bs[j], bs[j + 1], s) /\ p \in Fraction
        /\ AtMost(R(j), p) /\ AtMost(p, R(j + 1))
    BY <1>4, InnerIs
  <2>2. /\ p = OnLine(bs[j], bs[j + 1], s)
        /\ bs[j].s <= s * bs[j].w /\ s * bs[j + 1].w <= bs[j + 1].s
    BY <1>4 DEF Inner
  <2>3. j \in Int
    BY <2>1
  <2> HIDE DEF R, n
  <2> QED
    BY <2>1, <2>2, <2>3
<1>5. ASSUME NEW k, Inner(bs, t, q, k)
      PROVE  /\ k \in 1..n /\ k + 1 \in 1..n /\ k \in Int
             /\ OnBetween(bs[k], bs[k + 1], t) /\ q = OnLine(bs[k], bs[k + 1], t)
             /\ q \in Fraction /\ AtMost(R(k), q) /\ t * bs[k + 1].w <= bs[k + 1].s
  <2>1. /\ k \in 1..n /\ k + 1 \in 1..n /\ OnBetween(bs[k], bs[k + 1], t) /\ q \in Fraction
        /\ AtMost(R(k), q) /\ AtMost(q, R(k + 1))
    BY <1>5, InnerIs
  <2>2. /\ q = OnLine(bs[k], bs[k + 1], t)
        /\ bs[k].s <= t * bs[k].w /\ t * bs[k + 1].w <= bs[k + 1].s
    BY <1>5 DEF Inner
  <2>3. k \in Int
    BY <2>1
  <2> HIDE DEF R, n
  <2> QED
    BY <2>1, <2>2, <2>3
<1>6. CASE First(bs, s, p)
  <2>1. p = R(1)
    BY <1>6 DEF First
  <2>2. CASE First(bs, t, q)
    BY <2>1, <2>2, <1>1, <1>2 DEF First
  <2>3. CASE Last(bs, t, q)
    BY <2>1, <2>3, <1>1, <1>2 DEF Last
  <2>4. ASSUME NEW k, Inner(bs, t, q, k) PROVE AtMost(p, q)
    <3>1. k \in 1..n /\ q \in Fraction /\ AtMost(R(k), q) /\ 1 <= k
      BY <2>4, <1>5
    <3>2. AtMost(R(1), R(k)) /\ R(1) \in Fraction /\ R(k) \in Fraction
      BY <3>1, <1>1, <1>2
    <3> HIDE DEF R
    <3> QED
      BY <3>1, <3>2, <2>1, AtMostComposes
  <2> QED
    BY <2>2, <2>3, <2>4 DEF Finds
<1>7. CASE Last(bs, s, p)
  <2>1. p = R(n) /\ bs[n].s <= s * bs[n].w
    BY <1>7 DEF Last
  <2>2. CASE First(bs, t, q)
    <3>1. t * bs[1].w <= bs[1].s /\ 1 <= n
      BY <2>2, <1>1 DEF First
    <3> QED
      BY <3>1, <2>1, <1>2, <1>3
  <2>3. CASE Last(bs, t, q)
    BY <2>1, <2>3, <1>1, <1>2 DEF Last
  <2>4. ASSUME NEW k, Inner(bs, t, q, k) PROVE AtMost(p, q)
    <3>1. k + 1 \in 1..n /\ t * bs[k + 1].w <= bs[k + 1].s /\ k + 1 <= n
      BY <2>4, <1>5, <1>1
    <3> QED
      BY <3>1, <2>1, <1>2, <1>3
  <2> QED
    BY <2>2, <2>3, <2>4 DEF Finds
<1>8. ASSUME NEW j, Inner(bs, s, p, j) PROVE AtMost(p, q)
  <2>1. /\ j \in 1..n /\ j + 1 \in 1..n /\ j \in Int
        /\ OnBetween(bs[j], bs[j + 1], s) /\ p = OnLine(bs[j], bs[j + 1], s)
        /\ p \in Fraction /\ AtMost(p, R(j + 1)) /\ bs[j].s <= s * bs[j].w
    BY <1>4, <1>8
  <2>2. CASE First(bs, t, q)
    <3>1. t * bs[1].w <= bs[1].s /\ 1 <= j
      BY <2>1, <2>2 DEF First
    <3> QED
      BY <3>1, <2>1, <1>2, <1>3
  <2>3. CASE Last(bs, t, q)
    <3>1. q = R(n) /\ j + 1 <= n
      BY <2>1, <2>3, <1>1 DEF Last
    <3>2. AtMost(R(j + 1), R(n)) /\ R(j + 1) \in Fraction /\ R(n) \in Fraction
      BY <3>1, <2>1, <1>1, <1>2
    <3> HIDE DEF R
    <3> QED
      BY <3>1, <3>2, <2>1, AtMostComposes
  <2>4. ASSUME NEW k, Inner(bs, t, q, k) PROVE AtMost(p, q)
    <3>1. /\ k \in 1..n /\ k + 1 \in 1..n /\ k \in Int
          /\ OnBetween(bs[k], bs[k + 1], t) /\ q = OnLine(bs[k], bs[k + 1], t)
          /\ q \in Fraction /\ AtMost(R(k), q) /\ t * bs[k + 1].w <= bs[k + 1].s
      BY <1>5, <2>4
    <3>2. CASE k = j
      <4>1. bs[j] \in Block /\ bs[j + 1] \in Block /\ s <= t
        BY <1>1, <2>1
      <4>2. AtMost(OnLine(bs[j], bs[j + 1], s), OnLine(bs[j], bs[j + 1], t))
        BY <4>1, <3>1, <3>2, <2>1, LineRises
      <4> QED
        BY <4>2, <3>1, <3>2, <2>1
    <3>3. CASE j < k
      <4>1. AtMost(R(j + 1), R(k)) /\ R(j + 1) \in Fraction /\ R(k) \in Fraction
        BY <3>1, <3>3, <2>1, <1>1
      <4>2. AtMost(p, R(k))
        <5> HIDE DEF R
        <5> QED
          BY <4>1, <2>1, AtMostComposes
      <4> HIDE DEF R
      <4> QED
        BY <4>1, <4>2, <3>1, <2>1, AtMostComposes
    <3>4. CASE k < j
      <4>1. k + 1 <= j
        BY <3>1, <3>4, <2>1
      <4> QED
        BY <4>1, <3>1, <2>1, <1>3
    <3> QED
      BY <3>1, <3>2, <3>3, <3>4, <2>1
  <2> QED
    BY <2>2, <2>3, <2>4 DEF Finds
<1> QED
  BY <1>6, <1>7, <1>8 DEF Finds

LEMMA FinishedIsFitted ==
    ASSUME PoolInv, FitInv, phase = "done"
    PROVE  \E e : Fitted(blocks, WeightUpTo(tally), WinsUpTo(tally), e)
<1>1. tally \in [1..Bins -> Sum] /\ blocks \in Seq(Block) /\ Len(blocks) \in Nat /\ at \in Nat \ {0}
  BY DEF PoolInv, CalTypeOK, Block
<1>2. InOrderUp(blocks)
  BY <1>1 DEF PoolInv, InOrderUp
<1>3. PICK e : Fits(blocks, WeightUpTo(tally), WinsUpTo(tally), e)
  BY DEF FitInv
<1>4. Profile(WeightUpTo(tally), WinsUpTo(tally))
  BY <1>1, TallySums
<1> QED
  BY <1>1, <1>2, <1>3, <1>4 DEF Fitted

LEMMA ClampedIs ==
    ASSUME NEW score \in Int
    PROVE  /\ Clamped(score) \in Int /\ Clamped(score + 1) \in Int
           /\ Clamped(score) <= Clamped(score + 1)
<1> DEFINE m == Bins * Width
<1>1. m \in Nat
  BY CalibrationAssumption, Z3
<1> HIDE DEF m
<1>2. \A x : Clamped(x) = IF x < 0 THEN 0 ELSE IF x > m THEN m ELSE x
  BY DEF Clamped, m
<1>3. Clamped(score) = (IF score < 0 THEN 0 ELSE IF score > m THEN m ELSE score)
  BY <1>2
<1>4. Clamped(score + 1) = (IF score + 1 < 0 THEN 0 ELSE IF score + 1 > m THEN m ELSE score + 1)
  BY <1>2
<1> QED
  BY <1>1, <1>3, <1>4

(* Every score that is looked up is found.                                  *)
LEMMA LookupFinds ==
    ASSUME NEW W, NEW Y, NEW e, Fitted(blocks, W, Y, e), NEW score \in Int
    PROVE  \E p \in Fraction :
              /\ Finds(blocks, Clamped(score), p)
              /\ ProbLong(score) = Cut(p)
<1> DEFINE s == Clamped(score)
           n == Len(blocks)
           From(i) == s * blocks[i].w >= blocks[i].s
           Upto(i) == s * blocks[i].w <= blocks[i].s
           Is(i) == /\ From(i) /\ Upto(i + 1)
                    /\ \A k \in 1..(i - 1) : ~(From(k) /\ Upto(k + 1))
           j == CHOOSE i \in 1..(n - 1) : Is(i)
           line == OnLine(blocks[j], blocks[j + 1], s)
           p == IF Upto(1) THEN RateOf(blocks[1])
                ELSE IF From(n) THEN RateOf(blocks[n]) ELSE line
<1>1. s \in Int /\ n \in Nat \ {0}
      /\ \A i \in 1..n : blocks[i] \in Block /\ RateOf(blocks[i]) \in Fraction
  BY ClampedIs, BlockOrder
<1>2. ProbLong(score) = Cut(p)
  BY Zenon DEF ProbLong, ProbAt, RateOf
<1>3. ASSUME NEW i \in 1..n
      PROVE  From(i) \/ Upto(i)
  <2>1. blocks[i].w \in Nat /\ blocks[i].s \in Nat
    BY <1>1, AboveIs
  <2> HIDE DEF s
  <2>2. s * blocks[i].w \in Int
    BY <1>1, <2>1
  <2> QED
    BY <2>1, <2>2
<1>4. \A i \in 1..n : From(i) <=> blocks[i].s <= s * blocks[i].w
  <2> SUFFICES ASSUME NEW i \in 1..n PROVE From(i) <=> blocks[i].s <= s * blocks[i].w
    OBVIOUS
  <2>1. blocks[i].w \in Nat /\ blocks[i].s \in Nat
    BY <1>1, AboveIs
  <2> HIDE DEF s
  <2>2. s * blocks[i].w \in Int
    BY <1>1, <2>1
  <2> QED
    BY <2>1, <2>2
<1>5. 1 \in 1..n /\ n \in 1..n
  BY <1>1
<1>6. CASE Upto(1)
  <2>1. p = RateOf(blocks[1])
    BY <1>6
  <2> HIDE DEF p
  <2>2. First(blocks, s, p)
    BY <1>6, <2>1 DEF First
  <2>3. p \in Fraction /\ Finds(blocks, s, p)
    BY <1>1, <1>5, <2>1, <2>2 DEF Finds
  <2> QED
    BY <1>2, <2>3
<1>7. CASE ~Upto(1) /\ From(n)
  <2>1. p = RateOf(blocks[n])
    BY <1>7
  <2> HIDE DEF p
  <2>2. Last(blocks, s, p)
    <3>1. blocks[n].s <= s * blocks[n].w
      BY <1>4, <1>5, <1>7
    <3> QED
      BY <2>1, <3>1 DEF Last
  <2>3. p \in Fraction /\ Finds(blocks, s, p)
    BY <1>1, <1>5, <2>1, <2>2 DEF Finds
  <2> QED
    BY <1>2, <2>3
<1>8. CASE ~Upto(1) /\ ~From(n)
  <2>1. p = line
    BY <1>8
  <2>2. \E i \in 1..(n - 1) : Is(i)
    <3> HIDE DEF From, Upto, p, j, n
    <3> DEFINE A == {i \in 1..n : Upto(i)}
    <3>1. A \in SUBSET Nat /\ n \in A
      BY <1>1, <1>3, <1>5, <1>8
    <3>2. PICK m \in A : \A l \in A : m <= l
      BY <3>1, LeastElement
    <3>3. m # 1 /\ m \in 1..n /\ Upto(m)
      BY <3>2, <1>8
    <3>4. m - 1 \in 1..(n - 1) /\ m - 1 \in 1..n /\ (m - 1) + 1 = m /\ ~(m <= m - 1)
      BY <3>3, <1>1
    <3>5. ~Upto(m - 1)
      BY <3>2, <3>4
    <3>6. From(m - 1)
      BY <3>4, <3>5, <1>3
    <3>7. ASSUME NEW k \in 1..((m - 1) - 1) PROVE ~(From(k) /\ Upto(k + 1))
      <4>1. k + 1 \in 1..n /\ ~(m <= k + 1)
        BY <3>3, <1>1
      <4> QED
        BY <4>1, <3>2
    <3>8. Is(m - 1)
      BY <3>3, <3>4, <3>6, <3>7
    <3> QED
      BY <3>4, <3>8
  <2>3. j \in 1..(n - 1) /\ Is(j)
    <3> HIDE DEF Is
    <3> QED
      BY <2>2, Zenon
  <2>4. j \in 1..n
    <3> HIDE DEF j
    <3> QED
      BY <2>3, <1>1
  <2> HIDE DEF p, j
  <2>5. From(j) /\ Upto(j + 1)
    BY <2>3
  <2>6. Inner(blocks, s, p, j)
    <3>1. blocks[j].s <= s * blocks[j].w
      BY <2>4, <2>5, <1>4
    <3> QED
      BY <2>1, <2>3, <2>5, <3>1 DEF Inner
  <2> HIDE DEF s
  <2>7. p \in Fraction
    BY <1>1, <2>6, InnerIs
  <2>8. Finds(blocks, s, p)
    BY <2>3, <2>6 DEF Finds
  <2> QED
    BY <1>2, <2>7, <2>8 DEF s
<1> QED
  BY <1>6, <1>7, <1>8

LEMMA FinishedRises == PoolInv /\ FitInv => LookupIsMonotone
<1> SUFFICES ASSUME PoolInv, FitInv, phase = "done", NEW score \in -1..(Bins * Width + 1)
             PROVE  LET p == ProbLong(score)
                        q == ProbLong(score + 1)
                    IN  /\ p.den > 0
                        /\ p.num * q.den <= q.num * p.den
                        /\ Floor * p.den <= p.num * FloorUnit
                        /\ p.num * FloorUnit <= (FloorUnit - Floor) * p.den
  BY Zenon DEF LookupIsMonotone
<1> DEFINE W == WeightUpTo(tally)
           Y == WinsUpTo(tally)
           s == Clamped(score)
           t == Clamped(score + 1)
<1>1. PICK e : Fitted(blocks, W, Y, e)
  BY FinishedIsFitted
<1>2. score \in Int /\ score + 1 \in Int
  OBVIOUS
<1>3. s \in Int /\ t \in Int /\ s <= t
  BY <1>2, ClampedIs
<1>4. PICK p \in Fraction : Finds(blocks, s, p) /\ ProbLong(score) = Cut(p)
  BY <1>1, <1>2, LookupFinds
<1>5. PICK q \in Fraction : Finds(blocks, t, q) /\ ProbLong(score + 1) = Cut(q)
  BY <1>1, <1>2, LookupFinds
<1>6. /\ Cut(p) \in Fraction /\ AtMost(Lowest, Cut(p)) /\ AtMost(Cut(p), Highest)
      /\ Cut(q) \in Fraction
  BY CutWithin
<1>7. AtMost(Cut(p), Cut(q))
  <2>1. CASE s = t
    <3>1. ProbLong(score) = ProbLong(score + 1)
      BY <2>1, Zenon DEF ProbLong
    <3> QED
      BY <3>1, <1>4, <1>5, <1>6, FractionOrder
  <2>2. CASE s < t
    <3> HIDE DEF s, t, W, Y
    <3>1. AtMost(p, q)
      BY <1>1, <1>3, <1>4, <1>5, <2>2, FindsRise
    <3> QED
      BY <3>1, CutRises
  <2> QED
    BY <1>3, <2>1, <2>2
<1> DEFINE P == ProbLong(score)
           Q == ProbLong(score + 1)
<1>8. P \in Fraction /\ AtMost(Lowest, P) /\ AtMost(P, Highest) /\ AtMost(P, Q)
  BY <1>4, <1>5, <1>6, <1>7
<1> HIDE DEF P, Q
<1>9. P.den > 0
  BY <1>8 DEF Fraction
<1>10. /\ P.num * Q.den <= Q.num * P.den
       /\ Floor * P.den <= P.num * FloorUnit
       /\ P.num * FloorUnit <= (FloorUnit - Floor) * P.den
  BY <1>8, Zenon DEF AtMost, Lowest, Highest
<1> QED
  BY <1>9, <1>10, Zenon DEF P, Q

(* The calibration is an isotonic regression that rises with the score, for *)
(* every number of bins, every prior that does not fall and every history   *)
(* of trades (stats.py:140-143).                                            *)
THEOREM FitHolds == CalSpec => []FitIsRight
<1>1. PoolInv => FitIsMonotone
  <2> SUFFICES ASSUME PoolInv, phase = "done" PROVE FitIsMonotone
    BY DEF FitIsMonotone
  <2>1. at \in Nat \ {0} /\ Len(blocks) \in Nat /\ at = Len(blocks)
    BY DEF PoolInv, CalTypeOK
  <2>2. blocks # <<>>
    BY <2>1, EmptySeq
  <2> QED
    BY <2>1, <2>2 DEF PoolInv, FitIsMonotone
<1>2. PoolInv /\ FitInv => FitIsRight
  BY <1>1, FinishedIsIsotonic, FinishedRises DEF FitIsRight
<1> QED
  BY <1>2, FitInvariant, PTL

-----------------------------------------------------------------------------
(* The simulation of a backtest. *)

\* What holds of the open trade: its levels, and how much of it is left.
Running(t) ==
    /\ t \in Trade /\ t.entryBar \in Nat /\ t.entryBar > 0
    /\ t.entry > 0 /\ t.dist > 0 /\ t.dist % 2 = 0 /\ t.dist * FloorDiv >= t.entry
    /\ t.tp1 = t.entry + (3 * t.dist * t.dir) \div 2 /\ t.tp2 = t.entry + 3 * t.dist * t.dir
    /\ t.initQty > 0 /\ t.initQty % 2 = 0
    /\ IF t.tp1Hit THEN 2 * t.qty = t.initQty /\ t.tp1Pnl > 0
                   ELSE t.qty = t.initQty /\ t.tp1Pnl = 0

\* What holds of a listed trade.
Settled(t) ==
    /\ t \in Closed
    /\ t.realized - t.entryFee = t.gross - t.fees + t.tp1Fee
    /\ t.outcome = "win" <=> t.realized > 0

\* The sums over a list of trades.
NetOfList(s)   == SumFunction([i \in 1..Len(s) |-> s[i].realized - s[i].entryFee])
GrossOfList(s) == SumFunction([i \in 1..Len(s) |-> s[i].gross])
FeesOfList(s)  == SumFunction([i \in 1..Len(s) |-> s[i].fees])
Tp1OfList(s)   == SumFunction([i \in 1..Len(s) |-> s[i].tp1Fee])

(* The money of a list of trades, up to each of its ends, is an integer.    *)
LEMMA Sums ==
    /\ Total(LAMBDA t : t.realized - t.entryFee) = NetOfList(done)
    /\ Total(LAMBDA t : t.gross) = GrossOfList(done)
    /\ Total(LAMBDA t : t.fees) = FeesOfList(done)
    /\ Total(LAMBDA t : t.tp1Fee) = Tp1OfList(done)
BY DEF Total, NetOfList, GrossOfList, FeesOfList, Tp1OfList

(* An empty list adds up to nothing.                                        *)
LEMMA EmptySums ==
    NetOfList(<<>>) = 0 /\ GrossOfList(<<>>) = 0 /\ FeesOfList(<<>>) = 0 /\ Tp1OfList(<<>>) = 0
<1>1. Len(<<>>) = 0 /\ 1..0 = {}
  OBVIOUS
<1>2. SumFunctionOnSet(<<>>, {}) = 0
  BY SumEmpty
<1>3. \A f : DOMAIN f = {} => SumFunction(f) = 0
  BY SumEmpty DEF SumFunction
<1> QED
  BY <1>1, <1>3 DEF NetOfList, GrossOfList, FeesOfList, Tp1OfList

(* The sums over a list are integers. *)
LEMMA ListTypes ==
    ASSUME NEW s \in Seq(Closed)
    PROVE  /\ NetOfList(s) \in Int /\ GrossOfList(s) \in Int
           /\ FeesOfList(s) \in Int /\ Tp1OfList(s) \in Int
<1>1. ASSUME NEW f, \A i \in 1..Len(s) : f[i] \in Int, DOMAIN f = 1..Len(s)
      PROVE  SumFunction(f) \in Int
  <2>1. IsFiniteSet(1..Len(s))
    <3>1. 1 \in Int /\ Len(s) \in Int
      OBVIOUS
    <3> QED
      BY <3>1, FS_Interval
  <2> QED
    BY <1>1, <2>1, SumType DEF SumFunction
<1>2. \A i \in 1..Len(s) : /\ s[i].realized \in Int /\ s[i].entryFee \in Int /\ s[i].gross \in Int
                           /\ s[i].fees \in Int /\ s[i].tp1Fee \in Int
  <2> SUFFICES ASSUME NEW i \in 1..Len(s)
               PROVE  /\ s[i].realized \in Int /\ s[i].entryFee \in Int /\ s[i].gross \in Int
                      /\ s[i].fees \in Int /\ s[i].tp1Fee \in Int
    OBVIOUS
  <2>1. s[i] \in Closed
    OBVIOUS
  <2> QED
    BY <2>1 DEF Closed
<1>3. NetOfList(s) \in Int
  <2> DEFINE f == [i \in 1..Len(s) |-> s[i].realized - s[i].entryFee]
  <2>1. NetOfList(s) = SumFunction(f)
    BY DEF NetOfList
  <2>2. DOMAIN f = 1..Len(s) /\ \A i \in 1..Len(s) : f[i] \in Int
    BY <1>2
  <2> HIDE DEF f
  <2> QED
    BY <1>1, <2>1, <2>2
<1>4. GrossOfList(s) \in Int
  <2> DEFINE f == [i \in 1..Len(s) |-> s[i].gross]
  <2>1. GrossOfList(s) = SumFunction(f)
    BY DEF GrossOfList
  <2>2. DOMAIN f = 1..Len(s) /\ \A i \in 1..Len(s) : f[i] \in Int
    BY <1>2
  <2> HIDE DEF f
  <2> QED
    BY <1>1, <2>1, <2>2
<1>5. FeesOfList(s) \in Int
  <2> DEFINE f == [i \in 1..Len(s) |-> s[i].fees]
  <2>1. FeesOfList(s) = SumFunction(f)
    BY DEF FeesOfList
  <2>2. DOMAIN f = 1..Len(s) /\ \A i \in 1..Len(s) : f[i] \in Int
    BY <1>2
  <2> HIDE DEF f
  <2> QED
    BY <1>1, <2>1, <2>2
<1>6. Tp1OfList(s) \in Int
  <2> DEFINE f == [i \in 1..Len(s) |-> s[i].tp1Fee]
  <2>1. Tp1OfList(s) = SumFunction(f)
    BY DEF Tp1OfList
  <2>2. DOMAIN f = 1..Len(s) /\ \A i \in 1..Len(s) : f[i] \in Int
    BY <1>2
  <2> HIDE DEF f
  <2> QED
    BY <1>1, <2>1, <2>2
<1> QED
  BY <1>3, <1>4, <1>5, <1>6

(* A trade that is appended adds its own.                                   *)
LEMMA AppendSums ==
    ASSUME NEW s \in Seq(Closed), NEW t \in Closed
    PROVE  /\ NetOfList(Append(s, t)) = NetOfList(s) + (t.realized - t.entryFee)
           /\ GrossOfList(Append(s, t)) = GrossOfList(s) + t.gross
           /\ FeesOfList(Append(s, t)) = FeesOfList(s) + t.fees
           /\ Tp1OfList(Append(s, t)) = Tp1OfList(s) + t.tp1Fee
           /\ NetOfList(s) \in Int /\ GrossOfList(s) \in Int
           /\ FeesOfList(s) \in Int /\ Tp1OfList(s) \in Int
<1> DEFINE n == Len(s)
           u == Append(s, t)
<1>1. n \in Nat /\ Len(u) = n + 1 /\ u[n + 1] = t /\ \A i \in 1..n : u[i] = s[i] /\ s[i] \in Closed
  OBVIOUS
<1>2. /\ t.realized \in Int /\ t.entryFee \in Int /\ t.gross \in Int
      /\ t.fees \in Int /\ t.tp1Fee \in Int
      /\ \A i \in 1..n : /\ s[i].realized \in Int /\ s[i].entryFee \in Int /\ s[i].gross \in Int
                         /\ s[i].fees \in Int /\ s[i].tp1Fee \in Int
  BY <1>1 DEF Closed
<1> HIDE DEF n, u
<1>3. NetOfList(u) = NetOfList(s) + (t.realized - t.entryFee) /\ NetOfList(s) \in Int
  <2> DEFINE f == [i \in 1..n |-> s[i].realized - s[i].entryFee]
             g == [i \in 1..(n + 1) |-> u[i].realized - u[i].entryFee]
  <2>1. NetOfList(u) = SumFunction(g) /\ NetOfList(s) = SumFunction(f)
    BY <1>1 DEF NetOfList, n
  <2>2. /\ DOMAIN f = 1..n /\ DOMAIN g = 1..(n + 1) /\ g[n + 1] = t.realized - t.entryFee
        /\ \A i \in 1..n : f[i] \in Int /\ g[i] = f[i]
    BY <1>1, <1>2
  <2>3. g[n + 1] \in Int
    BY <1>2, <2>2
  <2> HIDE DEF f, g
  <2>4. IsExtended(g, f, n)
    BY <2>2, <2>3 DEF IsExtended
  <2> QED
    BY <1>1, <2>1, <2>2, <2>4, SumExtend
<1>4. GrossOfList(u) = GrossOfList(s) + t.gross /\ GrossOfList(s) \in Int
  <2> DEFINE f == [i \in 1..n |-> s[i].gross]
             g == [i \in 1..(n + 1) |-> u[i].gross]
  <2>1. GrossOfList(u) = SumFunction(g) /\ GrossOfList(s) = SumFunction(f)
    BY <1>1 DEF GrossOfList, n
  <2>2. /\ DOMAIN f = 1..n /\ DOMAIN g = 1..(n + 1) /\ g[n + 1] = t.gross
        /\ \A i \in 1..n : f[i] \in Int /\ g[i] = f[i]
    BY <1>1, <1>2
  <2>3. g[n + 1] \in Int
    BY <1>2, <2>2
  <2> HIDE DEF f, g
  <2>4. IsExtended(g, f, n)
    BY <2>2, <2>3 DEF IsExtended
  <2> QED
    BY <1>1, <2>1, <2>2, <2>4, SumExtend
<1>5. FeesOfList(u) = FeesOfList(s) + t.fees /\ FeesOfList(s) \in Int
  <2> DEFINE f == [i \in 1..n |-> s[i].fees]
             g == [i \in 1..(n + 1) |-> u[i].fees]
  <2>1. FeesOfList(u) = SumFunction(g) /\ FeesOfList(s) = SumFunction(f)
    BY <1>1 DEF FeesOfList, n
  <2>2. /\ DOMAIN f = 1..n /\ DOMAIN g = 1..(n + 1) /\ g[n + 1] = t.fees
        /\ \A i \in 1..n : f[i] \in Int /\ g[i] = f[i]
    BY <1>1, <1>2
  <2>3. g[n + 1] \in Int
    BY <1>2, <2>2
  <2> HIDE DEF f, g
  <2>4. IsExtended(g, f, n)
    BY <2>2, <2>3 DEF IsExtended
  <2> QED
    BY <1>1, <2>1, <2>2, <2>4, SumExtend
<1>6. Tp1OfList(u) = Tp1OfList(s) + t.tp1Fee /\ Tp1OfList(s) \in Int
  <2> DEFINE f == [i \in 1..n |-> s[i].tp1Fee]
             g == [i \in 1..(n + 1) |-> u[i].tp1Fee]
  <2>1. Tp1OfList(u) = SumFunction(g) /\ Tp1OfList(s) = SumFunction(f)
    BY <1>1 DEF Tp1OfList, n
  <2>2. /\ DOMAIN f = 1..n /\ DOMAIN g = 1..(n + 1) /\ g[n + 1] = t.tp1Fee
        /\ \A i \in 1..n : f[i] \in Int /\ g[i] = f[i]
    BY <1>1, <1>2
  <2>3. g[n + 1] \in Int
    BY <1>2, <2>2
  <2> HIDE DEF f, g
  <2>4. IsExtended(g, f, n)
    BY <2>2, <2>3 DEF IsExtended
  <2> QED
    BY <1>1, <2>1, <2>2, <2>4, SumExtend
<1> QED
  BY <1>3, <1>4, <1>5, <1>6 DEF u

(* At 1.5 times the distance of the stop or more, units bring a profit. *)
LEMMA TargetPays ==
    ASSUME NEW entry \in Nat, NEW dist \in Nat, dist > 0, dist * FloorDiv >= entry,
           NEW m \in Nat, 2 * m >= 3 * dist, NEW level \in Int, level <= entry + m
    PROVE  m * FeeScale - level * Maker > 0
<1>1. FeeScale \in Nat /\ Maker \in Nat /\ FloorDiv \in Nat /\ Maker <= FeeScale
  BY BacktestAssumption
<1> DEFINE k == FeeScale - Maker
<1>2. k \in Nat /\ 3 * k > 2 * FloorDiv * Maker
  BY <1>1, FeesBelowTargets
<1> HIDE DEF k
<1>3. dist * (3 * k) > dist * (2 * FloorDiv * Maker)
  BY <1>1, <1>2, Z3
<1>4. dist * (2 * FloorDiv * Maker) = 2 * ((dist * FloorDiv) * Maker)
  BY <1>1, Z3
<1>5. (dist * FloorDiv) * Maker >= entry * Maker
  BY <1>1, Z3
<1>6. (2 * m) * k >= (3 * dist) * k
  BY <1>2, Z3
<1>7. dist * (3 * k) = (3 * dist) * k /\ (2 * m) * k = 2 * (m * k)
  BY <1>2, Z3
<1>8. /\ m * k \in Int /\ entry * Maker \in Int
      /\ (dist * FloorDiv) * Maker \in Int /\ (3 * dist) * k \in Int
  BY <1>1, <1>2, Z3
<1>9. m * k > entry * Maker
  BY <1>3, <1>4, <1>5, <1>6, <1>7, <1>8
<1>10. level * Maker <= (entry + m) * Maker
  BY <1>1, Z3
<1>11. (entry + m) * Maker = entry * Maker + m * Maker /\ m * k = m * FeeScale - m * Maker
  BY <1>1, Z3 DEF k
<1>12. m * FeeScale \in Int /\ m * Maker \in Int /\ level * Maker \in Int
  BY <1>1, Z3
<1> QED
  BY <1>8, <1>9, <1>10, <1>11, <1>12

(* A sale at a target brings more than its fee. *)
LEMMA SalePays ==
    ASSUME NEW t, t.dir \in {-1, 1}, t.entry \in Nat, t.dist \in Nat, t.dist > 0,
           t.dist * FloorDiv >= t.entry, NEW m \in Nat, 2 * m >= 3 * t.dist,
           NEW level \in Int, level = t.entry + m * t.dir, NEW qty \in Nat, qty > 0
    PROVE  Gross(t, qty, level * Scale) - ExitFee(qty, level * Scale, Maker) > 0
<1> DEFINE e == t.entry
           d == t.dir
           v == m * FeeScale - level * Maker
<1>1. FeeScale \in Nat /\ Maker \in Nat /\ Scale \in Nat /\ Scale > 0
  BY BacktestAssumption
<1>2. level <= t.entry + m
  OBVIOUS
<1>3. v > 0 /\ v \in Int
  <2>1. v > 0
    BY <1>2, TargetPays
  <2> QED
    BY <1>1, <2>1, Z3
<1>4. (level * Scale - e * Scale) * d = m * Scale
  <2>1. CASE d = 1
    BY <1>1, <2>1, Z3
  <2>2. CASE d = -1
    BY <1>1, <2>2, Z3
  <2> QED
    BY <2>1, <2>2
<1>5. Gross(t, qty, level * Scale) = ((level * Scale - e * Scale) * d) * qty * FeeScale
  BY DEF Gross
<1>6. (m * Scale) * qty * FeeScale - qty * (level * Scale) * Maker = (qty * Scale) * v
  BY <1>1, Z3
<1>7. (qty * Scale) * v > 0
  <2>1. qty * Scale > 0 /\ qty * Scale \in Nat
    BY <1>1, Z3
  <2> HIDE DEF v
  <2> QED
    BY <1>3, <2>1, Z3
<1> HIDE DEF e, d, v
<1> QED
  BY <1>4, <1>5, <1>6, <1>7 DEF ExitFee

(* Amounts are integers. *)
LEMMA SaleType ==
    ASSUME NEW t \in Trade, NEW qty \in Nat, NEW price \in Int, NEW rate \in {Taker, Maker}
    PROVE  Gross(t, qty, price) \in Int /\ ExitFee(qty, price, rate) \in Int
<1>1. t.entry \in Nat /\ t.dir \in Int
  BY DEF Trade
<1>2. FeeScale \in Nat /\ Scale \in Nat /\ rate \in Nat
  BY BacktestAssumption
<1> QED
  BY <1>1, <1>2, Z3 DEF Gross, ExitFee

(* The levels of an entry. *)
LEMMA EntryLevels ==
    ASSUME NEW c \in Candles, NEW dir \in {-1, 1}, NEW d \in Distances
    PROVE  LET entry == (c.open * EntryGrain * (Scale + dir * SlipPart)) \div Scale
               dist  == StopDistance(entry, d)
           IN  /\ entry \in Nat /\ entry > 0
               /\ dist \in Nat /\ dist > 0 /\ dist % 2 = 0 /\ dist * FloorDiv >= entry
<1> DEFINE entry == (c.open * EntryGrain * (Scale + dir * SlipPart)) \div Scale
           dist  == StopDistance(entry, d)
           unit  == 2 * FloorDiv * Scale
           slip  == Scale + dir * SlipPart
           k     == EntryGrain \div unit
           h     == c.open * k * slip
<1>1. /\ c.open \in Nat /\ c.open > 0 /\ EntryGrain \in Nat /\ EntryGrain > 0
      /\ FloorDiv \in Nat /\ FloorDiv > 0 /\ Scale \in Nat /\ Scale > 0
      /\ SlipPart \in 0..(Scale - 1) /\ EntryGrain % unit = 0
      /\ d \in Nat /\ d > 0 /\ d % 2 = 0
  BY BacktestAssumption
<1>2. slip \in Nat /\ slip > 0
  BY <1>1
<1>3. unit \in Nat /\ unit > 0
  BY <1>1, Z3
<1> HIDE DEF slip
<1>4. EntryGrain = unit * k /\ k \in Nat /\ k > 0
  <2> HIDE DEF unit
  <2>1. EntryGrain = unit * k /\ k \in Nat
    BY <1>1, <1>3, Z3
  <2> QED
    BY <1>1, <1>3, <2>1, Z3
<1> HIDE DEF k
<1>5. h \in Nat /\ h > 0
  <2>1. c.open * k \in Nat /\ c.open * k > 0
    BY <1>1, <1>4, Z3
  <2> QED
    BY <1>2, <2>1, Z3
<1>6. c.open * EntryGrain * slip = Scale * (2 * FloorDiv * h)
  <2> DEFINE o == c.open
  <2>1. o * (2 * FloorDiv * Scale * k) * slip = Scale * (2 * FloorDiv * (o * k * slip))
    BY <1>1, <1>2, <1>4, Z3
  <2> QED
    BY <1>4, <2>1
<1> DEFINE w == 2 * FloorDiv * h
<1>7. w \in Nat /\ w > 0 /\ w = FloorDiv * (2 * h)
  <2> HIDE DEF h
  <2> QED
    BY <1>1, <1>5, Z3
<1>8. entry = w
  <2>1. entry = (Scale * w) \div Scale
    BY <1>6 DEF slip
  <2> HIDE DEF entry, w
  <2> QED
    BY <1>1, <1>7, <2>1, Z3
<1>9. w \div FloorDiv = 2 * h
  <2> HIDE DEF w, h
  <2> QED
    BY <1>1, <1>5, <1>7, Z3
<1> HIDE DEF entry, h, w
<1>10. CASE d * FloorDiv >= entry
  <2>1. dist = d
    BY <1>10 DEF StopDistance
  <2> QED
    BY <1>1, <1>7, <1>8, <1>10, <2>1 DEF entry
<1>11. CASE ~(d * FloorDiv >= entry)
  <2>1. dist = 2 * h
    BY <1>8, <1>9, <1>11 DEF StopDistance
  <2>2. (2 * h) * FloorDiv = w
    BY <1>1, <1>5, <1>7, Z3
  <2>3. 2 * h \in Nat /\ 2 * h > 0 /\ (2 * h) % 2 = 0
    BY <1>5
  <2> QED
    BY <1>7, <1>8, <2>1, <2>2, <2>3 DEF entry
<1> QED
  BY <1>10, <1>11

(* An entry is a running trade that has paid its fee. *)
LEMMA EnteredRunning ==
    ASSUME bar \in Nat, bar > 0, NEW c \in Candles, NEW dir \in {-1, 1}, NEW d \in Distances,
           NEW qty \in Sizes, qty > 0
    PROVE  LET t == Entered(c, dir, d, qty) IN
           Running(t) /\ t.tp1Pnl = 0 /\ t.fees \in Int /\ EntryFee(t) = t.fees
<1> DEFINE entry == (c.open * EntryGrain * (Scale + dir * SlipPart)) \div Scale
           dist  == StopDistance(entry, d)
           t == Entered(c, dir, d, qty)
<1>1. /\ entry \in Nat /\ entry > 0
      /\ dist \in Nat /\ dist > 0 /\ dist % 2 = 0 /\ dist * FloorDiv >= entry
  BY EntryLevels
<1>2. qty \in Nat /\ qty % 2 = 0 /\ Scale \in Nat /\ Taker \in Nat
  BY BacktestAssumption
<1>3. t = [dir |-> dir, entry |-> entry, dist |-> dist, sl |-> entry - dist * dir,
           tp1 |-> entry + (3 * dist * dir) \div 2, tp2 |-> entry + 3 * dist * dir,
           qty |-> qty, initQty |-> qty, entryBar |-> bar, tp1Hit |-> FALSE, tp1Pnl |-> 0,
           fees |-> ExitFee(qty, entry * Scale, Taker)]
  BY DEF Entered
<1> HIDE DEF entry, dist, t
<1>4. ExitFee(qty, entry * Scale, Taker) \in Int
  BY <1>1, <1>2, Z3 DEF ExitFee
<1>5. t \in Trade
  <2>1. /\ entry - dist * dir \in Int /\ entry + (3 * dist * dir) \div 2 \in Int
        /\ entry + 3 * dist * dir \in Int
    BY <1>1
  <2> QED
    BY <1>1, <1>2, <1>3, <1>4, <2>1 DEF Trade
<1>6. Running(t)
  BY <1>1, <1>2, <1>3, <1>5 DEF Running
<1>7. t.tp1Pnl = 0 /\ t.fees \in Int /\ EntryFee(t) = t.fees
  BY <1>3, <1>4 DEF EntryFee
<1> QED
  BY <1>6, <1>7 DEF t

(* The sale of one half leaves a running trade with the profit it brought. *)
LEMMA HalfRunning ==
    ASSUME NEW t, Running(t), ~t.tp1Hit
    PROVE  LET h == HalfSold(t) IN
           /\ Running(h.trade) /\ h.gain \in Int /\ h.trade.tp1Pnl = h.gain
           /\ EntryFee(h.trade) = EntryFee(t)
<1> DEFINE half == t.qty \div 2
           fee  == ExitFee(half, t.tp1 * Scale, Maker)
           net  == Gross(t, half, t.tp1 * Scale) - fee
           m == (3 * t.dist) \div 2
           u == HalfSold(t).trade
<1>1. /\ t \in Trade /\ t.dir \in {-1, 1} /\ t.entry \in Nat /\ t.dist \in Nat /\ t.tp1 \in Int
      /\ t.tp2 \in Int /\ t.qty \in Nat /\ t.initQty \in Nat /\ t.entryBar \in Nat /\ t.fees \in Int
  BY DEF Running, Trade
<1>2. /\ t.entry > 0 /\ t.dist > 0 /\ t.dist % 2 = 0 /\ t.dist * FloorDiv >= t.entry
      /\ t.tp1 = t.entry + (3 * t.dist * t.dir) \div 2 /\ t.tp2 = t.entry + 3 * t.dist * t.dir
      /\ t.qty = t.initQty /\ t.initQty > 0 /\ t.initQty % 2 = 0
  BY DEF Running
<1>3. half \in Nat /\ half > 0 /\ 2 * half = t.initQty /\ t.qty - half = half
  BY <1>1, <1>2
<1>4. m \in Nat /\ 2 * m >= 3 * t.dist /\ t.tp1 = t.entry + m * t.dir
  BY <1>1, <1>2
<1>5. Scale \in Nat /\ t.tp1 * Scale \in Int
  BY <1>1, BacktestAssumption, Z3
<1> HIDE DEF half, m
<1>6. net > 0
  BY <1>1, <1>2, <1>3, <1>4, SalePays
<1>7. net \in Int /\ fee \in Int
  <2>1. /\ Gross(t, half, t.tp1 * Scale) \in Int
        /\ ExitFee(half, t.tp1 * Scale, Maker) \in Int
    BY <1>1, <1>3, <1>5, SaleType
  <2> QED
    BY <2>1
<1>8. /\ u = [dir |-> t.dir, entry |-> t.entry, dist |-> t.dist, sl |-> t.entry,
              tp1 |-> t.tp1, tp2 |-> t.tp2, qty |-> t.qty - half,
              initQty |-> t.initQty, entryBar |-> t.entryBar, tp1Hit |-> TRUE,
              tp1Pnl |-> net, fees |-> t.fees + fee]
      /\ HalfSold(t).gain = net
  BY DEF HalfSold, half
<1>9. EntryFee(u) = (t.fees + fee) - ExitFee(t.initQty - (t.qty - half), t.tp1 * Scale, Maker)
  <2> HIDE DEF u, net, fee
  <2>1. /\ u.fees = t.fees + fee /\ u.initQty = t.initQty /\ u.qty = t.qty - half
        /\ u.tp1 = t.tp1 /\ u.tp1Hit = TRUE
    BY <1>8
  <2>2. EntryFee(u) = u.fees - ExitFee(u.initQty - u.qty, u.tp1 * Scale, Maker)
    BY <2>1 DEF EntryFee
  <2> QED
    BY <2>1, <2>2
<1>10. t.initQty - (t.qty - half) = half
  BY <1>1, <1>2, <1>3
<1>11. EntryFee(t) = t.fees - 0
  BY DEF EntryFee
<1> HIDE DEF u, net
<1>12. EntryFee(u) = EntryFee(t)
  <2> DEFINE n == t.initQty - (t.qty - half)
  <2>1. EntryFee(u) = (t.fees + fee) - ExitFee(n, t.tp1 * Scale, Maker) /\ n = half
    BY <1>9, <1>10
  <2> HIDE DEF n
  <2>2. EntryFee(u) = (t.fees + fee) - fee
    BY <2>1
  <2> HIDE DEF fee
  <2> QED
    BY <1>1, <1>7, <1>11, <2>2
<1> HIDE DEF fee
<1>13. u \in Trade
  BY <1>1, <1>3, <1>7, <1>8 DEF Trade
<1>14. Running(u)
  BY <1>1, <1>2, <1>3, <1>6, <1>8, <1>13 DEF Running
<1> QED
  BY <1>7, <1>8, <1>12, <1>14 DEF u

(* Every reason to leave leads to a settled trade, and equity gains what    *)
(* the rest brings.                                                         *)
LEMMA ExitSettled ==
    ASSUME bar \in Nat, NEW t, Running(t), NEW reason \in ExitReasons, NEW level \in Int,
           reason = "tp2_hit" => level = t.tp2
    PROVE  LET x == Exit(t, level, reason) IN
           /\ Settled(x.trade) /\ x.gain \in Int
           /\ x.trade.realized - x.trade.entryFee = x.gain + (t.tp1Pnl - EntryFee(t))
<1> DEFINE stop  == reason # "tp2_hit"
           price == ExitPrice(t, level, stop)
           rate  == IF stop THEN Taker ELSE Maker
           gross == Gross(t, t.qty, price)
           fee   == ExitFee(t.qty, price, rate)
           net   == (gross - fee) + t.tp1Pnl
           tp1   == IF t.tp1Hit THEN ExitFee(t.initQty - t.qty, t.tp1 * Scale, Maker) ELSE 0
           x     == Exit(t, level, reason)
<1>1. /\ t \in Trade /\ t.dir \in {-1, 1} /\ t.entry \in Nat /\ t.dist \in Nat /\ t.tp1 \in Int
      /\ t.qty \in Nat /\ t.initQty \in Nat /\ t.fees \in Int /\ t.tp1Pnl \in Int
      /\ t.tp1Hit \in BOOLEAN
  BY DEF Running, Trade
<1>2. Scale \in Nat /\ SlipPart \in Nat
  BY BacktestAssumption
<1>3. price \in Int
  <2>1. Scale - t.dir * SlipPart \in Int
    BY <1>1, <1>2
  <2> QED
    BY <1>2, <2>1, Z3 DEF ExitPrice
<1>4. gross \in Int /\ fee \in Int
  <2>1. rate \in {Taker, Maker}
    OBVIOUS
  <2> HIDE DEF price, rate
  <2> QED
    BY <1>1, <1>3, <2>1, SaleType
<1>5. tp1 \in Int
  <2>1. t.initQty - t.qty \in Nat /\ t.tp1 * Scale \in Int
    <3>1. t.initQty - t.qty \in Nat
      BY <1>1 DEF Running
    <3> QED
      BY <1>1, <1>2, <3>1, Z3
  <2>2. ExitFee(t.initQty - t.qty, t.tp1 * Scale, Maker) \in Int
    <3> DEFINE n == t.initQty - t.qty
               p == t.tp1 * Scale
    <3>1. n \in Nat /\ p \in Int /\ Maker \in {Taker, Maker}
      BY <2>1
    <3> HIDE DEF n, p
    <3>2. ExitFee(n, p, Maker) \in Int
      BY <1>1, <3>1, SaleType
    <3> QED
      BY <3>2 DEF n, p
  <2> QED
    BY <2>2
<1>6. reason = "tp2_hit" => gross - fee > 0
  <2> SUFFICES ASSUME reason = "tp2_hit" PROVE gross - fee > 0
    OBVIOUS
  <2> DEFINE m == 3 * t.dist
  <2>1. /\ t.dist > 0 /\ t.dist * FloorDiv >= t.entry /\ t.tp2 = t.entry + 3 * t.dist * t.dir
        /\ t.qty > 0
    BY <1>1 DEF Running
  <2>2. m \in Nat /\ 2 * m >= 3 * t.dist /\ level = t.entry + m * t.dir
    BY <1>1, <2>1
  <2> HIDE DEF m
  <2>3. Gross(t, t.qty, level * Scale) - ExitFee(t.qty, level * Scale, Maker) > 0
    BY <1>1, <2>1, <2>2, SalePays
  <2> QED
    BY <2>3 DEF ExitPrice
<1>7. x = [gain |-> gross - fee,
           trade |-> [outcome |-> IF net > 0 \/ reason = "tp2_hit" THEN "win" ELSE "loss",
                      reason |-> reason, gross |-> gross + t.tp1Pnl, fees |-> t.fees + fee,
                      realized |-> net, entryFee |-> t.fees - tp1, tp1Fee |-> tp1,
                      exitBar |-> bar]]
  BY DEF Exit
<1>8. EntryFee(t) = t.fees - tp1
  BY DEF EntryFee
<1>9. t.tp1Pnl >= 0
  BY <1>1 DEF Running
<1> HIDE DEF stop, price, rate, gross, fee, tp1, x
<1>10. reason = "tp2_hit" => net > 0
  BY <1>1, <1>4, <1>6, <1>9
<1>11. net \in Int
  BY <1>1, <1>4
<1>12. net - (t.fees - tp1) = (gross + t.tp1Pnl) - (t.fees + fee) + tp1
  BY <1>1, <1>4, <1>5
<1>13. net - (t.fees - tp1) = (gross - fee) + (t.tp1Pnl - (t.fees - tp1))
  BY <1>1, <1>4, <1>5
<1> DEFINE outcome == IF net > 0 \/ reason = "tp2_hit" THEN "win" ELSE "loss"
<1>14. outcome \in {"win", "loss"} /\ (outcome = "win" <=> net > 0)
  BY <1>10
<1> HIDE DEF net, outcome
<1>15. /\ x.gain = gross - fee /\ x.trade.realized = net /\ x.trade.entryFee = t.fees - tp1
       /\ x.trade.gross = gross + t.tp1Pnl /\ x.trade.fees = t.fees + fee
       /\ x.trade.tp1Fee = tp1 /\ x.trade.outcome = outcome
  BY <1>7 DEF outcome
<1>16. x.trade \in Closed
  <2>1. /\ gross + t.tp1Pnl \in Int /\ t.fees + fee \in Int /\ t.fees - tp1 \in Int
    BY <1>1, <1>4, <1>5
  <2> QED
    BY <1>5, <1>7, <1>11, <1>14, <2>1 DEF Closed, outcome
<1>17. Settled(x.trade)
  BY <1>12, <1>14, <1>15, <1>16 DEF Settled
<1>18. x.gain \in Int
  BY <1>4, <1>15
<1>19. x.trade.realized - x.trade.entryFee = x.gain + (t.tp1Pnl - EntryFee(t))
  BY <1>8, <1>13, <1>15
<1> QED
  BY <1>17, <1>18, <1>19 DEF x

\* The open trade is running, every listed one is settled, and equity is
\* what they brought.
OpenPart(t) == IF t = NoneActive THEN 0 ELSE t.tp1Pnl - EntryFee(t)

Booked(a, s, m) ==
    /\ a = NoneActive \/ (Running(a) /\ EntryFee(a) \in Int)
    /\ s \in Seq(Closed) /\ \A i \in 1..Len(s) : Settled(s[i])
    /\ m = StartMoney + NetOfList(s) + OpenPart(a)
    /\ NetOfList(s) = (GrossOfList(s) - FeesOfList(s)) + Tp1OfList(s)

BtInv == bar \in Nat /\ Booked(active, done, money)

(* What the bar does to the open trade keeps the books. *)
LEMMA CheckedBooked ==
    ASSUME BtInv, NEW c \in Candles
    PROVE  Booked(Checked(c).active, Checked(c).done, Checked(c).money)
<1> DEFINE r == ReasonToLeave(active, c)
           reason == CHOOSE x \in r : TRUE
           level == LevelOf(active, c, reason)
           x == Exit(active, level, reason)
           h == HalfSold(active)
<1>1. /\ bar \in Nat
      /\ active = NoneActive \/ (Running(active) /\ EntryFee(active) \in Int)
      /\ done \in Seq(Closed) /\ \A i \in 1..Len(done) : Settled(done[i])
      /\ money = StartMoney + NetOfList(done) + OpenPart(active)
      /\ NetOfList(done) = (GrossOfList(done) - FeesOfList(done)) + Tp1OfList(done)
  BY DEF BtInv, Booked
<1>2. StartMoney \in Int
  BY BacktestAssumption
<1>3. bar \in Nat
  BY DEF BtInv
<1>4. CASE active = NoneActive
  <2>1. Checked(c) = [active |-> NoneActive, done |-> done, money |-> money]
    BY <1>4 DEF Checked
  <2> QED
    BY <1>4, <2>1 DEF BtInv
<1>5. ASSUME active # NoneActive, r # {}
      PROVE  Booked(Checked(c).active, Checked(c).done, Checked(c).money)
  <2>1. Running(active) /\ EntryFee(active) \in Int /\ active \in Trade
    BY <1>1, <1>5 DEF Running
  <2>2. reason \in r /\ r \subseteq ExitReasons
    BY <1>5 DEF ReasonToLeave, ExitReasons
  <2>3. level \in Int /\ (reason = "tp2_hit" => level = active.tp2)
    <3>1. active.tp2 \in Int /\ active.sl \in Int /\ Close(c) \in Int
      <4>1. c.close \in Nat /\ EntryGrain \in Nat
        BY BacktestAssumption
      <4> QED
        BY <2>1, <4>1, Z3 DEF Trade, Close
    <3> HIDE DEF reason
    <3> QED
      BY <3>1 DEF LevelOf
  <2>4. Checked(c) = [active |-> NoneActive, done |-> Append(done, x.trade),
                      money |-> money + x.gain]
    BY <1>5 DEF Checked
  <2> HIDE DEF reason, level, r
  <2>5. /\ Settled(x.trade) /\ x.gain \in Int
        /\ x.trade.realized - x.trade.entryFee = x.gain + (active.tp1Pnl - EntryFee(active))
    BY <1>3, <2>1, <2>2, <2>3, ExitSettled
  <2> DEFINE s == Append(done, x.trade)
             u == x.trade
             g == x.gain
             a == active.tp1Pnl - EntryFee(active)
  <2>6. u \in Closed /\ u.realized - u.entryFee = u.gross - u.fees + u.tp1Fee
        /\ u.realized - u.entryFee = g + a /\ g \in Int
    BY <2>5 DEF Settled
  <2>7. /\ u.realized \in Int /\ u.entryFee \in Int /\ u.gross \in Int
        /\ u.fees \in Int /\ u.tp1Fee \in Int
    BY <2>6 DEF Closed
  <2>8. a \in Int
    BY <2>1 DEF Trade
  <2>9. /\ s \in Seq(Closed) /\ \A i \in 1..Len(s) : Settled(s[i])
    <3> HIDE DEF x
    <3>1. u \in Closed /\ Settled(u)
      BY <2>5, <2>6
    <3> HIDE DEF u
    <3> QED
      BY <1>1, <3>1 DEF u
  <2>10. /\ NetOfList(s) = NetOfList(done) + (u.realized - u.entryFee)
         /\ GrossOfList(s) = GrossOfList(done) + u.gross
         /\ FeesOfList(s) = FeesOfList(done) + u.fees
         /\ Tp1OfList(s) = Tp1OfList(done) + u.tp1Fee
         /\ NetOfList(done) \in Int /\ GrossOfList(done) \in Int
         /\ FeesOfList(done) \in Int /\ Tp1OfList(done) \in Int
    BY <1>1, <2>6, AppendSums
  <2>11. money = StartMoney + NetOfList(done) + a
    BY <1>1, <1>5 DEF OpenPart
  <2> HIDE DEF x, u, g, a
  <2>12. money + g = StartMoney + NetOfList(s) + 0
    BY <1>2, <2>6, <2>8, <2>10, <2>11
  <2>13. NetOfList(s) = (GrossOfList(s) - FeesOfList(s)) + Tp1OfList(s)
    <3> DEFINE A == NetOfList(done)
               B == GrossOfList(done)
               C == FeesOfList(done)
               D == Tp1OfList(done)
    <3>1. A = (B - C) + D /\ A \in Int /\ B \in Int /\ C \in Int /\ D \in Int
      BY <1>1, <2>10
    <3>2. /\ NetOfList(s) = A + (u.realized - u.entryFee) /\ GrossOfList(s) = B + u.gross
          /\ FeesOfList(s) = C + u.fees /\ Tp1OfList(s) = D + u.tp1Fee
      BY <2>10
    <3>3. u.realized - u.entryFee = (u.gross - u.fees) + u.tp1Fee
      BY <2>6, <2>7
    <3> HIDE DEF A, B, C, D
    <3> QED
      BY <2>7, <3>1, <3>2, <3>3
  <2>14. OpenPart(NoneActive) = 0
    BY DEF OpenPart
  <2>15. Booked(NoneActive, s, money + g)
    <3> HIDE DEF s
    <3> QED
      BY <2>9, <2>12, <2>13, <2>14 DEF Booked
  <2> QED
    BY <2>4, <2>15 DEF x, u, g
<1>6. ASSUME active # NoneActive, r = {}, Tp1Hit(active, c) /\ ~active.tp1Hit
      PROVE  Booked(Checked(c).active, Checked(c).done, Checked(c).money)
  <2>1. Running(active) /\ EntryFee(active) \in Int /\ active.tp1Pnl = 0
    BY <1>1, <1>6 DEF Running
  <2>2. /\ Running(h.trade) /\ h.gain \in Int /\ h.trade.tp1Pnl = h.gain
        /\ EntryFee(h.trade) = EntryFee(active)
    BY <1>6, <2>1, HalfRunning
  <2>3. Checked(c) = [active |-> h.trade, done |-> done, money |-> money + h.gain]
    BY <1>6 DEF Checked
  <2> HIDE DEF h
  <2>4. h.trade # NoneActive
    BY <2>2, NoneIsNoTrade DEF Running
  <2>5. OpenPart(h.trade) = h.gain - EntryFee(active) /\ OpenPart(active) = 0 - EntryFee(active)
    BY <1>6, <2>1, <2>2, <2>4 DEF OpenPart
  <2>6. NetOfList(done) \in Int
    BY <1>1, ListTypes
  <2>7. money + h.gain = StartMoney + NetOfList(done) + OpenPart(h.trade)
    BY <1>1, <1>2, <2>1, <2>2, <2>5, <2>6
  <2>8. Booked(h.trade, done, money + h.gain)
    BY <1>1, <2>1, <2>2, <2>7 DEF Booked
  <2> QED
    BY <2>3, <2>8
<1>7. ASSUME active # NoneActive, r = {}, ~(Tp1Hit(active, c) /\ ~active.tp1Hit)
      PROVE  Booked(Checked(c).active, Checked(c).done, Checked(c).money)
  <2>1. Checked(c) = [active |-> active, done |-> done, money |-> money]
    BY <1>7 DEF Checked
  <2> QED
    BY <2>1 DEF BtInv
<1> QED
  BY <1>4, <1>5, <1>6, <1>7

(* One step of a backtest keeps the books. *)
LEMMA BtStep ==
    ASSUME BtInv, [BtNext]_btVars
    PROVE  BtInv'
<1>1. bar \in Nat /\ StartMoney \in Int
  BY BacktestAssumption DEF BtInv
<1>2. ASSUME NEW c \in Candles, BarPasses(c) PROVE BtInv'
  <2>1. Booked(Checked(c).active, Checked(c).done, Checked(c).money)
    BY CheckedBooked
  <2>2. Booked(active', done', money') /\ bar' \in Nat
    BY <1>1, <1>2, <2>1 DEF BarPasses
  <2> QED
    BY <2>2 DEF BtInv, Booked, OpenPart, EntryFee, Running, ExitFee
<1>3. ASSUME NEW c \in Candles, NEW dir \in {-1, 1}, NEW d \in Distances, NEW qty \in Sizes,
             BarEnters(c, dir, d, qty)
      PROVE  BtInv'
  <2> DEFINE s == Checked(c).done
             m == Checked(c).money
             t == Entered(c, dir, d, qty)
  <2>1. /\ Checked(c).active = NoneActive /\ qty > 0 /\ bar > 0 /\ bar' = bar + 1
        /\ active' = t /\ done' = s /\ money' = m - t.fees
    BY <1>3 DEF BarEnters
  <2>2. Booked(NoneActive, s, m)
    BY <2>1, CheckedBooked
  <2>3. Running(t) /\ t.tp1Pnl = 0 /\ t.fees \in Int /\ EntryFee(t) = t.fees
    BY <1>1, <2>1, EnteredRunning
  <2> HIDE DEF s, m, t
  <2>4. t # NoneActive
    BY <2>3, NoneIsNoTrade DEF Running
  <2>5. /\ s \in Seq(Closed) /\ \A i \in 1..Len(s) : Settled(s[i])
        /\ m = StartMoney + NetOfList(s) + 0
        /\ NetOfList(s) = (GrossOfList(s) - FeesOfList(s)) + Tp1OfList(s)
    BY <2>2 DEF Booked, OpenPart
  <2>6. NetOfList(s) \in Int
    BY <2>5, ListTypes
  <2>7. OpenPart(t) = 0 - t.fees
    BY <2>3, <2>4 DEF OpenPart
  <2>8. m - t.fees = StartMoney + NetOfList(s) + OpenPart(t)
    BY <1>1, <2>3, <2>5, <2>6, <2>7
  <2>9. Booked(t, s, m - t.fees)
    BY <2>3, <2>5, <2>8 DEF Booked
  <2>10. Booked(active', done', money') /\ bar' \in Nat
    BY <1>1, <2>1, <2>9
  <2> QED
    BY <2>10 DEF BtInv, Booked, OpenPart, EntryFee, Running, ExitFee
<1>4. CASE BtDone
  <2>1. Booked(NoneActive, <<>>, StartMoney)
    BY <1>1, EmptySums DEF Booked, OpenPart
  <2>2. active' = NoneActive /\ done' = <<>> /\ money' = StartMoney /\ bar' = 0
    BY <1>4 DEF BtDone
  <2>3. Booked(active', done', money') /\ bar' \in Nat
    BY <2>1, <2>2
  <2> QED
    BY <2>3 DEF BtInv, Booked, OpenPart, EntryFee, Running, ExitFee
<1>5. CASE UNCHANGED btVars
  BY <1>5 DEF btVars, BtInv
<1> QED
  BY <1>2, <1>3, <1>4, <1>5 DEF BtNext

(* The invariant of the simulation.                                         *)
LEMMA BtInvariant == BtSpec => []BtInv
<1>1. BtInit => BtInv
  <2> SUFFICES ASSUME BtInit PROVE BtInv
    OBVIOUS
  <2>1. StartMoney \in Int
    BY BacktestAssumption
  <2> QED
    BY <2>1, EmptySums DEF BtInit, BtInv, Booked, OpenPart
<1>2. BtInv /\ [BtNext]_btVars => BtInv'
  BY BtStep
<1> QED
  BY <1>1, <1>2, PTL DEF BtSpec

(* The equity that BacktestSimulator.run keeps up to date at every partial  *)
(* step is what the listed trades and the open one brought; what            *)
(* reconcile_accounting adds up falls short of it by exactly the fees of    *)
(* the first targets; and a trade is called a win only if it won.           *)
THEOREM BacktestAddsUp == BtSpec => []MoneyAddsUp
<1>1. BtInv => MoneyAddsUp
  <2> SUFFICES ASSUME BtInv PROVE MoneyAddsUp
    OBVIOUS
  <2>1. /\ done \in Seq(Closed) /\ \A i \in 1..Len(done) : Settled(done[i])
        /\ money = StartMoney + NetOfList(done) + OpenPart(active)
        /\ NetOfList(done) = (GrossOfList(done) - FeesOfList(done)) + Tp1OfList(done)
    BY DEF BtInv, Booked
  <2>2. /\ NetOfList(done) \in Int /\ GrossOfList(done) \in Int
        /\ FeesOfList(done) \in Int /\ Tp1OfList(done) \in Int /\ StartMoney \in Int
    BY <2>1, ListTypes, BacktestAssumption
  <2>3. MoneyIsLedger
    BY <2>1, Sums DEF MoneyIsLedger, OpenPart
  <2>4. ReconciledButForTp1Fees
    <3>1. Reconciled = StartMoney + GrossOfList(done) - FeesOfList(done)
      BY Sums DEF Reconciled
    <3>2. active = NoneActive => money = Reconciled + Tp1OfList(done)
      BY <2>1, <2>2, <3>1 DEF OpenPart
    <3> QED
      BY <3>2, Sums DEF ReconciledButForTp1Fees
  <2>5. OutcomeIsSign
    BY <2>1 DEF OutcomeIsSign, Settled
  <2> QED
    BY <2>3, <2>4, <2>5 DEF MoneyAddsUp
<1> QED
  BY <1>1, BtInvariant, PTL

-----------------------------------------------------------------------------
(* The simulator and the paper engine. *)

(* The paper engine's exit of the rest is the simulator's. *)
LEMMA SameClose ==
    ASSUME NEW t \in Trade, NEW level \in Int, NEW reason \in ExitReasons
    PROVE  LET p == Paper!ClosedAt(AsPosition(t), level, PaperReason(reason))
               x == Exit(t, level, reason).trade
           IN  /\ p.reason = PaperReason(x.reason) /\ p.reason # "none"
               /\ p.realized = x.realized /\ p.fees = x.fees
<1> DEFINE stop  == reason # "tp2_hit"
           price == ExitPrice(t, level, stop)
           rate  == IF stop THEN Taker ELSE Maker
           pr    == PaperReason(reason)
           P     == AsPosition(t)
           p     == Paper!ClosedAt(P, level, pr)
           x     == Exit(t, level, reason).trade
<1>1. /\ t.dir \in {-1, 1} /\ t.entry \in Nat /\ t.qty \in Nat /\ t.tp1Pnl \in Int /\ t.fees \in Int
  BY DEF Trade
<1>2. /\ Scale \in Nat /\ SlipPart \in Nat /\ FeeScale \in Nat /\ Taker \in Nat /\ Maker \in Nat
  BY BacktestAssumption
<1>3. price \in Int
  <2>1. Scale - t.dir * SlipPart \in Int
    BY <1>1, <1>2
  <2> QED
    BY <1>2, <2>1, Z3 DEF ExitPrice
<1>4. Paper!IsTaker(pr) = stop /\ pr # "none"
  BY DEF Paper!IsTaker, Paper!StopReasons, PaperReason, ExitReasons
<1>5. /\ P.dir = t.dir /\ P.entry = t.entry /\ P.qty = t.qty /\ P.realized = t.tp1Pnl
      /\ P.fees = t.fees
  BY DEF AsPosition
<1>6. /\ p.reason = pr
      /\ p.realized = P.realized + Paper!NetOf(P, P.qty, level, Paper!IsTaker(pr))
      /\ p.fees = P.fees + Paper!FeeOf(P, P.qty, level, Paper!IsTaker(pr))
  <2> HIDE DEF P, pr
  <2> QED
    BY DEF Paper!ClosedAt, Paper!With
<1>7. Paper!NetOf(P, P.qty, level, stop) = Gross(t, t.qty, price) - ExitFee(t.qty, price, rate)
  <2>1. Paper!NetOf(P, P.qty, level, stop)
           = ((price - t.entry * Scale) * t.dir * t.qty) * FeeScale - price * t.qty * rate
    <3> HIDE DEF P, stop
    <3> QED
      BY <1>5 DEF Paper!NetOf, ExitPrice
  <2>2. price * t.qty * rate = t.qty * price * rate
    <3> HIDE DEF price
    <3> QED
      BY <1>1, <1>2, <1>3, Z3
  <2> HIDE DEF P, stop, price, rate
  <2> QED
    BY <2>1, <2>2 DEF Gross, ExitFee
<1>8. Paper!FeeOf(P, P.qty, level, stop) = ExitFee(t.qty, price, rate)
  <2>1. Paper!FeeOf(P, P.qty, level, stop) = price * t.qty * rate
    <3> HIDE DEF P, stop
    <3> QED
      BY <1>5 DEF Paper!FeeOf, ExitPrice
  <2>2. price * t.qty * rate = t.qty * price * rate
    <3> HIDE DEF price
    <3> QED
      BY <1>1, <1>2, <1>3, Z3
  <2> QED
    BY <2>1, <2>2 DEF ExitFee
<1>9. /\ x.reason = reason /\ x.fees = t.fees + ExitFee(t.qty, price, rate)
      /\ x.realized = Gross(t, t.qty, price) - ExitFee(t.qty, price, rate) + t.tp1Pnl
  BY DEF Exit
<1>10. Gross(t, t.qty, price) \in Int /\ ExitFee(t.qty, price, rate) \in Int
  <2>1. rate \in {Taker, Maker}
    OBVIOUS
  <2> HIDE DEF price, rate
  <2> QED
    BY <1>1, <1>3, <2>1, SaleType
<1> HIDE DEF stop, price, rate, pr, P, p, x
<1>11. p.realized = x.realized /\ p.fees = x.fees
  BY <1>1, <1>4, <1>5, <1>6, <1>7, <1>8, <1>9, <1>10
<1>12. p.reason = PaperReason(x.reason) /\ p.reason # "none"
  BY <1>4, <1>6, <1>9 DEF pr
<1> QED
  BY <1>11, <1>12 DEF p, x, P, pr

(* The paper engine's sale of one half is the simulator's. *)
LEMMA SameHalf ==
    ASSUME NEW t, Running(t), ~t.tp1Hit
    PROVE  Paper!AfterTp1(AsPosition(t)) = AsPosition(HalfSold(t).trade)
<1> DEFINE half  == t.qty \div 2
           price == t.tp1 * Scale
           P     == AsPosition(t)
           net   == Paper!NetOf(P, half, t.tp1, FALSE)
           paid  == Paper!FeeOf(P, half, t.tp1, FALSE)
           fee   == ExitFee(half, price, Maker)
           gain  == Gross(t, half, price) - fee
<1>1. /\ t \in Trade /\ t.dir \in {-1, 1} /\ t.entry \in Nat /\ t.qty \in Nat /\ t.fees \in Int
      /\ t.tp1 \in Int /\ t.tp1Pnl = 0
  BY DEF Running, Trade
<1>2. Scale \in Nat /\ FeeScale \in Nat /\ Maker \in Nat /\ half \in Nat
  BY <1>1, BacktestAssumption
<1>3. price \in Int
  BY <1>1, <1>2, Z3
<1> HIDE DEF half
<1>4. price * half * Maker = half * price * Maker
  <2> HIDE DEF price
  <2> QED
    BY <1>2, <1>3, Z3
<1>5. net = ((price - t.entry * Scale) * t.dir * half) * FeeScale - price * half * Maker
  BY DEF Paper!NetOf, AsPosition
<1>6. paid = price * half * Maker
  BY DEF Paper!FeeOf, AsPosition
<1> HIDE DEF net, paid
<1>7. net = gain /\ paid = fee
  <2> HIDE DEF price
  <2> QED
    BY <1>4, <1>5, <1>6 DEF Gross, ExitFee
<1>8. gain \in Int
  <2>1. Gross(t, half, price) \in Int /\ fee \in Int
    <3> HIDE DEF price
    <3> QED
      BY <1>1, <1>2, <1>3, SaleType
  <2> QED
    BY <2>1
<1> HIDE DEF gain, fee, price
<1>9. HalfSold(t).trade =
         [dir |-> t.dir, entry |-> t.entry, dist |-> t.dist, sl |-> t.entry,
          tp1 |-> t.tp1, tp2 |-> t.tp2, qty |-> t.qty - half,
          initQty |-> t.initQty, entryBar |-> t.entryBar, tp1Hit |-> TRUE,
          tp1Pnl |-> gain, fees |-> t.fees + fee]
  BY DEF HalfSold, gain, fee, price, half
<1>10. Paper!AfterTp1(P) =
         Paper!With(P, P.entry, P.qty - half, TRUE, P.realized + net, P.fees + paid, P.reason)
  <2>1. P.tp1 = t.tp1 /\ P.qty = t.qty
    BY DEF AsPosition
  <2> HIDE DEF P
  <2> QED
    BY <2>1 DEF Paper!AfterTp1, net, paid, half
<1>11. 0 + gain = gain
  BY <1>8
<1>12. /\ P.sym = "symbol" /\ P.dir = t.dir /\ P.entry = t.entry
       /\ P.initialSl = t.entry - t.dist * t.dir /\ P.tp1 = t.tp1 /\ P.tp2 = t.tp2
       /\ P.qty = t.qty /\ P.initialQty = t.initQty /\ P.opened = t.entryBar - 1
       /\ P.realized = 0 /\ P.fees = t.fees /\ P.reason = "none"
  BY <1>1 DEF AsPosition
<1> DEFINE u == HalfSold(t).trade
<1>13. /\ u.dir = t.dir /\ u.entry = t.entry /\ u.dist = t.dist /\ u.sl = t.entry
       /\ u.tp1 = t.tp1 /\ u.tp2 = t.tp2 /\ u.qty = t.qty - half /\ u.initQty = t.initQty
       /\ u.entryBar = t.entryBar /\ u.tp1Hit = TRUE /\ u.tp1Pnl = gain /\ u.fees = t.fees + fee
  BY <1>9
<1> HIDE DEF u, P
<1>14. Paper!AfterTp1(P) =
         [sym |-> "symbol", dir |-> t.dir, entry |-> t.entry, sl |-> t.entry,
          initialSl |-> t.entry - t.dist * t.dir, tp1 |-> t.tp1, tp2 |-> t.tp2,
          qty |-> t.qty - half, initialQty |-> t.initQty, opened |-> t.entryBar - 1,
          tp1Hit |-> TRUE, realized |-> gain, fees |-> t.fees + fee, reason |-> "none"]
  BY <1>7, <1>10, <1>11, <1>12 DEF Paper!With
<1>15. AsPosition(u) =
         [sym |-> "symbol", dir |-> t.dir, entry |-> t.entry, sl |-> t.entry,
          initialSl |-> t.entry - t.dist * t.dir, tp1 |-> t.tp1, tp2 |-> t.tp2,
          qty |-> t.qty - half, initialQty |-> t.initQty, opened |-> t.entryBar - 1,
          tp1Hit |-> TRUE, realized |-> gain, fees |-> t.fees + fee, reason |-> "none"]
  BY <1>13 DEF AsPosition
<1> QED
  BY <1>14, <1>15 DEF u, P

(* A running trade leaves both engines alike, or stays in both alike, or    *)
(* is at its last bar in the paper engine.                                  *)
LEMMA SameBar ==
    ASSUME BtInv, active # NoneActive, NEW c \in Candles
    PROVE  LET paper == Paper!AfterBar(AsPosition(active),
                            [high |-> High(c), low |-> Low(c), close |-> Close(c)], bar)
               mine  == Checked(c)
               last  == mine.done[Len(mine.done)]
               early == mine.active = active /\ bar - active.entryBar = HoldBars - 1
           IN  IF mine.active = NoneActive
               THEN /\ paper.reason = PaperReason(last.reason)
                    /\ paper.realized = last.realized /\ paper.fees = last.fees
               ELSE IF early
               THEN paper.reason = "timestop"
               ELSE paper = AsPosition(mine.active)
<1> DEFINE t == active
           b == [high |-> High(c), low |-> Low(c), close |-> Close(c)]
           P == AsPosition(t)
           paper == Paper!AfterBar(P, b, bar)
           mine == Checked(c)
           last == mine.done[Len(mine.done)]
           r == ReasonToLeave(t, c)
           early == mine.active = active /\ bar - active.entryBar = HoldBars - 1
<1>1. Running(t) /\ t \in Trade /\ done \in Seq(Closed) /\ bar \in Nat
  BY DEF BtInv, Booked, Running
<1>2. /\ t.tp2 \in Int /\ t.sl \in Int /\ t.tp1Hit \in BOOLEAN /\ Close(c) \in Int
      /\ t.entryBar \in Nat /\ HoldBars \in Nat
  <2>1. c.close \in Nat /\ EntryGrain \in Nat /\ HoldBars \in Nat
    BY BacktestAssumption
  <2> QED
    BY <1>1, <2>1, Z3 DEF Trade, Close
<1>3. /\ Paper!SlHit(P, b) = SlHit(t, c) /\ Paper!Tp1Hit(P, b) = Tp1Hit(t, c)
      /\ Paper!Tp2Hit(P, b) = Tp2Hit(t, c)
  BY DEF Paper!SlHit, Paper!Tp1Hit, Paper!Tp2Hit, SlHit, Tp1Hit, Tp2Hit, AsPosition
<1>4. /\ P.sl = t.sl /\ P.tp2 = t.tp2 /\ P.tp1Hit = t.tp1Hit /\ P.opened = t.entryBar - 1
      /\ b.close = Close(c) /\ P.reason = "none"
  BY DEF AsPosition
<1> HIDE DEF P, b
<1>5. ASSUME NEW reason \in ExitReasons, r = {reason}, NEW level, level = LevelOf(t, c, reason),
             level \in Int, paper = Paper!ClosedAt(P, level, PaperReason(reason))
      PROVE  /\ mine.active = NoneActive
             /\ paper.reason = PaperReason(last.reason)
             /\ paper.realized = last.realized /\ paper.fees = last.fees
  <2> DEFINE x == Exit(t, level, reason)
  <2>1. mine = [active |-> NoneActive, done |-> Append(done, x.trade), money |-> money + x.gain]
    <3>1. (CHOOSE y \in r : TRUE) = reason
      BY <1>5
    <3> HIDE DEF r
    <3> QED
      BY <1>5, <3>1 DEF Checked, r
  <2> DEFINE u == x.trade
  <2>2. mine.active = NoneActive /\ mine.done = Append(done, u)
    BY <2>1
  <2>3. /\ paper.reason = PaperReason(u.reason)
        /\ paper.realized = u.realized /\ paper.fees = u.fees
    BY <1>1, <1>5, SameClose DEF P
  <2> HIDE DEF u, mine, paper
  <2>4. last = u
    BY <1>1, <2>2
  <2> QED
    BY <2>2, <2>3, <2>4
<1>6. CASE SlHit(t, c) /\ (Tp1Hit(t, c) \/ Tp2Hit(t, c))
  <2>1. r = {"sl_hit_collision"} /\ LevelOf(t, c, "sl_hit_collision") = t.sl
    BY <1>6 DEF ReasonToLeave, LevelOf
  <2>2. paper = Paper!ClosedAt(P, t.sl, PaperReason("sl_hit_collision"))
    BY <1>3, <1>4, <1>6 DEF Paper!AfterBar, PaperReason
  <2>3. "sl_hit_collision" \in ExitReasons
    BY DEF ExitReasons
  <2> HIDE DEF r, paper, mine, last
  <2> QED
    BY <1>2, <1>5, <2>1, <2>2, <2>3 DEF paper, mine, last, P, b
<1>7. CASE SlHit(t, c) /\ ~(Tp1Hit(t, c) \/ Tp2Hit(t, c))
  <2>1. r = {"sl_hit"} /\ LevelOf(t, c, "sl_hit") = t.sl
    BY <1>7 DEF ReasonToLeave, LevelOf
  <2>2. paper = Paper!ClosedAt(P, t.sl, PaperReason("sl_hit"))
    BY <1>3, <1>4, <1>7 DEF Paper!AfterBar, PaperReason
  <2>3. "sl_hit" \in ExitReasons
    BY DEF ExitReasons
  <2> HIDE DEF r, paper, mine, last
  <2> QED
    BY <1>2, <1>5, <2>1, <2>2, <2>3 DEF paper, mine, last, P, b
<1>8. CASE ~SlHit(t, c) /\ Tp2Hit(t, c)
  <2>1. r = {"tp2_hit"} /\ LevelOf(t, c, "tp2_hit") = t.tp2
    BY <1>8 DEF ReasonToLeave, LevelOf
  <2>2. paper = Paper!ClosedAt(P, t.tp2, PaperReason("tp2_hit"))
    BY <1>3, <1>4, <1>8 DEF Paper!AfterBar, PaperReason
  <2>3. "tp2_hit" \in ExitReasons
    BY DEF ExitReasons
  <2> HIDE DEF r, paper, mine, last
  <2> QED
    BY <1>2, <1>5, <2>1, <2>2, <2>3 DEF paper, mine, last, P, b
<1>9. CASE ~SlHit(t, c) /\ ~Tp2Hit(t, c) /\ Tp1Hit(t, c) /\ ~t.tp1Hit
  <2>1. mine = [active |-> HalfSold(t).trade, done |-> done, money |-> money + HalfSold(t).gain]
    <3>1. r = {}
      BY <1>9 DEF ReasonToLeave
    <3> QED
      BY <1>9, <3>1 DEF Checked
  <2>2. paper = Paper!AfterTp1(P)
    BY <1>3, <1>4, <1>9 DEF Paper!AfterBar
  <2>3. paper = AsPosition(HalfSold(t).trade)
    BY <1>1, <1>9, <2>2, SameHalf DEF P
  <2>4. HalfSold(t).trade # NoneActive
    BY <1>1, <1>9, HalfRunning, NoneIsNoTrade DEF Running
  <2>5. mine.active = HalfSold(t).trade /\ HalfSold(t).trade # t
    <3>1. HalfSold(t).trade.tp1Hit = TRUE
      BY DEF HalfSold
    <3> QED
      BY <1>9, <2>1, <3>1
  <2>6. ~early
    BY <2>5
  <2> HIDE DEF paper, mine, last, early
  <2> QED
    BY <2>3, <2>4, <2>5, <2>6 DEF paper, mine, last, early, P, b
<1>10. CASE /\ ~SlHit(t, c) /\ ~Tp2Hit(t, c) /\ ~(Tp1Hit(t, c) /\ ~t.tp1Hit)
            /\ bar - t.entryBar >= HoldBars
  <2>1. r = {"timestop"} /\ LevelOf(t, c, "timestop") = Close(c)
    BY <1>10 DEF ReasonToLeave, LevelOf
  <2>2. paper = Paper!ClosedAt(P, Close(c), PaperReason("timestop"))
    <3>1. bar - P.opened >= HoldBars
      BY <1>1, <1>2, <1>4, <1>10
    <3> QED
      BY <1>3, <1>4, <1>10, <3>1 DEF Paper!AfterBar, PaperReason
  <2>3. "timestop" \in ExitReasons
    BY DEF ExitReasons
  <2> HIDE DEF r, paper, mine, last
  <2> QED
    BY <1>2, <1>5, <2>1, <2>2, <2>3 DEF paper, mine, last, P, b
<1>11. CASE /\ ~SlHit(t, c) /\ ~Tp2Hit(t, c) /\ ~(Tp1Hit(t, c) /\ ~t.tp1Hit)
            /\ ~(bar - t.entryBar >= HoldBars)
  <2>1. mine = [active |-> t, done |-> done, money |-> money]
    <3>1. r = {}
      BY <1>11 DEF ReasonToLeave
    <3> QED
      BY <1>11, <3>1 DEF Checked
  <2>2. mine.active = t /\ t # NoneActive
    BY <2>1
  <2>3. bar - (t.entryBar - 1) >= HoldBars <=> bar - t.entryBar = HoldBars - 1
    BY <1>1, <1>2, <1>11
  <2>4. CASE bar - t.entryBar = HoldBars - 1
    <3>1. paper = Paper!ClosedAt(P, Close(c), "timestop")
      BY <1>3, <1>4, <1>11, <2>3, <2>4 DEF Paper!AfterBar
    <3>2. paper.reason = "timestop"
      BY <3>1 DEF Paper!ClosedAt, Paper!With
    <3>3. early
      BY <2>2, <2>4
    <3> HIDE DEF paper, mine, last, early
    <3> QED
      BY <2>2, <3>2, <3>3 DEF paper, mine, last, early, P, b
  <2>5. CASE ~(bar - t.entryBar = HoldBars - 1)
    <3>1. paper = P
      BY <1>3, <1>4, <1>11, <2>3, <2>5 DEF Paper!AfterBar
    <3>2. ~early
      BY <2>5
    <3> HIDE DEF paper, mine, last, early
    <3> QED
      BY <2>2, <3>1, <3>2 DEF paper, mine, last, early, P, b
  <2> QED
    BY <2>4, <2>5
<1> QED
  BY <1>6, <1>7, <1>8, <1>9, <1>10, <1>11

(* What BacktestSimulator.run tests is what on_bar_update trades, but for   *)
(* one bar of holding: against any bar, the same trade leaves both engines  *)
(* with the same reason, net result and fees, or stays in both with the     *)
(* same stop and quantity, or has reached the time stop in the paper        *)
(* engine, one bar before the simulator's.                                  *)
THEOREM BacktestIsPaper == BtSpec => []SameExits
<1>1. BtInv => SameExits
  BY SameBar DEF SameExits
<1> QED
  BY <1>1, BtInvariant, PTL

=============================================================================
