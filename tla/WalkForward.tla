----------------------------- MODULE WalkForward -----------------------------
(***************************************************************************)
(* Anchored walk-forward validation: the boundaries of the folds           *)
(* (walk_forward_folds in core/stats.py) and the loop that trains on what  *)
(* is before a fold and measures inside it (WalkForwardOptimizer.run in    *)
(* backtest/walk_forward.py).  Bars are their indices in the series; the   *)
(* simulator is reduced to where it may enter and leave a trade.           *)
(***************************************************************************)
EXTENDS Integers, Sequences

CONSTANTS
    BarCounts, Warmups, FoldCounts,  \* num_bars, warmup_bars, k_folds of a validation
    SimWarmups,                      \* warmup_bars of the simulator's configuration
    MaxTrades,                       \* bound on the trades of one simulation
    NoWalk

ASSUME WalkAssumption ==
    /\ BarCounts \subseteq Nat /\ Warmups \subseteq Nat
    /\ SimWarmups \subseteq Nat
    /\ FoldCounts \subseteq Nat \ {0} /\ MaxTrades \in Nat
    /\ NoWalk \notin [bars : BarCounts, warmup : Warmups, sim : SimWarmups, k : FoldCounts]

VARIABLES
    walk,   \* the validation that runs, or NoWalk
    fold,   \* the folds that are done
    oos     \* all_oos_trades: [fold, entry, exit], in the order they are appended

walkVars == <<walk, fold, oos>>

\* A configuration that is passed in may have a warmup of its own.
Walk == [bars : BarCounts, warmup : Warmups, sim : SimWarmups, k : FoldCounts]

-----------------------------------------------------------------------------
(* walk_forward_folds *)

\* The least number of bars of a fold.
MinBars == 10

FoldLen(w) == (w.bars - w.warmup) \div (w.k + 1)

\* Variant for mutation: the bars of the training that comes first are not counted.
FoldsFitShort(w) == w.bars - w.warmup >= w.k * MinBars

FoldsFit(w) == w.bars - w.warmup >= (w.k + 1) * MinBars

TrainEnd(w, f) == w.warmup + f * FoldLen(w) - 1

TestStart(w, f) == TrainEnd(w, f) + 2

\* Variant for mutation: every test runs to the end of the series.
TestEndOfSeries(w, f) == w.bars - 1

\* Variant for mutation: what the division leaves over is dropped.
TestEndEqual(w, f) == w.warmup + (f + 1) * FoldLen(w) - 1

\* The last fold takes what the division leaves over.
TestEnd(w, f) == IF f < w.k THEN w.warmup + (f + 1) * FoldLen(w) - 1 ELSE w.bars - 1

-----------------------------------------------------------------------------
(* WalkForwardOptimizer.run *)

SliceStart(w, f) == IF TestStart(w, f) > w.warmup THEN TestStart(w, f) - w.warmup ELSE 0

SliceBars(w, f) == TestEnd(w, f) - SliceStart(w, f) + 1

\* The simulator takes the slice.
Simulated(w, f) == SliceBars(w, f) >= w.sim + MinBars

\* Closed trades the simulator can return for the slice of a fold (module
\* Backtest): it refuses a slice that is too short, enters after the warmup,
\* leaves a bar later at the earliest, and drops a trade that is still open.
SimulatedTrades(w, f) ==
    LET first == SliceStart(w, f) + w.sim + 1
        last  == TestEnd(w, f)
    IN  {t \in [fold : {f}, entry : first..last, exit : first..last] :
            /\ Simulated(w, f)
            /\ t.entry < t.exit}

\* Variant for mutation: every trade of the slice counts.
CountsAlways(w, t) == TRUE

\* Trades that were entered in the test.
Counts(w, t) == t.entry >= TestStart(w, t.fold)

WalkInit == walk = NoWalk /\ fold = 0 /\ oos = <<>>

StartWalk ==
    /\ walk = NoWalk
    /\ walk' \in Walk
    /\ UNCHANGED <<fold, oos>>

CountedTrades(w, f) == {t \in SimulatedTrades(w, f) : Counts(w, t)}

(* One fold and its trades that count, by their bars.  A trade may leave in *)
(* the bar in which the next one is entered: the simulator looks at the     *)
(* high and low of a bar for the exit, and may then enter at the OPEN of    *)
(* the same bar (engine.py:98-225).  In time the new trade begins first,    *)
(* and it begins because the old one will end in that bar, which is the     *)
(* look-ahead that engine.py:6 rules out.                                   *)
RunFold ==
    /\ walk # NoWalk /\ FoldsFit(walk) /\ fold < walk.k
    /\ \E n \in 0..MaxTrades :
       \E trades \in [1..n -> CountedTrades(walk, fold + 1)] :
          /\ \A i, j \in 1..n : i < j => trades[i].exit <= trades[j].entry
          /\ oos' = oos \o trades
    /\ fold' = fold + 1
    /\ UNCHANGED walk

\* The report is returned, with no fold when the series is too short.
WalkDone ==
    /\ walk # NoWalk
    /\ ~FoldsFit(walk) \/ fold = walk.k
    /\ walk' = NoWalk /\ fold' = 0 /\ oos' = <<>>

WalkNext == StartWalk \/ RunFold \/ WalkDone

WalkSpec == WalkInit /\ [][WalkNext]_walkVars

-----------------------------------------------------------------------------
(* Properties *)

(* A validation is at one of its folds and has trades of the folds before. *)
WalkTypeOK ==
    /\ walk \in Walk \cup {NoWalk}
    /\ fold \in Nat
    /\ oos \in Seq([fold : Nat, entry : Nat, exit : Nat])

(* No trade that counts as out of sample has seen its training data: it is  *)
(* entered after the training of its fold and a bar in between, and it ends *)
(* inside the test of its fold, before the test of the next fold begins     *)
(* (walk_forward.py:5, stats.py:340-341).                                   *)
OutOfSample ==
    \A i \in 1..Len(oos) :
        /\ TrainEnd(walk, oos[i].fold) + 1 < oos[i].entry
        /\ oos[i].exit <= TestEnd(walk, oos[i].fold)
        /\ oos[i].fold < walk.k => oos[i].exit < TestStart(walk, oos[i].fold + 1)

(* The combined trades are listed fold by fold, and no trade of a fold is   *)
(* open when a trade of a later fold begins.  Nothing of the kind is said   *)
(* of two trades of one fold, see RunFold (walk_forward.py:83-90).          *)
FoldsApart ==
    \A i, j \in 1..Len(oos) :
        oos[i].fold < oos[j].fold => i < j /\ oos[i].exit < oos[j].entry

\* The folds whose test has this bar.
TestedIn(w, bar) == {f \in 1..w.k : TestStart(w, f) <= bar /\ bar <= TestEnd(w, f)}

(* The folds waste nothing: every bar after the first training is tested in *)
(* exactly one fold, but for the one bar that separates each training from  *)
(* its test, and the last bar of the series is tested (stats.py:337-365).   *)
TestedOnce ==
    walk # NoWalk /\ FoldsFit(walk) =>
        \A bar \in (TrainEnd(walk, 1) + 1)..(walk.bars - 1) :
            \/ \E f \in 1..walk.k : bar = TrainEnd(walk, f) + 1 /\ TestedIn(walk, bar) = {}
            \/ \E f \in 1..walk.k : TestedIn(walk, bar) = {f}

(* A fold that was cut is long enough for a simulator with the same warmup, *)
(* which returns nothing for a slice shorter than its warmup and ten bars,  *)
(* with one exception: folds of exactly ten bars lose one to the separation *)
(* and are skipped without a word (stats.py:344 against engine.py:66).      *)
SkippedOnlyShortest ==
    walk # NoWalk /\ FoldsFit(walk) /\ walk.sim <= walk.warmup =>
        \A f \in 1..walk.k : ~Simulated(walk, f) => FoldLen(walk) = MinBars

(* What the list measures of a fold owes nothing to the training of that    *)
(* fold nor to another fold (walk_forward.py:5).                            *)
TradesAreOutOfSample == OutOfSample /\ FoldsApart

(* The folds cover the series.                                              *)
FoldsAreWhole == TestedOnce /\ SkippedOnlyShortest

=============================================================================
