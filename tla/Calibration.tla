----------------------------- MODULE Calibration -----------------------------
(***************************************************************************)
(* Calibration of scores to probabilities (calibrate_probabilities in      *)
(* core/stats.py): trades are tallied in bins of the score on top of a     *)
(* prior, neighbouring bins are pooled until their rates do not fall (the  *)
(* pool-adjacent-violators algorithm, one step per pass of the loop), and  *)
(* a score is looked up by linear interpolation.                           *)
(*                                                                         *)
(* Rates are fractions of integers here: compared by cross-multiplication, *)
(* never divided.                                                          *)
(***************************************************************************)
EXTENDS Integers, Sequences, FiniteSetsExt, Functions

CONSTANTS
    Bins,        \* num_bins
    Width,       \* width of a bin, an even number of grains of the score
    Unit,        \* weight of a trade; rates are counted in 1/Unit
    PriorWeight, \* bin_counts before the first trade
    Prior,       \* bin_wins before the first trade
    Scores,      \* scores of trades, also beyond the range
    Floor,       \* the probabilities are cut off at Floor and 1 - Floor ...
    FloorUnit,   \* ... in 1/FloorUnit
    MaxTally     \* bound on the trades

ASSUME CalibrationAssumption ==
    /\ Bins \in Nat \ {0} /\ Width \in Nat \ {0} /\ Width % 2 = 0
    /\ Unit \in Nat \ {0} /\ PriorWeight \in Nat \ {0}
    /\ Prior \in [1..Bins -> 0..PriorWeight]
    /\ \A b \in 2..Bins : Prior[b - 1] <= Prior[b]
    /\ Scores \subseteq Int
    /\ FloorUnit \in Nat \ {0} /\ Floor \in 0..FloorUnit /\ 2 * Floor <= FloorUnit
    /\ MaxTally \in Nat

VARIABLES
    phase,    \* "tally", "pool", "done"
    tally,    \* [w, y] of each bin: weight and wins
    blocks,   \* the blocks: [s, w, y], all three sums over the bins of a block
    at        \* i

calVars == <<phase, tally, blocks, at>>

Sum == [w : Nat \ {0}, y : Nat]

\* The bin of a score.
BinOf(score) ==
    LET b == score \div Width + 1
    IN  IF b < 1 THEN 1 ELSE IF b > Bins THEN Bins ELSE b

Mid(b) == (b - 1) * Width + Width \div 2

CalInit ==
    /\ phase = "tally"
    /\ tally = [b \in 1..Bins |-> [w |-> PriorWeight, y |-> Prior[b]]]
    /\ blocks = <<>> /\ at = 1

Weight == MapThenSumSet(LAMBDA b : tally[b].w, 1..Bins)

(* A closed trade; a long that won and a short that lost speak for rising   *)
(* prices.  A trade that is still open is passed over.                      *)
Tally(score, bull) ==
    /\ phase = "tally"
    /\ Weight < Bins * PriorWeight + MaxTally * Unit
    /\ tally' = [tally EXCEPT ![BinOf(score)] =
                    [w |-> @.w + Unit, y |-> @.y + (IF bull THEN Unit ELSE 0)]]
    /\ UNCHANGED <<phase, blocks, at>>

StartPooling ==
    /\ phase = "tally"
    /\ phase' = "pool"
    /\ blocks' = [b \in 1..Bins |->
                    [s |-> tally[b].w * Mid(b), w |-> tally[b].w, y |-> tally[b].y]]
    /\ UNCHANGED <<tally, at>>

\* The rate of a block is above that of another.
Above(a, b) == a.y * b.w > b.y * a.w

\* Variant for mutation: the plain mean of the two rates.
PooledUnweighted(a, b) ==
    [s |-> a.s + b.s, w |-> a.w + b.w,
     y |-> ((a.w + b.w) * (a.y * b.w + b.y * a.w)) \div (2 * a.w * b.w)]

Pooled(a, b) == [s |-> a.s + b.s, w |-> a.w + b.w, y |-> a.y + b.y]

\* Variant for mutation: the loop goes on with the pooled block.
StepBackNever(i) == i

\* The pooled block has to be compared with the one before it.
StepBack(i) == IF i > 1 THEN i - 1 ELSE i

(* blocks[i].y > blocks[i + 1].y *)
Pool ==
    /\ phase = "pool" /\ at < Len(blocks)
    /\ Above(blocks[at], blocks[at + 1])
    /\ blocks' = [i \in 1..(Len(blocks) - 1) |->
                    IF i < at THEN blocks[i]
                    ELSE IF i = at THEN Pooled(blocks[at], blocks[at + 1])
                    ELSE blocks[i + 1]]
    /\ at' = StepBack(at)
    /\ UNCHANGED <<phase, tally>>

Advance ==
    /\ phase = "pool" /\ at < Len(blocks)
    /\ ~Above(blocks[at], blocks[at + 1])
    /\ at' = at + 1
    /\ UNCHANGED <<phase, tally, blocks>>

PoolingDone ==
    /\ phase = "pool" /\ at >= Len(blocks)
    /\ phase' = "done"
    /\ UNCHANGED <<tally, blocks, at>>

\* The next calibration.
NextCalibration ==
    /\ phase = "done"
    /\ phase' = "tally"
    /\ tally' = [b \in 1..Bins |-> [w |-> PriorWeight, y |-> Prior[b]]]
    /\ blocks' = <<>> /\ at' = 1

CalNext ==
    \/ \E score \in Scores, bull \in BOOLEAN : Tally(score, bull)
    \/ StartPooling \/ Pool \/ Advance \/ PoolingDone \/ NextCalibration

CalSpec == CalInit /\ [][CalNext]_calVars

-----------------------------------------------------------------------------
(* _get_prob_long: a fraction [num, den] with den > 0. *)

Cut(p) ==
    IF p.num * FloorUnit < Floor * p.den THEN [num |-> Floor, den |-> FloorUnit]
    ELSE IF p.num * FloorUnit > (FloorUnit - Floor) * p.den
    THEN [num |-> FloorUnit - Floor, den |-> FloorUnit]
    ELSE p

\* Variant for mutation: measured from the other block.
OnLineReversed(a, b, score) ==
    LET from  == b.s - score * b.w
        width == b.s * a.w - a.s * b.w
    IN  [num |-> a.y * width + from * (b.y * a.w - a.y * b.w), den |-> a.w * width]

\* The line from block a to block b, at a score between the two.
OnLine(a, b, score) ==
    LET from  == score * a.w - a.s               \* times 1/a.w
        width == b.s * a.w - a.s * b.w           \* times 1/(a.w * b.w)
    IN  [num |-> a.y * width + from * (b.y * a.w - a.y * b.w), den |-> a.w * width]

Clamped(score) ==
    IF score < 0 THEN 0 ELSE IF score > Bins * Width THEN Bins * Width ELSE score

\* Before the first block and after the last the rate stays, in between it is
\* interpolated.
ProbAt(s) ==
    LET n == Len(blocks)
        rate(i) == [num |-> blocks[i].y, den |-> blocks[i].w]
        from(i) == s * blocks[i].w >= blocks[i].s
        upto(i) == s * blocks[i].w <= blocks[i].s
    IN  Cut(IF upto(1) THEN rate(1)
            ELSE IF from(n) THEN rate(n)
            ELSE LET j == CHOOSE i \in 1..(n - 1) :
                              /\ from(i) /\ upto(i + 1)
                              /\ \A k \in 1..(i - 1) : ~(from(k) /\ upto(k + 1))
                 IN  OnLine(blocks[j], blocks[j + 1], s))

ProbLong(score) == ProbAt(Clamped(score))

-----------------------------------------------------------------------------
(* Properties *)

(* Tallies and blocks hold positive weights. *)
CalTypeOK ==
    /\ phase \in {"tally", "pool", "done"}
    /\ tally \in [1..Bins -> Sum]
    /\ blocks \in Seq([s : Nat, w : Nat \ {0}, y : Nat])
    /\ at \in Nat \ {0}

(* The fit does not fall: when the loop ends, no block has a higher rate    *)
(* than the next, whatever was pooled and however far the loop had to step  *)
(* back (stats.py:168-179).                                                 *)
FitIsMonotone ==
    phase = "done" =>
        blocks # <<>> /\ \A i \in 1..(Len(blocks) - 1) : ~Above(blocks[i], blocks[i + 1])

\* Weight and wins of the bins from a to c.
Segment(a, c) ==
    [w |-> SumFunctionOnSet([b \in 1..Bins |-> tally[b].w], a..c),
     y |-> SumFunctionOnSet([b \in 1..Bins |-> tally[b].y], a..c)]

\* The block that a bin was pooled into: the first whose weight, with that of
\* the blocks before, reaches the bin.
BlockOf(b) ==
    LET upTo(i) == SumFunctionOnSet([j \in DOMAIN blocks |-> blocks[j].w], 1..i)
    IN  blocks[CHOOSE i \in 1..Len(blocks) :
                  upTo(i) >= Segment(1, b).w /\ \A k \in 1..(i - 1) : upTo(k) < Segment(1, b).w]

Leq(p, q) == ~Above(p, q)

(* The fit is the isotonic regression of the tally: the rate of every bin   *)
(* is the greatest, over the segments that begin at it or before, of the    *)
(* least rate such a segment has when it ends at the bin or after - the     *)
(* closed form that fixes the least-squares fit (stats.py:140-141).         *)
FitIsIsotonic ==
    phase = "done" =>
        \A b \in 1..Bins :
            LET fit == BlockOf(b) IN
            \* some segment is nowhere below the fit, and none stays above it
            /\ \E a \in 1..b : \A c \in b..Bins : Leq(fit, Segment(a, c))
            /\ \A a \in 1..b : \E c \in b..Bins : Leq(Segment(a, c), fit)

(* A higher score never has a lower probability, and every probability is   *)
(* within the limits, for every score, also one between two blocks or       *)
(* beyond the range (stats.py:143).                                         *)
LookupIsMonotone ==
    phase = "done" =>
        \A score \in -1..(Bins * Width + 1) :
            LET p == ProbLong(score)
                q == ProbLong(score + 1)
            IN  /\ p.den > 0
                /\ p.num * q.den <= q.num * p.den
                /\ Floor * p.den <= p.num * FloorUnit
                /\ p.num * FloorUnit <= (FloorUnit - Floor) * p.den

(* The calibration is what it is called: an isotonic regression, and what   *)
(* is looked up in it rises with the score.                                 *)
FitIsRight == FitIsMonotone /\ FitIsIsotonic /\ LookupIsMonotone

=============================================================================
