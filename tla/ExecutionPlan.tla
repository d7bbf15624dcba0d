---------------------------- MODULE ExecutionPlan ----------------------------
(***************************************************************************)
(* From a signal to an execution plan: the levels the worker derives from  *)
(* price and volatility (_evaluate_and_enter in runner/worker.py), their   *)
(* rounding to the price tick, the fill after slippage and the size that   *)
(* fits the risk budget (create_execution_plan in runner/paper_engine.py,  *)
(* size_position and round_price_to_tick in core/risk.py).                 *)
(*                                                                         *)
(* The code computes with decimals.  Here every price is a multiple of one *)
(* grain of price, every quantity of one grain of quantity, and budgets    *)
(* and notionals of the product of the two, so that the arithmetic is that *)
(* of integers.                                                            *)
(***************************************************************************)
EXTENDS Integers

CONSTANTS
    Tick,          \* price_tick
    Step,          \* qty_step
    MinQty,        \* min_qty
    MinNotional,   \* min_notional
    SlipBps,       \* config.slippage_bps
    Prices,        \* closes of the last candle
    HalfAtrs,      \* half the average true range
    Budgets,       \* risk_budget of an account
    NoSignal, NoPlan

Bps == 10000

ASSUME PlanAssumption ==
    /\ Tick \in Nat \ {0} /\ Step \in Nat \ {0}
    /\ MinQty \in Nat /\ MinNotional \in Nat
    /\ SlipBps \in 0..(Bps - 1)
    /\ Prices \subseteq Nat \ {0} /\ HalfAtrs \subseteq Nat \ {0}
    /\ Budgets \subseteq Int

VARIABLES signal, plan

planVars == <<signal, plan>>

Signal ==
    [direction : {-1, 1}, price : Prices,
     sl : Int, tp1 : Int, tp2 : Int, budget : Budgets]

Plan ==
    [verdict : {"valid", "levels", "size"},
     fill : Nat, sl : Int, tp1 : Int, tp2 : Int, stop : Nat, qty : Nat, notional : Nat]

-----------------------------------------------------------------------------
(* Rounding to the tick. *)

\* ROUND_DOWN and ROUND_UP of the decimal module are towards and away from zero.
TowardsZero(x) == IF x >= 0 THEN (x \div Tick) * Tick ELSE -(((-x) \div Tick) * Tick)

AwayFromZero(x) ==
    IF x >= 0 THEN ((x + Tick - 1) \div Tick) * Tick
    ELSE -((((-x) + Tick - 1) \div Tick) * Tick)

\* The stop is rounded away from the entry, the targets as well.
StopLevel(direction, x) == IF direction = 1 THEN TowardsZero(x) ELSE AwayFromZero(x)
TargetLevel(direction, x) == IF direction = 1 THEN AwayFromZero(x) ELSE TowardsZero(x)

(* The price after slippage against the trader, to the nearest tick with    *)
(* halves upwards.                                                          *)
Fill(direction, price) ==
    LET raw == price * (Bps + direction * SlipBps)      \* in grains / Bps
    IN  ((2 * raw + Bps * Tick) \div (2 * Bps * Tick)) * Tick

-----------------------------------------------------------------------------
(* Sizing. *)

\* Variant for mutation: rounded to the nearest step instead of down.
StepsNearest(budget, stop) == (2 * budget + stop * Step) \div (2 * stop * Step)

Steps(budget, stop) == budget \div (stop * Step)

\* Variant for mutation: the least quantity rounded down.
MinStepsDown ==
    LET least == MinQty \div Step IN IF least > 1 THEN least ELSE 1

MinSteps ==
    LET least == (MinQty + Step - 1) \div Step IN IF least > 1 THEN least ELSE 1

\* Variant for mutation: whatever the division gives.
SizeUnguarded(budget, entry, stop) == Step * Steps(budget, stop)

\* size_position; 0 when nothing can be bought.
Size(budget, entry, stop) ==
    IF /\ budget > 0 /\ entry > 0 /\ stop > 0
       /\ Steps(budget, stop) >= MinSteps
       /\ Step * Steps(budget, stop) * entry >= MinNotional
    THEN Step * Steps(budget, stop)
    ELSE 0

-----------------------------------------------------------------------------
(* The plan. *)

\* Variant for mutation: the order is checked against the price of the signal.
OrderedAtPrice(s, fill, sl, tp1, tp2) ==
    IF s.direction = 1 THEN sl < s.price /\ s.price < tp1 /\ tp1 <= tp2
    ELSE sl > s.price /\ s.price > tp1 /\ tp1 >= tp2

Ordered(s, fill, sl, tp1, tp2) ==
    IF s.direction = 1 THEN sl < fill /\ fill < tp1 /\ tp1 <= tp2
    ELSE sl > fill /\ fill > tp1 /\ tp1 >= tp2

(* create_execution_plan *)
PlanOf(s) ==
    LET sl   == StopLevel(s.direction, s.sl)
        tp1  == TargetLevel(s.direction, s.tp1)
        tp2  == TargetLevel(s.direction, s.tp2)
        fill == Fill(s.direction, s.price)
        stop == s.direction * (fill - sl)
        qty  == Size(s.budget, fill, stop)
        verdict == IF ~Ordered(s, fill, sl, tp1, tp2) THEN "levels"
                   ELSE IF qty = 0 THEN "size" ELSE "valid"
        ofSize(x) == IF verdict = "valid" THEN x ELSE 0
    IN  [verdict |-> verdict, fill |-> fill, sl |-> sl, tp1 |-> tp1, tp2 |-> tp2,
         stop |-> IF verdict = "levels" THEN 0 ELSE stop,
         qty |-> ofSize(qty), notional |-> ofSize(qty * fill)]

(* The levels of a signal: 1.5 average true ranges to the stop, 2 and 3.5   *)
(* to the targets.                                                          *)
SignalOf(direction, price, half, budget) ==
    [direction |-> direction, price |-> price,
     sl  |-> price - direction * 3 * half,
     tp1 |-> price + direction * 4 * half,
     tp2 |-> price + direction * 7 * half,
     budget |-> budget]

PlanInit == signal = NoSignal /\ plan = NoPlan

(* A candle whose score asks for an entry: the plan of one account. *)
Enter ==
    /\ signal = NoSignal
    /\ \E direction \in {-1, 1}, price \in Prices, half \in HalfAtrs, budget \in Budgets :
          /\ signal' = SignalOf(direction, price, half, budget)
          /\ plan' = PlanOf(SignalOf(direction, price, half, budget))

\* The plan is executed or dropped, and the evaluation returns.
Leave == signal # NoSignal /\ signal' = NoSignal /\ plan' = NoPlan

PlanNext == Enter \/ Leave

PlanSpec == PlanInit /\ [][PlanNext]_planVars

-----------------------------------------------------------------------------
(* Properties *)

(* Signals and plans have the fields the engine reads. *)
PlanTypeOK ==
    \/ signal = NoSignal /\ plan = NoPlan
    \/ signal \in Signal /\ plan \in Plan

Valid == plan # NoPlan /\ plan.verdict = "valid"

(* What is released for execution fits: the loss at the stop stays within   *)
(* the budget of the account and the exchange accepts the quantity - for    *)
(* the fill and the stop after slippage and rounding, which are farther     *)
(* apart than those of the signal (paper_engine.py:375-406).                *)
WithinBudget ==
    Valid =>
        /\ plan.qty > 0 /\ plan.qty % Step = 0
        /\ plan.qty >= MinQty /\ plan.notional >= MinNotional
        /\ plan.notional = plan.qty * plan.fill
        /\ plan.qty * (signal.direction * (plan.fill - plan.sl)) <= signal.budget

\* Quantities an account could buy with this budget.
Admissible(p, budget) ==
    {n \in 1..budget :
        /\ n % Step = 0 /\ n >= MinQty
        /\ n * p.stop <= budget
        /\ p.fill > 0 /\ n * p.fill >= MinNotional}

(* Nothing is given away: a plan has the largest quantity that fits, and a  *)
(* signal with sound levels is refused only if no quantity fits at all      *)
(* (risk.py:149-160).                                                       *)
LargestThatFits ==
    plan # NoPlan /\ plan.verdict # "levels" =>
        LET fits == Admissible(plan, signal.budget) IN
        IF plan.verdict = "valid" THEN plan.qty \in fits /\ \A n \in fits : n <= plan.qty
        ELSE fits = {}

(* Slippage and rounding never turn a trade around: stop, fill and targets  *)
(* of a plan are in order and on the tick, no level moved by a tick or      *)
(* more, and none moved towards the entry (a level below zero excepted,     *)
(* which no price reaches) (paper_engine.py:283-349).                       *)
LevelsHold ==
    Valid =>
        LET d == signal.direction
            moved(level, asked, away) ==
                /\ level % Tick = 0
                /\ level - asked < Tick /\ asked - level < Tick
                /\ asked >= 0 => away * (level - asked) >= 0
        IN  /\ d * plan.sl < d * plan.fill /\ d * plan.fill < d * plan.tp1
            /\ d * plan.tp1 <= d * plan.tp2
            /\ plan.fill % Tick = 0
            /\ moved(plan.sl, signal.sl, -d)
            /\ moved(plan.tp1, signal.tp1, d) /\ moved(plan.tp2, signal.tp2, d)

(* What is planned may be executed: affordable, no smaller than need be,    *)
(* and still the trade the signal asked for.                                *)
PlansAreSound == WithinBudget /\ LargestThatFits /\ LevelsHold

===============================================================================
