----------------------------- MODULE EntryProofs -----------------------------
(***************************************************************************)
(* What decides about an entry, for every value of the constants: the      *)
(* plan of a signal is sound for every tick, step, slippage, price,        *)
(* volatility and budget (the lemmas give what the roundings and the size  *)
(* return), and what the gate answers from the tables was true of the      *)
(* market.                                                                 *)
(***************************************************************************)
EXTENDS MCEntry, OfflineProofs, DataInduction, TLAPS

-----------------------------------------------------------------------------
(* The execution plan. *)

(* What rounding by whole ticks does to a price that is not negative. *)
LEMMA RoundNat ==
    ASSUME NEW x \in Nat
    PROVE  LET down == (x \div Tick) * Tick
               up   == ((x + Tick - 1) \div Tick) * Tick
           IN  /\ down \in Nat /\ down % Tick = 0 /\ down <= x /\ x - down < Tick
               /\ up \in Nat /\ up % Tick = 0 /\ x <= up /\ up - x < Tick
               /\ (-down) % Tick = 0 /\ (-up) % Tick = 0
<1> DEFINE q == x \div Tick
           p == (x + Tick - 1) \div Tick
<1>1. Tick \in Nat \ {0}
  BY PlanAssumption
<1>2. /\ q \in Int /\ x = Tick * q + (x % Tick) /\ x % Tick \in 0..(Tick - 1)
  BY <1>1, Division
<1>3. /\ p \in Int
      /\ x + Tick - 1 = Tick * p + ((x + Tick - 1) % Tick)
      /\ (x + Tick - 1) % Tick \in 0..(Tick - 1)
  <2>1. x + Tick - 1 \in Int
    BY <1>1
  <2> QED
    BY <1>1, <2>1, Division
<1>4. /\ (q * Tick) % Tick = 0 /\ ((-q) * Tick) % Tick = 0
      /\ (p * Tick) % Tick = 0 /\ ((-p) * Tick) % Tick = 0
  BY <1>1, <1>2, <1>3, MultipleMod
<1> HIDE DEF q, p
<1>5. /\ Tick * q = q * Tick /\ Tick * p = p * Tick
      /\ (-q) * Tick = -(q * Tick) /\ (-p) * Tick = -(p * Tick)
      /\ q * Tick \in Int /\ p * Tick \in Int
  BY <1>1, <1>2, <1>3, Z3
<1>6. q * Tick <= x /\ x - q * Tick < Tick /\ x <= p * Tick /\ p * Tick - x < Tick
  BY <1>1, <1>2, <1>3, <1>5
<1>7. q >= 0 /\ q * Tick >= 0
  <2>1. CASE q <= -1
    <3>1. q * Tick <= (-1) * Tick
      BY <1>1, <1>2, <2>1, Z3
    <3> QED
      BY <1>1, <1>5, <1>6, <3>1
  <2>2. CASE q >= 0
    BY <1>1, <1>2, <2>2, Z3
  <2> QED
    BY <1>2, <2>1, <2>2
<1> QED
  BY <1>1, <1>4, <1>5, <1>6, <1>7 DEF q, p

(* Rounding towards and away from zero. *)
LEMMA Rounding ==
    ASSUME NEW x \in Int
    PROVE  /\ TowardsZero(x) \in Int /\ TowardsZero(x) % Tick = 0
           /\ TowardsZero(x) - x < Tick /\ x - TowardsZero(x) < Tick
           /\ x >= 0 => TowardsZero(x) <= x
           /\ AwayFromZero(x) \in Int /\ AwayFromZero(x) % Tick = 0
           /\ AwayFromZero(x) - x < Tick /\ x - AwayFromZero(x) < Tick
           /\ x >= 0 => AwayFromZero(x) >= x
<1>1. Tick \in Nat \ {0}
  BY PlanAssumption
<1>2. CASE x >= 0
  <2>1. x \in Nat
    BY <1>2
  <2> QED
    BY <1>1, <1>2, <2>1, RoundNat DEF TowardsZero, AwayFromZero
<1>3. CASE x < 0
  <2> DEFINE y == -x
             down == (y \div Tick) * Tick
             up == ((y + Tick - 1) \div Tick) * Tick
  <2>1. y \in Nat /\ ~(x >= 0)
    BY <1>3
  <2> HIDE DEF y
  <2>2. /\ down \in Nat /\ down <= y /\ y - down < Tick /\ (-down) % Tick = 0
        /\ up \in Nat /\ y <= up /\ up - y < Tick /\ (-up) % Tick = 0
    BY <2>1, RoundNat
  <2>3. TowardsZero(x) = -down /\ AwayFromZero(x) = -up
    BY <2>1 DEF TowardsZero, AwayFromZero, y
  <2> HIDE DEF down, up
  <2>4. y = -x
    BY DEF y
  <2> QED
    BY <1>1, <1>3, <2>2, <2>3, <2>4
<1> QED
  BY <1>2, <1>3

(* The fill is a price on the tick. *)
LEMMA FillOnTick ==
    ASSUME NEW d \in {-1, 1}, NEW price \in Nat \ {0}
    PROVE  Fill(d, price) \in Nat /\ Fill(d, price) % Tick = 0
<1> DEFINE f == Bps + d * SlipBps
           n == 2 * (price * f) + Bps * Tick
           m == 2 * Bps * Tick
<1>1. f \in Nat /\ Tick \in Nat \ {0}
  BY PlanAssumption DEF Bps
<1>2. price * f \in Nat
  BY <1>1, Z3
<1>3. n \in Nat /\ m \in Nat \ {0}
  BY <1>1, <1>2 DEF Bps
<1> HIDE DEF n, m
<1>4. /\ n \div m \in Int /\ n = m * (n \div m) + (n % m) /\ n % m \in 0..(m - 1)
  BY <1>3, Division
<1>5. n \div m >= 0
  <2> DEFINE q == n \div m
  <2> HIDE DEF q
  <2>1. CASE q <= -1
    <3>1. q \in Int /\ n = m * q + (n % m)
      BY <1>4 DEF q
    <3>2. m * q <= m * (-1)
      BY <1>3, <2>1, <3>1, Z3
    <3> QED
      BY <1>3, <1>4, <3>1, <3>2, Z3
  <2> QED
    BY <1>4, <2>1 DEF q
<1>6. (n \div m) * Tick \in Nat
  BY <1>1, <1>4, <1>5, Z3
<1>7. ((n \div m) * Tick) % Tick = 0
  BY <1>1, <1>4, MultipleMod
<1>8. Fill(d, price) = (n \div m) * Tick
  BY DEF Fill, n, m
<1> QED
  BY <1>6, <1>7, <1>8

-----------------------------------------------------------------------------
(* The size. *)

(* Multiplication keeps an order, and reflects it. *)
LEMMA ScaledOrder ==
    ASSUME NEW t \in Nat \ {0}, NEW m \in Int, NEW n \in Int
    PROVE  /\ t * m \in Int
           /\ m <= n => t * m <= t * n
           /\ t * m < t * n + t => m <= n
<1>1. CASE m <= n
  <2>1. t * m <= t * n
    BY <1>1, Z3
  <2> QED
    BY <1>1, <2>1, Z3
<1>2. CASE m >= n + 1
  <2>1. t * m >= t * (n + 1)
    BY <1>2, Z3
  <2>2. t * (n + 1) = t * n + t
    BY Z3
  <2> QED
    BY <1>2, <2>1, <2>2, Z3
<1> QED
  BY <1>1, <1>2, Z3

(* MinSteps is the least number of steps that makes up MinQty. *)
LEMMA MinStepsLeast ==
    /\ MinSteps \in Nat \ {0}
    /\ Step * MinSteps >= MinQty
    /\ \A k \in Nat \ {0} : Step * k >= MinQty => k >= MinSteps
<1> DEFINE a == MinQty + Step - 1
           least == a \div Step
<1>1. Step \in Nat \ {0} /\ MinQty \in Nat /\ a \in Int
  BY PlanAssumption
<1>2. least \in Int /\ a = Step * least + (a % Step) /\ a % Step \in 0..(Step - 1)
  BY <1>1, Division
<1>3. MinSteps = IF least > 1 THEN least ELSE 1
  BY DEF MinSteps
<1>4. MinSteps \in Nat \ {0} /\ MinSteps >= least
  BY <1>2, <1>3
<1>5. Step * least >= MinQty
  <2> HIDE DEF least
  <2> QED
    BY <1>1, <1>2
<1>6. Step * MinSteps >= MinQty
  <2>1. Step * least <= Step * MinSteps
    BY <1>1, <1>2, <1>4, ScaledOrder
  <2>2. Step * least \in Int /\ Step * MinSteps \in Int
    BY <1>1, <1>2, <1>4, ScaledOrder
  <2> HIDE DEF least
  <2> QED
    BY <1>1, <1>5, <2>1, <2>2
<1>7. ASSUME NEW k \in Nat \ {0}, Step * k >= MinQty PROVE k >= MinSteps
  <2>1. Step * least < Step * k + Step
    <3>1. Step * least \in Int /\ Step * k \in Int
      BY <1>1, <1>2, ScaledOrder
    <3> HIDE DEF least
    <3> QED
      BY <1>1, <1>2, <1>7, <3>1
  <2>2. least <= k
    BY <1>1, <1>2, <2>1, ScaledOrder
  <2> QED
    BY <1>2, <1>3, <2>2
<1> QED
  BY <1>4, <1>6, <1>7

(* Steps is the largest number of steps whose loss fits the budget. *)
LEMMA StepsLargest ==
    ASSUME NEW budget \in Int, NEW stop \in Nat \ {0}
    PROVE  /\ Steps(budget, stop) \in Int
           /\ (Step * Steps(budget, stop)) * stop <= budget
           /\ \A k \in Int : (Step * k) * stop <= budget => k <= Steps(budget, stop)
<1> DEFINE b == stop * Step
           n == budget \div b
<1>1. Step \in Nat \ {0} /\ b \in Nat \ {0}
  BY PlanAssumption, Z3
<1>2. Steps(budget, stop) = n
  BY DEF Steps
<1>3. \A k \in Int : (Step * k) * stop = b * k
  BY <1>1, Z3
<1> HIDE DEF b
<1>4. n \in Int /\ budget = b * n + (budget % b) /\ budget % b \in 0..(b - 1)
  BY <1>1, Division
<1> HIDE DEF n
<1>5. b * n \in Int
  BY <1>1, <1>4, ScaledOrder
<1>6. b * n <= budget
  BY <1>1, <1>4, <1>5
<1>7. ASSUME NEW k \in Int, b * k <= budget PROVE k <= n
  <2>1. b * k \in Int
    BY <1>1, ScaledOrder
  <2>2. b * k < b * n + b
    BY <1>1, <1>4, <1>5, <1>7, <2>1
  <2> QED
    BY <1>1, <1>4, <2>2, ScaledOrder
<1> QED
  BY <1>2, <1>3, <1>4, <1>6, <1>7

\* The quantities Admissible describes, for an entry and a stop.
Affordable(n, budget, entry, stop) ==
    /\ n % Step = 0 /\ n >= MinQty
    /\ n * stop <= budget
    /\ entry > 0 /\ n * entry >= MinNotional

(* Size is zero if nothing fits, and the largest quantity that fits         *)
(* otherwise (size_position).                                               *)
LEMMA SizeLargest ==
    ASSUME NEW budget \in Int, NEW entry \in Nat, NEW stop \in Nat \ {0}
    PROVE  /\ Size(budget, entry, stop) \in Nat
           /\ Size(budget, entry, stop) # 0 => Affordable(Size(budget, entry, stop), budget, entry, stop)
           /\ \A n \in Nat \ {0} :
                 Affordable(n, budget, entry, stop) => n <= Size(budget, entry, stop)
<1> DEFINE k == Steps(budget, stop)
           size == Size(budget, entry, stop)
<1>1. Step \in Nat \ {0} /\ MinQty \in Nat /\ MinNotional \in Nat
  BY PlanAssumption
<1>2. /\ k \in Int /\ (Step * k) * stop <= budget
      /\ \A j \in Int : (Step * j) * stop <= budget => j <= k
  BY StepsLargest
<1>3. /\ MinSteps \in Nat \ {0} /\ Step * MinSteps >= MinQty
      /\ \A j \in Nat \ {0} : Step * j >= MinQty => j >= MinSteps
  BY MinStepsLeast
<1> DEFINE ok == /\ budget > 0 /\ entry > 0 /\ k >= MinSteps
                 /\ (Step * k) * entry >= MinNotional
<1>4. size = IF ok THEN Step * k ELSE 0
  BY DEF Size
<1> HIDE DEF k, size
<1>5. CASE ok
  <2>1. k \in Nat \ {0}
    BY <1>2, <1>3, <1>5
  <2>2. Step * k \in Nat /\ Step * k # 0
    BY <1>1, <2>1, Z3
  <2>3. (Step * k) % Step = 0
    <3>1. (k * Step) % Step = 0
      BY <1>1, <1>2, MultipleMod
    <3>2. k * Step = Step * k
      BY <1>1, <1>2, Z3
    <3> QED
      BY <3>1, <3>2
  <2>4. Step * k >= MinQty
    <3>1. Step * MinSteps <= Step * k
      BY <1>1, <1>2, <1>3, <1>5, ScaledOrder
    <3>2. Step * MinSteps \in Int
      BY <1>1, <1>3, ScaledOrder
    <3> QED
      BY <1>1, <1>3, <2>2, <3>1, <3>2
  <2>5. Affordable(size, budget, entry, stop) /\ size \in Nat
    BY <1>2, <1>4, <1>5, <2>2, <2>3, <2>4 DEF Affordable
  <2>6. ASSUME NEW n \in Nat \ {0}, Affordable(n, budget, entry, stop) PROVE n <= size
    <3> DEFINE j == n \div Step
    <3>1. j \in Int /\ n = Step * j
      BY <1>1, <2>6, Division DEF Affordable
    <3> HIDE DEF j
    <3>2. (Step * j) * stop <= budget
      BY <2>6, <3>1 DEF Affordable
    <3>3. j <= k
      BY <1>2, <3>1, <3>2
    <3> QED
      BY <1>1, <1>2, <1>4, <1>5, <3>1, <3>3, ScaledOrder
  <2> QED
    BY <2>5, <2>6 DEF size
<1>6. CASE ~ok
  <2>1. size = 0
    BY <1>4, <1>6
  <2>2. ASSUME NEW n \in Nat \ {0}, Affordable(n, budget, entry, stop) PROVE FALSE
    <3> DEFINE j == n \div Step
    <3>1. j \in Int /\ n = Step * j
      BY <1>1, <2>2, Division DEF Affordable
    <3> HIDE DEF j
    <3>2. (Step * j) * stop <= budget /\ Step * j >= MinQty /\ entry > 0
      BY <2>2, <3>1 DEF Affordable
    <3>3. j <= k
      BY <1>2, <3>1, <3>2
    <3>4. j \in Nat \ {0}
      <4>1. CASE j <= 0
        <5>1. Step * j <= 0
          BY <1>1, <3>1, <4>1, Z3
        <5> QED
          BY <3>1, <5>1
      <4> QED
        BY <3>1, <4>1
    <3>5. k >= MinSteps
      BY <1>2, <1>3, <3>2, <3>3, <3>4
    <3>6. budget > 0
      <4>1. n * stop > 0
        BY <2>2, Z3
      <4>2. n * stop \in Int
        BY Z3
      <4> QED
        BY <2>2, <4>1, <4>2 DEF Affordable
    <3>7. (Step * k) * entry >= MinNotional
      <4>1. n <= Step * k /\ Step * k \in Int
        BY <1>1, <1>2, <3>1, <3>3, ScaledOrder
      <4>2. entry \in Nat \ {0}
        BY <3>2
      <4>3. entry * n <= entry * (Step * k)
        BY <4>1, <4>2, ScaledOrder
      <4>4. entry * n = n * entry /\ entry * (Step * k) = (Step * k) * entry
            /\ n * entry \in Int /\ (Step * k) * entry \in Int
        BY <4>1, <4>2, Z3
      <4> QED
        BY <1>1, <2>2, <4>3, <4>4 DEF Affordable
    <3> QED
      BY <1>6, <3>2, <3>5, <3>6, <3>7
  <2> QED
    BY <2>1, <2>2 DEF size
<1> QED
  BY <1>5, <1>6

-----------------------------------------------------------------------------
(* The plan of a signal. *)

(* The worker's levels are numbers. *)
LEMMA SignalType ==
    ASSUME NEW d \in {-1, 1}, NEW price \in Prices, NEW half \in HalfAtrs, NEW budget \in Budgets
    PROVE  SignalOf(d, price, half, budget) \in Signal
<1>1. price \in Int /\ half \in Int
  BY PlanAssumption
<1>2. d * 3 * half \in Int /\ d * 4 * half \in Int /\ d * 7 * half \in Int
  BY <1>1, Z3
<1> QED
  BY <1>1, <1>2 DEF SignalOf, Signal

(* The levels of a plan and what rounding did to those of the signal. *)
LEMMA Levels ==
    ASSUME NEW s \in Signal
    PROVE  LET p == PlanOf(s) IN
           /\ p.fill \in Nat /\ p.sl \in Int /\ p.tp1 \in Int /\ p.tp2 \in Int
           /\ p.fill % Tick = 0 /\ p.sl % Tick = 0 /\ p.tp1 % Tick = 0 /\ p.tp2 % Tick = 0
           /\ p.sl - s.sl < Tick /\ s.sl - p.sl < Tick
           /\ p.tp1 - s.tp1 < Tick /\ s.tp1 - p.tp1 < Tick
           /\ p.tp2 - s.tp2 < Tick /\ s.tp2 - p.tp2 < Tick
           /\ s.direction = 1 =>
                 /\ s.sl >= 0 => p.sl <= s.sl
                 /\ s.tp1 >= 0 => p.tp1 >= s.tp1
                 /\ s.tp2 >= 0 => p.tp2 >= s.tp2
           /\ s.direction = -1 =>
                 /\ s.sl >= 0 => p.sl >= s.sl
                 /\ s.tp1 >= 0 => p.tp1 <= s.tp1
                 /\ s.tp2 >= 0 => p.tp2 <= s.tp2
<1>1. /\ s.direction \in {-1, 1} /\ s.price \in Nat \ {0}
      /\ s.sl \in Int /\ s.tp1 \in Int /\ s.tp2 \in Int
  BY PlanAssumption DEF Signal
<1>2. /\ PlanOf(s).fill = Fill(s.direction, s.price)
      /\ PlanOf(s).sl = StopLevel(s.direction, s.sl)
      /\ PlanOf(s).tp1 = TargetLevel(s.direction, s.tp1)
      /\ PlanOf(s).tp2 = TargetLevel(s.direction, s.tp2)
  BY DEF PlanOf
<1>3. PlanOf(s).fill \in Nat /\ PlanOf(s).fill % Tick = 0
  BY <1>1, <1>2, FillOnTick
<1>4. CASE s.direction = 1
  <2>1. /\ PlanOf(s).sl = TowardsZero(s.sl)
        /\ PlanOf(s).tp1 = AwayFromZero(s.tp1) /\ PlanOf(s).tp2 = AwayFromZero(s.tp2)
    BY <1>2, <1>4 DEF StopLevel, TargetLevel
  <2> QED
    BY <1>1, <1>3, <1>4, <2>1, Rounding
<1>5. CASE s.direction = -1
  <2>1. /\ PlanOf(s).sl = AwayFromZero(s.sl)
        /\ PlanOf(s).tp1 = TowardsZero(s.tp1) /\ PlanOf(s).tp2 = TowardsZero(s.tp2)
    BY <1>2, <1>5, SMTT(30) DEF StopLevel, TargetLevel
  <2> QED
    BY <1>1, <1>3, <1>5, <2>1, Rounding
<1> QED
  BY <1>1, <1>4, <1>5

(* Which verdict a plan gets, and its size. *)
LEMMA Verdicts ==
    ASSUME NEW s \in Signal
    PROVE  LET p == PlanOf(s)
               stop == s.direction * (p.fill - p.sl)
               size == Size(s.budget, p.fill, stop)
               ordered == Ordered(s, p.fill, p.sl, p.tp1, p.tp2)
           IN  /\ ~ordered => p.verdict = "levels" /\ p.stop = 0 /\ p.qty = 0 /\ p.notional = 0
               /\ ordered => stop \in Nat \ {0} /\ p.stop = stop
               /\ ordered /\ size = 0 => p.verdict = "size" /\ p.qty = 0 /\ p.notional = 0
               /\ ordered /\ size # 0 =>
                     p.verdict = "valid" /\ p.qty = size /\ p.notional = size * p.fill
<1>1. s.direction \in {-1, 1} /\ PlanOf(s).fill \in Nat /\ PlanOf(s).sl \in Int
  BY Levels DEF Signal
<1>2. ASSUME Ordered(s, PlanOf(s).fill, PlanOf(s).sl, PlanOf(s).tp1, PlanOf(s).tp2)
      PROVE  s.direction * (PlanOf(s).fill - PlanOf(s).sl) \in Nat \ {0}
  <2>1. CASE s.direction = 1
    BY <1>1, <1>2, <2>1 DEF Ordered
  <2>2. CASE s.direction = -1
    BY <1>1, <1>2, <2>2 DEF Ordered
  <2> QED
    BY <1>1, <2>1, <2>2
<1> QED
  BY <1>2 DEF PlanOf

(* Every plan is one the engine can read. *)
LEMMA PlanType ==
    ASSUME NEW s \in Signal
    PROVE  PlanOf(s) \in Plan
<1> DEFINE p == PlanOf(s)
           stop == s.direction * (p.fill - p.sl)
           size == Size(s.budget, p.fill, stop)
           ordered == Ordered(s, p.fill, p.sl, p.tp1, p.tp2)
<1>1. p.fill \in Nat /\ p.sl \in Int /\ p.tp1 \in Int /\ p.tp2 \in Int
  BY Levels
<1>2. s.budget \in Int
  BY PlanAssumption DEF Signal
<1>3. /\ p.verdict \in {"valid", "levels", "size"}
      /\ p.stop \in Nat /\ p.qty \in Nat /\ p.notional \in Nat
  <2>1. CASE ~ordered
    BY <2>1, Verdicts
  <2>2. CASE ordered
    <3>1. stop \in Nat \ {0} /\ p.stop = stop
      BY <2>2, Verdicts
    <3>2. size \in Nat
      BY <1>1, <1>2, <3>1, SizeLargest
    <3>3. size * p.fill \in Nat
      BY <1>1, <3>2, Z3
    <3> QED
      BY <2>2, <3>1, <3>2, <3>3, Verdicts
  <2> QED
    BY <2>1, <2>2
<1>4. p = [verdict |-> p.verdict, fill |-> p.fill, sl |-> p.sl, tp1 |-> p.tp1, tp2 |-> p.tp2,
           stop |-> p.stop, qty |-> p.qty, notional |-> p.notional]
  BY DEF PlanOf
<1> QED
  BY <1>1, <1>3, <1>4 DEF Plan

-----------------------------------------------------------------------------
(* The invariants. *)

(* There is no plan, or it is the plan of the signal. *)
PlanOfSignal ==
    \/ signal = NoSignal /\ plan = NoPlan
    \/ signal \in Signal /\ plan = PlanOf(signal)

LEMMA Inductive == PlanSpec => []PlanOfSignal
<1>1. PlanInit => PlanOfSignal
  BY DEF PlanInit, PlanOfSignal
<1>2. PlanOfSignal /\ [PlanNext]_planVars => PlanOfSignal'
  <2> SUFFICES ASSUME PlanOfSignal, [PlanNext]_planVars PROVE PlanOfSignal'
    OBVIOUS
  <2>1. CASE Enter
    BY <2>1, SignalType DEF Enter, PlanOfSignal
  <2>2. CASE Leave
    BY <2>2 DEF Leave, PlanOfSignal
  <2>3. CASE UNCHANGED planVars
    BY <2>3 DEF planVars, PlanOfSignal
  <2> QED
    BY <2>1, <2>2, <2>3 DEF PlanNext
<1> QED
  BY <1>1, <1>2, PTL DEF PlanSpec

(* Signals and plans have the fields the engine reads, whatever the         *)
(* specification of the instrument and the configuration.                   *)
THEOREM TypeCorrect == PlanSpec => []PlanTypeOK
<1>1. PlanOfSignal => PlanTypeOK
  BY PlanType DEF PlanOfSignal, PlanTypeOK
<1> QED
  BY <1>1, Inductive, PTL

(* No plan that is released risks more than the budget of its account or    *)
(* has a quantity the exchange does not accept: the size is computed from   *)
(* the fill and the stop of the plan itself.                                *)
THEOREM PlansWithinBudget == PlanSpec => []WithinBudget
<1>1. ASSUME PlanOfSignal, Valid PROVE WithinBudget
  <2> DEFINE stop == signal.direction * (plan.fill - plan.sl)
             size == Size(signal.budget, plan.fill, stop)
  <2>1. signal \in Signal /\ plan = PlanOf(signal) /\ plan.verdict = "valid"
    BY <1>1 DEF PlanOfSignal, Valid
  <2>2. signal.budget \in Int /\ plan.fill \in Nat
    BY <2>1, PlanAssumption, Levels DEF Signal
  <2>3. /\ stop \in Nat \ {0}
        /\ size # 0 /\ plan.qty = size /\ plan.notional = size * plan.fill
    BY <2>1, Verdicts
  <2>4. size \in Nat /\ Affordable(size, signal.budget, plan.fill, stop)
    BY <2>2, <2>3, SizeLargest
  <2> QED
    BY <2>3, <2>4 DEF WithinBudget, Affordable
<1>2. PlanOfSignal => WithinBudget
  BY <1>1 DEF WithinBudget
<1> QED
  BY <1>2, Inductive, PTL

(* The quantity of a plan is the largest that fits, and a signal with sound *)
(* levels is refused only when none fits.                                   *)
THEOREM PlansLargest == PlanSpec => []LargestThatFits
<1>1. ASSUME PlanOfSignal, plan # NoPlan, plan.verdict # "levels" PROVE LargestThatFits
  <2> DEFINE stop == signal.direction * (plan.fill - plan.sl)
             size == Size(signal.budget, plan.fill, stop)
             fits == Admissible(plan, signal.budget)
  <2>1. signal \in Signal /\ plan = PlanOf(signal)
    BY <1>1 DEF PlanOfSignal
  <2>2. signal.budget \in Int /\ plan.fill \in Nat
    BY <2>1, PlanAssumption, Levels DEF Signal
  <2>3. /\ stop \in Nat \ {0} /\ plan.stop = stop
        /\ size = 0 => plan.verdict = "size"
        /\ size # 0 => plan.verdict = "valid" /\ plan.qty = size
    BY <1>1, <2>1, Verdicts
  <2>4. /\ size \in Nat
        /\ size # 0 => Affordable(size, signal.budget, plan.fill, stop)
        /\ \A n \in Nat \ {0} : Affordable(n, signal.budget, plan.fill, stop) => n <= size
    BY <2>2, <2>3, SizeLargest
  <2>5. ASSUME NEW n \in fits
        PROVE  n \in Nat \ {0} /\ Affordable(n, signal.budget, plan.fill, stop)
    BY <2>2, <2>3, <2>5 DEF Admissible, Affordable
  <2>6. \A n \in fits : n <= size
    BY <2>4, <2>5
  <2>7. CASE size = 0
    <3>1. fits = {}
      BY <2>4, <2>5, <2>6, <2>7
    <3> QED
      BY <2>3, <2>7, <3>1 DEF LargestThatFits
  <2>8. CASE size # 0
    <3> HIDE DEF size
    <3>1. size * 1 <= size * stop /\ size * stop \in Int
      BY <2>3, <2>4, <2>8, ScaledOrder
    <3>2. size \in 1..signal.budget
      BY <2>2, <2>4, <2>8, <3>1 DEF Affordable
    <3>3. size \in fits
      BY <2>3, <2>4, <2>8, <3>2 DEF Admissible, Affordable
    <3> QED
      BY <2>3, <2>6, <2>8, <3>3 DEF LargestThatFits
  <2> QED
    BY <2>7, <2>8
<1>2. PlanOfSignal => LargestThatFits
  BY <1>1 DEF LargestThatFits
<1> QED
  BY <1>2, Inductive, PTL

(* Slippage and rounding keep stop, fill and targets in order and on the    *)
(* tick, and move no level towards the entry.                               *)
THEOREM PlansKeepLevels == PlanSpec => []LevelsHold
<1>1. ASSUME PlanOfSignal, Valid PROVE LevelsHold
  <2>1. signal \in Signal /\ plan = PlanOf(signal) /\ plan.verdict = "valid"
    BY <1>1 DEF PlanOfSignal, Valid
  <2>2. Ordered(signal, plan.fill, plan.sl, plan.tp1, plan.tp2)
    BY <2>1, Verdicts
  <2>3. /\ signal.direction \in {-1, 1}
        /\ signal.sl \in Int /\ signal.tp1 \in Int /\ signal.tp2 \in Int
    BY <2>1 DEF Signal
  <2>4. CASE signal.direction = 1
    BY <2>1, <2>2, <2>3, <2>4, Levels DEF Ordered, LevelsHold
  <2>5. CASE signal.direction = -1
    BY <2>1, <2>2, <2>3, <2>5, Levels DEF Ordered, LevelsHold
  <2> QED
    BY <2>3, <2>4, <2>5
<1>2. PlanOfSignal => LevelsHold
  BY <1>1 DEF LevelsHold
<1> QED
  BY <1>2, Inductive, PTL
(* All that is claimed of a plan, for every instrument and configuration.   *)
THEOREM PlansHold == PlanSpec => []PlansAreSound
<1>1. WithinBudget /\ LargestThatFits /\ LevelsHold => PlansAreSound
  BY DEF PlansAreSound
<1> QED
  BY <1>1, PlansWithinBudget, PlansLargest, PlansKeepLevels, PTL

-----------------------------------------------------------------------------
(* The gate: tables and market. *)

\* An answer about a ticker was true when it was given.
TickersAreTrue ==
    \A s \in Symbols : tickers[s] # NoRow =>
        tickers[s].at <= now /\ tickers[s].busy = market[s][tickers[s].at].busy

\* A book is asked for in the last part of a cycle, of a contract that trades.
AskedIsListed ==
    \A s \in Symbols : asked[s] # NoRow =>
        pc = "books" /\ asked[s] <= now /\ specs[s] # NoRow /\ specs[s].normal

\* A specification was true during its request.
SpecsAreTrue ==
    \A s \in Symbols : specs[s] # NoRow =>
        \E u \in 0..now : u <= specs[s].fetched /\ specs[s].fetched - u <= RequestTime
                          /\ listed[s][u]

\* A row that is verified was true of the market at its two instants.
VerifiedIsTrue ==
    \A s \in Symbols : universe[s] # NoRow /\ universe[s].verified =>
        LET r == universe[s]
            m == market[s][r.bookAt]
        IN  /\ r.bookAt <= now /\ r.tickerAt <= now
            /\ m.tight /\ m.bid >= MinDepth /\ m.ask >= MinDepth
            /\ r.bid = m.bid /\ r.ask = m.ask
            /\ market[s][r.tickerAt].busy

MarketInv ==
    MarketTypeOK /\ TickersAreTrue /\ AskedIsListed /\ SpecsAreTrue /\ VerifiedIsTrue /\ RowsAgree

LEMMA MarketStart == MarketInit => MarketInv
BY MarketAssumption DEF MarketInit, MarketInv, MarketTypeOK, TickersAreTrue, AskedIsListed,
   SpecsAreTrue, VerifiedIsTrue, RowsAgree, Instants

(* Time leaves the past as it was. *)
LEMMA PastStays ==
    ASSUME MarketTypeOK, MarketMoves
    PROVE  /\ now \in Nat /\ now' = now + 1 /\ now' \in Instants
           /\ market' \in [Symbols -> [0..now' -> Markets]]
           /\ listed' \in [Symbols -> [0..now' -> BOOLEAN]]
           /\ \A s \in Symbols, u \in 0..now :
                 market'[s][u] = market[s][u] /\ listed'[s][u] = listed[s][u]
<1>1. now \in Nat /\ now' = now + 1 /\ now' \in Instants
  BY MarketAssumption DEF MarketTypeOK, MarketMoves, Instants
<1>2. PICK m \in [Symbols -> Markets], l \in [Symbols -> BOOLEAN] :
          /\ market' = [s \in Symbols |-> Extend(market[s], m[s])]
          /\ listed' = [s \in Symbols |-> Extend(listed[s], l[s])]
  BY DEF MarketMoves
<1>3. \A s \in Symbols : /\ Extend(market[s], m[s]) \in [0..now' -> Markets]
                         /\ Extend(listed[s], l[s]) \in [0..now' -> BOOLEAN]
  <2> SUFFICES ASSUME NEW s \in Symbols
               PROVE  /\ Extend(market[s], m[s]) \in [0..now' -> Markets]
                      /\ Extend(listed[s], l[s]) \in [0..now' -> BOOLEAN]
    OBVIOUS
  <2>1. /\ market[s] \in [0..now -> Markets] /\ listed[s] \in [0..now -> BOOLEAN]
        /\ m[s] \in Markets /\ l[s] \in BOOLEAN
    BY DEF MarketTypeOK
  <2>2. \A u \in 0..now' : u # now + 1 => u \in 0..now
    BY <1>1
  <2> QED
    BY <1>1, <2>1, <2>2 DEF Extend
<1>4. \A s \in Symbols, u \in 0..now : /\ Extend(market[s], m[s])[u] = market[s][u]
                                       /\ Extend(listed[s], l[s])[u] = listed[s][u]
  BY <1>1 DEF Extend
<1> QED
  BY <1>1, <1>2, <1>3, <1>4

LEMMA MovesKeep == MarketInv /\ MarketMoves => MarketInv'
<1> SUFFICES ASSUME MarketInv, MarketMoves PROVE MarketInv'
  OBVIOUS
<1>1. /\ now \in Nat /\ now' = now + 1 /\ now' \in Instants
      /\ market' \in [Symbols -> [0..now' -> Markets]]
      /\ listed' \in [Symbols -> [0..now' -> BOOLEAN]]
      /\ \A s \in Symbols, u \in 0..now :
            market'[s][u] = market[s][u] /\ listed'[s][u] = listed[s][u]
  BY PastStays DEF MarketInv
<1>2. UNCHANGED <<pc, lastUpdate, cycleStart, tickers, todo, asked, specs, universe>>
  BY DEF MarketMoves, updater, tables
<1>3. MarketTypeOK'
  BY <1>1, <1>2 DEF MarketInv, MarketTypeOK
<1>4. TickersAreTrue'
  <2> SUFFICES ASSUME NEW s \in Symbols, tickers[s] # NoRow
               PROVE  tickers[s].at <= now' /\ tickers[s].busy = market'[s][tickers[s].at].busy
    BY <1>2 DEF TickersAreTrue
  <2>1. tickers[s].at \in 0..now /\ tickers[s].busy = market[s][tickers[s].at].busy
    BY <1>1 DEF MarketInv, MarketTypeOK, TickersAreTrue, Instants
  <2> QED
    BY <1>1, <2>1
<1>5. AskedIsListed'
  BY <1>1, <1>2 DEF MarketInv, MarketTypeOK, AskedIsListed, Instants
<1>6. SpecsAreTrue'
  <2> SUFFICES ASSUME NEW s \in Symbols, specs[s] # NoRow
               PROVE  \E u \in 0..now' : /\ u <= specs[s].fetched
                                         /\ specs[s].fetched - u <= RequestTime
                                         /\ listed'[s][u]
    BY <1>2 DEF SpecsAreTrue
  <2>1. PICK u \in 0..now : /\ u <= specs[s].fetched /\ specs[s].fetched - u <= RequestTime
                            /\ listed[s][u]
    BY DEF MarketInv, SpecsAreTrue
  <2> QED
    BY <1>1, <2>1
<1>7. VerifiedIsTrue'
  <2> SUFFICES ASSUME NEW s \in Symbols, universe[s] # NoRow, universe[s].verified
               PROVE  LET r == universe[s]
                          m == market'[s][r.bookAt]
                      IN  /\ r.bookAt <= now' /\ r.tickerAt <= now'
                          /\ m.tight /\ m.bid >= MinDepth /\ m.ask >= MinDepth
                          /\ r.bid = m.bid /\ r.ask = m.ask
                          /\ market'[s][r.tickerAt].busy
    BY <1>2 DEF VerifiedIsTrue
  <2>1. universe[s].bookAt \in 0..now /\ universe[s].tickerAt \in 0..now
    BY <1>1 DEF MarketInv, MarketTypeOK, VerifiedIsTrue, Row, Instants
  <2> QED
    BY <1>1, <2>1 DEF MarketInv, VerifiedIsTrue
<1>8. RowsAgree'
  BY <1>2 DEF MarketInv, RowsAgree
<1> QED
  BY <1>3, <1>4, <1>5, <1>6, <1>7, <1>8 DEF MarketInv

(* A row that records a failure or a delisting is a row, and not verified.  *)
LEMMA FailedRows ==
    ASSUME MarketTypeOK, NEW s \in Symbols, NEW stale \in BOOLEAN
    PROVE  /\ Failed(s, stale) \in Row /\ ~Failed(s, stale).verified
           /\ Failed(s, stale).status # "valid"
           /\ Delisted(s) \in Row /\ ~Delisted(s).verified /\ Delisted(s).status # "valid"
<1>1. 0 \in Instants
  BY MarketAssumption DEF Instants
<1>2. Old(s) \in Row
  BY <1>1 DEF MarketTypeOK, Old, Row
<1>3. \A r \in Row : /\ [r EXCEPT !.verified = FALSE, !.status = "stale"] \in Row
                     /\ [r EXCEPT !.verified = FALSE, !.status = "source_failed"] \in Row
                     /\ [r EXCEPT !.active = FALSE, !.verified = FALSE,
                                  !.status = "insufficient"] \in Row
  BY DEF Row
<1> QED
  BY <1>2, <1>3 DEF Failed, Delisted, Row

SpecOf(normal, fetched) == [normal |-> normal, fetched |-> fetched]

(* A specification by its fields. *)
LEMMA SpecFields ==
    ASSUME NEW n \in BOOLEAN, NEW f \in Instants
    PROVE  SpecOf(n, f) \in Spec1 /\ SpecOf(n, f).normal = n /\ SpecOf(n, f).fetched = f
BY DEF SpecOf, Spec1

(* The specifications of one answer. *)
LEMMA SpecsKeep ==
    ASSUME MarketInv, NEW other \in BOOLEAN, FetchSpecs(other)
    PROVE  MarketInv'
<1>1. /\ UNCHANGED <<now, market, listed, lastUpdate, cycleStart, tickers, todo, asked>>
      /\ pc = "specs" /\ pc' = "tickers"
  BY DEF FetchSpecs, world
<1>2. now \in Nat /\ now \in Instants /\ cycleStart \in Nat
  BY MarketAssumption DEF MarketInv, MarketTypeOK, Instants
<1>3. \A s \in Symbols : asked[s] = NoRow
  BY <1>1 DEF MarketInv, AskedIsListed
<1>4. CASE UNCHANGED tables
  BY <1>1, <1>3, <1>4 DEF MarketInv, MarketTypeOK, TickersAreTrue, AskedIsListed, SpecsAreTrue,
     VerifiedIsTrue, RowsAgree, tables
<1>5. ASSUME NEW asOf \in Earlier, StoreSpecs({s \in Symbols : listed[s][asOf]})
      PROVE  MarketInv'
  <2> DEFINE present == {s \in Symbols : listed[s][asOf]}
             gone(s) == s \notin present /\ specs[s] # NoRow
  <2>0. \A s \in present : s \in Symbols /\ listed[s][asOf]
    OBVIOUS
  <2>1. /\ \A s \in present : specs'[s] = SpecOf(TRUE, now)
        /\ \A s \in Symbols : gone(s) => specs'[s] = SpecOf(FALSE, specs[s].fetched)
        /\ \A s \in Symbols \ present : ~gone(s) => specs'[s] = NoRow /\ specs[s] = NoRow
        /\ \A s \in Symbols : gone(s) => universe'[s] = Delisted(s)
        /\ \A s \in Symbols : ~gone(s) => universe'[s] = universe[s]
    BY <1>5 DEF StoreSpecs, SpecOf
  <2> HIDE DEF present
  <2>2. \A s \in Symbols : specs'[s] # NoRow => specs'[s] \in Spec1
    <3> SUFFICES ASSUME NEW s \in Symbols, specs'[s] # NoRow
                 PROVE  specs'[s] \in Spec1
      OBVIOUS
    <3>1. CASE s \in present
      BY <1>2, <2>1, <3>1, SpecFields
    <3>2. CASE s \notin present
      <4>1. specs[s] # NoRow /\ specs'[s] = SpecOf(FALSE, specs[s].fetched)
        BY <2>1, <3>2
      <4> QED
        BY <4>1, SpecFields DEF MarketInv, MarketTypeOK, Spec1
    <3> QED
      BY <3>1, <3>2
  <2>3. \A s \in Symbols : universe'[s] # NoRow => universe'[s] \in Row
    BY <2>1, FailedRows DEF MarketInv, MarketTypeOK
  <2>4. MarketTypeOK'
    BY <1>1, <2>2, <2>3 DEF MarketInv, MarketTypeOK
  <2>5. (TickersAreTrue /\ AskedIsListed)'
    BY <1>1, <1>3 DEF MarketInv, TickersAreTrue, AskedIsListed
  <2>6. SpecsAreTrue'
    <3> SUFFICES ASSUME NEW s \in Symbols, specs'[s] # NoRow
                 PROVE  \E u \in 0..now : /\ u <= specs'[s].fetched
                                          /\ specs'[s].fetched - u <= RequestTime
                                          /\ listed[s][u]
      BY <1>1 DEF SpecsAreTrue
    <3>1. CASE s \in present
      <4>1. asOf \in 0..now /\ now - asOf <= RequestTime /\ listed[s][asOf]
        BY <1>2, <2>0, <3>1 DEF Earlier
      <4>2. specs'[s].fetched = now
        BY <1>2, <2>1, <3>1, SpecFields
      <4> QED
        BY <1>2, <4>1, <4>2
    <3>2. CASE s \notin present
      <4>1. specs[s] # NoRow /\ specs'[s] = SpecOf(FALSE, specs[s].fetched)
        BY <2>1, <3>2
      <4>2. specs'[s].fetched = specs[s].fetched
        BY <4>1 DEF SpecOf
      <4> QED
        BY <4>1, <4>2 DEF MarketInv, SpecsAreTrue
    <3> QED
      BY <3>1, <3>2
  <2>7. \A s \in Symbols : universe'[s] # NoRow /\ universe'[s].verified =>
            ~gone(s) /\ universe'[s] = universe[s]
    BY <2>1, FailedRows DEF MarketInv
  <2>8. VerifiedIsTrue'
    BY <1>1, <2>7 DEF MarketInv, VerifiedIsTrue
  <2>9. RowsAgree'
    <3> SUFFICES ASSUME NEW s \in Symbols, universe'[s] # NoRow
                 PROVE  /\ universe'[s].verified <=> universe'[s].status = "valid"
                        /\ universe'[s].verified =>
                              /\ universe'[s].active /\ universe'[s].stamped
                              /\ specs'[s] # NoRow /\ specs'[s].normal
      BY DEF RowsAgree
    <3>1. CASE gone(s)
      BY <2>1, <3>1, FailedRows DEF MarketInv
    <3>2. CASE ~gone(s)
      <4>1. universe'[s] = universe[s]
        BY <2>1, <3>2
      <4>2. universe[s].verified => s \in present
        BY <3>2, <4>1 DEF MarketInv, RowsAgree
      <4>3. s \in present => specs'[s] \in Spec1 /\ specs'[s].normal
        BY <1>2, <2>1, SpecFields
      <4> QED
        BY <4>1, <4>2, <4>3, MarketAssumption DEF MarketInv, RowsAgree
    <3> QED
      BY <3>1, <3>2
  <2> QED
    BY <2>4, <2>5, <2>6, <2>8, <2>9 DEF MarketInv
<1> QED
  BY <1>4, <1>5 DEF FetchSpecs

(* The market is known at every instant up to now. *)
LEMMA KnownMarket ==
    ASSUME MarketTypeOK, NEW s \in Symbols, NEW u \in 0..now
    PROVE  market[s][u] \in Market
<1>1. market \in [Symbols -> [0..now -> Markets]]
  BY DEF MarketTypeOK
<1>2. market[s][u] \in Markets
  BY <1>1
<1> QED
  BY <1>2, MarketAssumption

LEMMA TickersKeep ==
    ASSUME MarketInv, NEW found \in SUBSET Symbols, NEW asOf \in 0..now, FetchTickers(found, asOf)
    PROVE  MarketInv'
<1>1. /\ UNCHANGED <<now, market, listed, lastUpdate, cycleStart, asked, specs, universe>>
      /\ pc = "tickers" /\ pc' = "books" /\ todo' = Symbols
      /\ tickers' = [s \in Symbols |-> IF s \in found THEN TickerOf(s, asOf) ELSE NoRow]
  BY DEF FetchTickers, world, tables
<1>2. now \in Instants /\ asOf \in Instants /\ asOf <= now
  BY MarketAssumption DEF MarketInv, MarketTypeOK, Instants
<1>3. \A s \in Symbols : /\ TickerOf(s, asOf) \in [at : Instants, fetched : Instants, busy : BOOLEAN]
                         /\ TickerOf(s, asOf).at = asOf
                         /\ TickerOf(s, asOf).busy = market[s][asOf].busy
  <2>1. \A s \in Symbols : market[s][asOf] \in Market
    BY KnownMarket DEF MarketInv
  <2> QED
    BY <1>2, <2>1 DEF TickerOf, Market
<1>4. \A s \in Symbols : tickers'[s] # NoRow => tickers'[s] = TickerOf(s, asOf)
  BY <1>1
<1>5. MarketTypeOK'
  BY <1>1, <1>3, <1>4 DEF MarketInv, MarketTypeOK
<1>6. TickersAreTrue'
  BY <1>1, <1>2, <1>3, <1>4 DEF TickersAreTrue
<1>7. AskedIsListed'
  BY <1>1 DEF MarketInv, AskedIsListed
<1> QED
  BY <1>1, <1>5, <1>6, <1>7 DEF MarketInv, SpecsAreTrue, VerifiedIsTrue, RowsAgree

(* A row of one symbol that is not verified may replace any other. *)
LEMMA UnverifiedRow ==
    ASSUME MarketInv, NEW s \in Symbols, NEW r \in Row, ~r.verified, r.status # "valid",
           UNCHANGED <<now, market, specs>>, universe' = [universe EXCEPT ![s] = r]
    PROVE  /\ \A x \in Symbols : universe'[x] # NoRow => universe'[x] \in Row
           /\ VerifiedIsTrue' /\ RowsAgree'
<1>1. \A x \in Symbols : x # s => universe'[x] = universe[x]
  BY DEF MarketInv, MarketTypeOK
<1>2. universe'[s] = r \/ universe'[s] = universe[s]
  BY DEF MarketInv, MarketTypeOK
<1> QED
  BY <1>1, <1>2 DEF MarketInv, MarketTypeOK, VerifiedIsTrue, RowsAgree

(* The assessment of a book with its ticker. *)
LEMMA AssessedRows ==
    ASSUME MarketInv, NEW s \in Symbols, NEW asOf \in 0..now, asked[s] # NoRow, tickers[s] # NoRow,
           NEW r, r = Assessed(market[s][asOf], asOf, asked[s], tickers[s], specs[s])
    PROVE  /\ r \in Row
           /\ r.verified <=> r.status = "valid"
           /\ r.verified =>
                /\ r.active /\ r.stamped /\ r.bookAt <= now /\ r.tickerAt <= now
                /\ LET m == market[s][r.bookAt]
                   IN  /\ m.tight /\ m.bid >= MinDepth /\ m.ask >= MinDepth
                       /\ r.bid = m.bid /\ r.ask = m.ask
                /\ market[s][r.tickerAt].busy
<1> DEFINE m == market[s][asOf]
           t == tickers[s]
           old == TooOld(asOf, asked[s], t, specs[s])
           ok == ~old /\ ~TooThin(m, t)
<1>1. m \in Market
  BY KnownMarket DEF MarketInv
<1>2. t \in [at : Instants, fetched : Instants, busy : BOOLEAN] /\ asked[s] \in Instants
  BY DEF MarketInv, MarketTypeOK
<1>3. asOf \in Instants /\ asOf <= now /\ now \in Nat /\ asOf \in Nat
  BY MarketAssumption DEF MarketInv, MarketTypeOK, Instants
<1>4. t.at <= now /\ t.busy = market[s][t.at].busy
  BY DEF MarketInv, TickersAreTrue
<1>5. r = [active |-> TRUE, verified |-> ok,
         status |-> IF ok THEN "valid" ELSE IF old THEN "stale" ELSE "insufficient",
         stamped |-> TRUE, bookAt |-> asOf, bookFetched |-> asked[s],
         tickerAt |-> t.at, tickerFetched |-> t.fetched, bid |-> m.bid, ask |-> m.ask]
  BY DEF Assessed
<1>6. old \in BOOLEAN /\ ok \in BOOLEAN
  BY DEF TooOld
<1>7. ok => m.tight /\ m.bid >= MinDepth /\ m.ask >= MinDepth /\ t.busy
  BY <1>1, MarketAssumption DEF TooThin, Market
<1> HIDE DEF ok, old, m, t
<1>8. r \in Row
  BY <1>1, <1>2, <1>3, <1>5, <1>6 DEF Row, Market
<1>9. r.verified = ok /\ (r.status = "valid" <=> ok)
  BY <1>5, <1>6
<1>10. /\ r.active /\ r.stamped /\ r.bookAt = asOf /\ r.tickerAt = t.at
       /\ r.bid = m.bid /\ r.ask = m.ask
  BY <1>5
<1> QED
  BY <1>3, <1>4, <1>7, <1>8, <1>9, <1>10 DEF m

LEMMA BooksKeep ==
    ASSUME MarketInv, NEW s \in Symbols,
           AskBook(s) \/ BookFails(s) \/ \E asOf \in 0..now : BookArrives(s, asOf)
    PROVE  MarketInv'
<1>1. /\ UNCHANGED <<now, market, listed, pc, lastUpdate, cycleStart, tickers, specs>>
      /\ pc = "books" /\ todo' \subseteq todo
  BY DEF AskBook, BookFails, BookArrives, world
<1>2. (TickersAreTrue /\ SpecsAreTrue)'
  BY <1>1 DEF MarketInv, TickersAreTrue, SpecsAreTrue
<1>3. \A x \in Symbols : asked'[x] # NoRow =>
          \/ asked'[x] = asked[x]
          \/ asked'[x] = now /\ SpecUsable(x)
  <2>1. \/ asked' = asked
        \/ asked' = [asked EXCEPT ![s] = NoRow]
        \/ asked' = [asked EXCEPT ![s] = now] /\ SpecUsable(s)
    BY DEF AskBook, BookFails, BookArrives
  <2>2. CASE asked' = asked
    BY <2>2
  <2>3. CASE asked' = [asked EXCEPT ![s] = NoRow]
    BY <2>3
  <2>4. CASE asked' = [asked EXCEPT ![s] = now] /\ SpecUsable(s)
    BY <2>4
  <2> QED
    BY <2>1, <2>2, <2>3, <2>4
<1>4. AskedIsListed' /\ (\A x \in Symbols : asked'[x] # NoRow => asked'[x] \in Instants)
  <2>1. \A x \in Symbols : asked[x] # NoRow =>
          asked[x] \in Instants /\ asked[x] <= now /\ specs[x] # NoRow /\ specs[x].normal
    BY DEF MarketInv, MarketTypeOK, AskedIsListed
  <2>2. now \in Instants /\ now <= now
    BY MarketAssumption DEF MarketInv, MarketTypeOK, Instants
  <2> QED
    BY <1>1, <1>3, <2>1, <2>2 DEF AskedIsListed, SpecUsable
<1>5. ASSUME /\ \A x \in Symbols : universe'[x] # NoRow => universe'[x] \in Row
             /\ VerifiedIsTrue' /\ RowsAgree'
      PROVE  MarketInv'
  <2>1. MarketTypeOK'
    BY <1>1, <1>4, <1>5 DEF MarketInv, MarketTypeOK
  <2> QED
    BY <1>2, <1>4, <1>5, <2>1 DEF MarketInv
<1>6. CASE UNCHANGED universe
  BY <1>1, <1>5, <1>6 DEF MarketInv, MarketTypeOK, VerifiedIsTrue, RowsAgree
<1>7. ASSUME NEW stale \in BOOLEAN, universe' = [universe EXCEPT ![s] = Failed(s, stale)]
      PROVE  MarketInv'
  BY <1>1, <1>5, <1>7, FailedRows, UnverifiedRow DEF MarketInv
<1>8. ASSUME NEW asOf \in 0..now, asked[s] # NoRow, tickers[s] # NoRow,
             universe' = [universe EXCEPT ![s] =
                            Assessed(market[s][asOf], asOf, asked[s], tickers[s], specs[s])]
      PROVE  MarketInv'
  <2>1. PICK r : r = Assessed(market[s][asOf], asOf, asked[s], tickers[s], specs[s])
    OBVIOUS
  <2>2. /\ r \in Row
        /\ r.verified <=> r.status = "valid"
        /\ r.verified =>
             /\ r.active /\ r.stamped /\ r.bookAt <= now /\ r.tickerAt <= now
             /\ LET m == market[s][r.bookAt]
                IN  /\ m.tight /\ m.bid >= MinDepth /\ m.ask >= MinDepth
                    /\ r.bid = m.bid /\ r.ask = m.ask
             /\ market[s][r.tickerAt].busy
    BY <1>8, <2>1, AssessedRows
  <2>3. \A x \in Symbols : universe'[x] = universe[x] \/ (x = s /\ universe'[x] = r)
    BY <1>8, <2>1
  <2>4. specs[s] # NoRow /\ specs[s].normal
    BY <1>8 DEF MarketInv, AskedIsListed
  <2>5. \A x \in Symbols : universe'[x] # NoRow => universe'[x] \in Row
    BY <2>2, <2>3 DEF MarketInv, MarketTypeOK
  <2>6. VerifiedIsTrue'
    BY <1>1, <2>2, <2>3 DEF MarketInv, VerifiedIsTrue
  <2>7. RowsAgree'
    BY <1>1, <2>2, <2>3, <2>4 DEF MarketInv, RowsAgree
  <2> QED
    BY <1>5, <2>5, <2>6, <2>7
<1>9. CASE AskBook(s)
  BY <1>6, <1>7, <1>9 DEF AskBook, StaleSpec
<1>10. CASE BookFails(s)
  BY <1>7, <1>10 DEF BookFails
<1>11. ASSUME NEW asOf \in 0..now, BookArrives(s, asOf) PROVE MarketInv'
  BY <1>7, <1>8, <1>11 DEF BookArrives
<1> QED
  BY <1>9, <1>10, <1>11

LEMMA MarketStep == MarketInv /\ [MarketNext]_marketVars => MarketInv'
<1> SUFFICES ASSUME MarketInv, [MarketNext]_marketVars PROVE MarketInv'
  OBVIOUS
<1>1. CASE UNCHANGED marketVars
  BY <1>1 DEF marketVars, world, updater, tables, MarketInv, MarketTypeOK, TickersAreTrue,
     AskedIsListed, SpecsAreTrue, VerifiedIsTrue, RowsAgree
<1>2. CASE StartUpdate
  <2>1. /\ UNCHANGED <<now, market, listed, lastUpdate, tickers, todo, asked, specs, universe>>
        /\ pc = "idle" /\ pc' = "specs" /\ cycleStart' = now
    BY <1>2 DEF StartUpdate, world, tables
  <2> QED
    BY <2>1 DEF MarketInv, MarketTypeOK, TickersAreTrue, AskedIsListed, SpecsAreTrue,
       VerifiedIsTrue, RowsAgree
<1>3. CASE UpdateDone \/ UpdateRaises \/ Crash
  <2>1. /\ UNCHANGED <<now, market, listed, specs, universe>>
        /\ lastUpdate' \in {lastUpdate, cycleStart, -1} /\ pc' = "idle" /\ cycleStart' = 0
        /\ todo' = {} /\ \A s \in Symbols : tickers'[s] = NoRow /\ asked'[s] = NoRow
    BY <1>3 DEF UpdateDone, UpdateRaises, Crash, EndCycle, world, tables
  <2>2. MarketTypeOK'
    BY <2>1, MarketAssumption DEF MarketInv, MarketTypeOK, Instants
  <2> QED
    BY <2>1, <2>2 DEF MarketInv, TickersAreTrue, AskedIsListed, SpecsAreTrue,
       VerifiedIsTrue, RowsAgree
<1>4. CASE RateLimited
  BY <1>1, <1>4 DEF RateLimited
<1> QED
  BY <1>1, <1>2, <1>3, <1>4, MovesKeep, SpecsKeep, TickersKeep, BooksKeep
     DEF MarketNext, UpdateStep

LEMMA MarketInvariant == MarketSpec => []MarketInv
BY MarketStart, MarketStep, PTL DEF MarketSpec

(* Every entry is backed by the market and in a contract that was trading,  *)
(* and no row contradicts itself.                                           *)
THEOREM GateHolds == MarketSpec => []GateIsSound
<1>1. MarketInv => GateIsSound
  <2> SUFFICES ASSUME MarketInv,
                      NEW s \in Symbols, NEW n \in Notionals, NEW side \in Sides,
                      MayEnter(s, n, side)
               PROVE  /\ \E u \in Within(MaxAge) :
                            LET m == market[s][u] IN
                            /\ m.tight /\ m.bid >= MinDepth /\ m.ask >= MinDepth
                            /\ n * Share <= (IF side = 1 THEN m.ask ELSE m.bid)
                      /\ \E u \in Within(MaxAge) : market[s][u].busy
                      /\ \E u \in Within(SpecMaxAge + RequestTime) : listed[s][u]
    BY DEF GateIsSound, EntryIsBacked, EntryIsListed, MarketInv
  <2> DEFINE r == universe[s]
             m == market[s][r.bookAt]
  <2>1. /\ r # NoRow /\ specs[s] # NoRow /\ r.verified
        /\ now - r.bookAt <= MaxAge /\ now - r.tickerAt <= MaxAge
        /\ now - specs[s].fetched <= SpecMaxAge
        /\ n * Share <= (IF side = 1 THEN r.ask ELSE r.bid)
    BY DEF MayEnter, LiquidityIsVerified, DepthFor
  <2>2. /\ r.bookAt <= now /\ r.tickerAt <= now
        /\ m.tight /\ m.bid >= MinDepth /\ m.ask >= MinDepth
        /\ r.bid = m.bid /\ r.ask = m.ask
        /\ market[s][r.tickerAt].busy
    BY <2>1 DEF MarketInv, VerifiedIsTrue
  <2>3. /\ r.bookAt \in Nat /\ r.tickerAt \in Nat /\ specs[s].fetched \in Nat /\ now \in Nat
    BY <2>1 DEF MarketInv, MarketTypeOK, Row, Spec1, Instants
  <2>4. r.bookAt \in Within(MaxAge) /\ r.tickerAt \in Within(MaxAge)
    BY <2>1, <2>2, <2>3 DEF Within
  <2>5. PICK u \in 0..now : /\ u <= specs[s].fetched /\ specs[s].fetched - u <= RequestTime
                            /\ listed[s][u]
    BY <2>1 DEF MarketInv, SpecsAreTrue
  <2>6. u \in Within(SpecMaxAge + RequestTime)
    BY <2>1, <2>3, <2>5, MarketAssumption DEF Within
  <2> HIDE DEF m, r
  <2>7. n * Share <= (IF side = 1 THEN m.ask ELSE m.bid)
    BY <2>1, <2>2
  <2> QED
    BY <2>2, <2>4, <2>5, <2>6, <2>7 DEF m
<1> QED
  BY <1>1, MarketInvariant, PTL

-----------------------------------------------------------------------------
(* The types of all the parts, side by side. *)

LEMMA WalkTyped == WalkInit /\ [][WalkNext]_walkVars => []WalkTypeOK
<1>1. FoldInv => WalkTypeOK
  BY DEF FoldInv, Placed, WalkTypeOK
<1> QED
  BY <1>1, FoldInvariant, PTL DEF WalkSpec

LEMMA BtTyped == BtInit /\ [][BtNext]_btVars => []BtTypeOK
<1>1. ASSUME BtInv PROVE BtTypeOK
  <2>1. done \in Seq(Closed) /\ bar \in Nat
    BY <1>1 DEF BtInv, Booked
  <2>2. active \in Trade \cup {NoneActive}
    BY <1>1 DEF BtInv, Booked, Running
  <2>3. OpenPart(active) \in Int
    <3>1. CASE active = NoneActive
      BY <3>1 DEF OpenPart
    <3>2. CASE active # NoneActive
      <4>1. active \in Trade /\ EntryFee(active) \in Int
        BY <1>1, <3>2 DEF BtInv, Booked, Running
      <4>2. active.tp1Pnl \in Int
        BY <4>1 DEF Trade
      <4> QED
        BY <3>2, <4>1, <4>2 DEF OpenPart
    <3> QED
      BY <3>1, <3>2
  <2>4. NetOfList(done) \in Int /\ StartMoney \in Int
    BY <2>1, ListTypes, BacktestAssumption
  <2>5. money \in Int
    BY <1>1, <2>3, <2>4 DEF BtInv, Booked
  <2> QED
    BY <2>1, <2>2, <2>5 DEF BtTypeOK
<1> QED
  BY <1>1, BtInvariant, PTL DEF BtSpec

LEMMA FillTyped == FillInit /\ [][FillNext]_fillVars => []FillTypeOK
<1> DEFINE RestOK == cursor \in Int /\ report.gaps \in Seq(Span)
<1>1. FillInit => TileInv /\ CoverInv /\ RestOK
  BY EmptySeq DEF FillInit, TileInv, CoverInv, NoReport
<1>2. ASSUME TileInv, CoverInv, RestOK, [FillNext]_fillVars PROVE RestOK'
  <2>1. CASE Inspect
    <3>1. series' \in Seq(Nat)
      BY <2>1, BackfillAssumption DEF Inspect
    <3>2. report'.gaps = DetectedGaps(series')
      BY <2>1, <3>1, ReportAgrees DEF Inspect
    <3>3. DetectedGaps(series') \in Seq(Span)
      BY <3>1, GapsAreThose
    <3> QED
      BY <1>2, <2>1, <3>2, <3>3 DEF Inspect
  <2>2. CASE PlanGap
    <3>1. gap + 1 \in 1..Len(gaps) /\ gaps \in Seq(Span)
      BY <1>2, <2>2 DEF PlanGap, TileInv
    <3>2. gaps[gap + 1] \in Span
      BY <3>1, ElementOfSeq
    <3> QED
      BY <1>2, <2>2, <3>2 DEF PlanGap, Span
  <2>3. CASE PlanChunk
    <3>1. gap \in 1..Len(gaps) /\ gaps \in Seq(Span)
      BY <1>2, <2>3 DEF PlanChunk, GapDone, TileInv
    <3>2. gaps[gap] \in Span
      BY <3>1, ElementOfSeq
    <3>3. cursor' \in Int
      BY <1>2, <2>3, <3>2, BackfillAssumption DEF PlanChunk, ChunkEnd, NextStart, Span
    <3> QED
      BY <1>2, <2>3, <3>3 DEF PlanChunk
  <2>4. CASE FillDone
    BY <2>4, EmptySeq DEF FillDone, NoReport
  <2>5. CASE UNCHANGED fillVars
    BY <1>2, <2>5 DEF fillVars
  <2> QED
    BY <1>2, <2>1, <2>2, <2>3, <2>4, <2>5 DEF FillNext
<1>3. TileInv /\ CoverInv /\ RestOK => FillTypeOK
  BY DEF TileInv, CoverInv, FillTypeOK
<1> QED
  BY <1>1, <1>2, <1>3, TileStep, CoverStep, PTL

(* A step of one of the parts is a step of each, or leaves it alone.        *)
LEMMA EachMoves ==
    ASSUME [Next]_vars
    PROVE  /\ [MarketNext]_marketVars /\ [PlanNext]_planVars /\ [FillNext]_fillVars
           /\ [WalkNext]_walkVars /\ [CalNext]_calVars /\ [BtNext]_btVars
<1>1. CASE UNCHANGED vars
  BY <1>1 DEF vars
<1>2. CASE MarketNext /\ UNCHANGED <<planVars, fillVars, walkVars, calVars, btVars>>
  BY <1>2
<1>3. CASE PlanNext /\ UNCHANGED <<marketVars, fillVars, walkVars, calVars, btVars>>
  BY <1>3
<1>4. CASE FillNext /\ UNCHANGED <<marketVars, planVars, walkVars, calVars, btVars>>
  BY <1>4
<1>5. CASE WalkNext /\ UNCHANGED <<marketVars, planVars, fillVars, calVars, btVars>>
  BY <1>5
<1>6. CASE CalNext /\ UNCHANGED <<marketVars, planVars, fillVars, walkVars, btVars>>
  BY <1>6
<1>7. CASE BtNext /\ UNCHANGED <<marketVars, planVars, fillVars, walkVars, calVars>>
  BY <1>7
<1> QED
  BY <1>1, <1>2, <1>3, <1>4, <1>5, <1>6, <1>7 DEF Next

(* All that decides about entries, side by side: whatever the markets, the  *)
(* instrument, the series and the candles are, no variable leaves its type. *)
THEOREM EntryTyped == Spec => []TypeOK
<1>1. Init => MarketInit /\ PlanInit /\ FillInit /\ WalkInit /\ CalInit /\ BtInit
  BY DEF Init
<1>2. [Next]_vars => /\ [MarketNext]_marketVars /\ [PlanNext]_planVars /\ [FillNext]_fillVars
                     /\ [WalkNext]_walkVars /\ [CalNext]_calVars /\ [BtNext]_btVars
  BY EachMoves
<1>3. MarketInit /\ [][MarketNext]_marketVars => []MarketTypeOK
  <2>1. MarketInv => MarketTypeOK
    BY DEF MarketInv
  <2> QED
    BY <2>1, MarketStart, MarketStep, PTL
<1>4. PlanInit /\ [][PlanNext]_planVars => []PlanTypeOK
  BY TypeCorrect, PTL DEF PlanSpec
<1>5. CalInit /\ [][CalNext]_calVars => []CalTypeOK
  <2>1. PoolInv => CalTypeOK
    BY DEF PoolInv
  <2> QED
    BY <2>1, PoolInvariant, PTL DEF CalSpec
<1>6. TypeOK <=> /\ MarketTypeOK /\ PlanTypeOK /\ FillTypeOK
                 /\ WalkTypeOK /\ CalTypeOK /\ BtTypeOK
  BY DEF TypeOK
<1> QED
  BY <1>1, <1>2, <1>3, <1>4, <1>5, <1>6, FillTyped, WalkTyped, BtTyped, PTL DEF Spec

=============================================================================
