------------------------------- MODULE MCEntry -------------------------------
(***************************************************************************)
(* Small instances, for TLC, of what decides about entries: the market     *)
(* data in front of the gate and the execution plan behind it, and the     *)
(* computations that judge entries afterwards - the repair of the series   *)
(* they are based on, walk-forward folds, calibration and backtest.  They  *)
(* share no variable, so one run checks them side by side: a behaviour     *)
(* picks one of them at its start and moves only that one.                 *)
(***************************************************************************)
EXTENDS MarketData, ExecutionPlan, Backfill, WalkForward, Calibration, Backtest

CONSTANTS btc

VARIABLE part

\* Deep on both sides; with a thin side and little traded; with a wide spread.
Deep == [bid |-> 4, ask |-> 4, tight |-> TRUE, busy |-> TRUE]
Thin == [bid |-> 4, ask |-> 2, tight |-> TRUE, busy |-> FALSE]
Wide == [bid |-> 4, ask |-> 4, tight |-> FALSE, busy |-> TRUE]
MCMarkets == {Deep, Thin, Wide}

\* Low prices bring targets below zero, high ones slippage beyond a tick.
MCPrices   == 1..60
MCHalfAtrs == 1..4
MCBudgets  == {-3, 0} \cup (1..80)

\* Every series of up to three stamps, and two with room for several chunks.
MCSeries ==
    UNION {[1..n -> 0..9] : n \in 0..3}
    \cup {<<0, 2, 16, 18, 28>>, <<1, 12, 14, 25, 31>>}

MCBarCounts == 8..35

\* A prior that rises with the score, in halves of a trade.
MCPrior == [b \in 1..4 |-> IF b = 1 THEN 1 ELSE IF b = 4 THEN 3 ELSE 2]

\* Below, inside every bin, and above.
MCScores == {-1, 3, 4, 9, 12, 16}

Candle(o, h, l, c) == [open |-> o, high |-> h, low |-> l, close |-> c]

\* None, one or both targets of either side, its stop or both; and bars on
\* either side of the entry, at which a trade that sold one half stays open.
MCCandles ==
    {Candle(10, 10, 10, 10), Candle(10, 13, 10, 12), Candle(10, 14, 10, 13),
     Candle(10, 10, 7, 8), Candle(10, 10, 6, 8), Candle(10, 14, 6, 10),
     Candle(12, 12, 11, 12), Candle(8, 9, 8, 8)}

Parts == {"market", "plan", "backfill", "folds", "calibration", "backtest"}

vars == <<part, marketVars, planVars, fillVars, walkVars, calVars, btVars>>

-----------------------------------------------------------------------------

Init ==
    /\ part \in Parts
    /\ MarketInit /\ PlanInit /\ FillInit /\ WalkInit /\ CalInit /\ BtInit
    /\ part # "market" => \A s \in Symbols : market[s][0] = Deep

Moves(p) == part = p /\ part' = p

Next ==
    \/ Moves("market") /\ MarketNext
       /\ UNCHANGED <<planVars, fillVars, walkVars, calVars, btVars>>
    \/ Moves("plan") /\ PlanNext
       /\ UNCHANGED <<marketVars, fillVars, walkVars, calVars, btVars>>
    \/ Moves("backfill") /\ FillNext
       /\ UNCHANGED <<marketVars, planVars, walkVars, calVars, btVars>>
    \/ Moves("folds") /\ WalkNext
       /\ UNCHANGED <<marketVars, planVars, fillVars, calVars, btVars>>
    \/ Moves("calibration") /\ CalNext
       /\ UNCHANGED <<marketVars, planVars, fillVars, walkVars, btVars>>
    \/ Moves("backtest") /\ BtNext
       /\ UNCHANGED <<marketVars, planVars, fillVars, walkVars, calVars>>

Spec == Init /\ [][Next]_vars

-----------------------------------------------------------------------------
(* Properties *)

(* Types of all the parts. *)
TypeOK ==
    /\ MarketTypeOK /\ PlanTypeOK /\ FillTypeOK
    /\ WalkTypeOK /\ CalTypeOK /\ BtTypeOK

=============================================================================
