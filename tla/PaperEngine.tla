----------------------------- MODULE PaperEngine -----------------------------
(***************************************************************************)
(* One account of the paper engine, aura/runner/paper_engine.py: positions *)
(* are entered with an execution plan, every closed bar of their symbol is *)
(* checked for stop, targets and time stop, TP1 sells one half and moves   *)
(* the stop to the entry, and every change is written to the table trades. *)
(* A restart rebuilds positions and equity from that table.                *)
(*                                                                         *)
(* Every action is a committed transaction with its change in memory; what *)
(* happens when a transaction fails is module BarPipeline.  Prices are     *)
(* integers, quantities are even at entry, and amounts of money are        *)
(* counted in 1/(PriceScale * FeeScale) of the quote currency, so that the *)
(* arithmetic of the code is exact here.                                   *)
(***************************************************************************)
EXTENDS Integers, FiniteSets, Functions

CONSTANTS
    Trades, Symbols,
    Plans,             \* execution plans create_execution_plan may return
    Bars,              \* [high, low, close] of a closed bar
    Reasons,           \* reasons an operator gives for a manual close
    Limits,            \* values config.max_open_positions may be set to
    MaxHold,           \* config.max_hold_bars
    StartEquity,
    PriceScale, Slip,  \* config.slippage_bps: Slip of PriceScale
    FeeScale, TakerFee, MakerFee,
    MayClear,          \* whether POST /history/clear is used
    MaxHour            \* bound on the bars of a behaviour

TargetReasons == {"tp2_hit"}
StopReasons == {"sl_hit", "sl_hit_intrabar_collision", "timestop"}
AllReasons == TargetReasons \cup StopReasons \cup Reasons

Plan == [dir : {-1, 1}, entry : Nat, sl : Nat, tp1 : Nat, tp2 : Nat, qty : Nat]

\* The order of the levels that create_execution_plan enforces.
ValidPlan(p) ==
    /\ p.qty > 0 /\ p.qty % 2 = 0 /\ p.entry > 0
    /\ IF p.dir = 1 THEN p.sl < p.entry /\ p.entry < p.tp1 /\ p.tp1 <= p.tp2
                    ELSE p.tp2 <= p.tp1 /\ p.tp1 < p.entry /\ p.entry < p.sl

ASSUME EngineAssumption ==
    /\ Plans \subseteq Plan /\ \A p \in Plans : ValidPlan(p)
    /\ Bars \subseteq [high : Nat, low : Nat, close : Nat]
    /\ \A b \in Bars : b.low <= b.close /\ b.close <= b.high
    /\ Symbols # {} /\ Plans # {}
    /\ Reasons \cap (TargetReasons \cup StopReasons \cup {"none"}) = {}
    /\ Limits \subseteq Nat \ {0} /\ Limits # {} /\ MaxHold \in Nat \ {0} /\ StartEquity \in Nat
    /\ PriceScale \in Nat \ {0} /\ Slip \in 0..PriceScale
    /\ FeeScale \in Nat \ {0} /\ TakerFee \in 0..FeeScale /\ MakerFee \in 0..TakerFee
    /\ MayClear \in BOOLEAN /\ MaxHour \in Nat

VARIABLES
    hour,       \* number of the hour whose bar is the last closed one
    processed,  \* the last bar processed of each symbol, -1 for none
    used,       \* trade ids that were drawn: uuids, never drawn twice
    open,       \* keys of open_positions
    closed,     \* ids in closed_positions
    pos,        \* the PaperPosition objects
    equity,
    limit,      \* config.max_open_positions
    rows,       \* ids in the table trades
    row         \* their rows

memory == <<open, closed, pos, equity>>
table  == <<rows, row>>
vars   == <<hour, processed, used, limit, memory, table>>

\* Without the fields that only a display reads: r_multiple, the score and the
\* extremes are not in the table, and a load leaves them at their defaults.
Position ==
    [sym : Symbols, dir : {-1, 1}, entry : Nat, sl : Nat, initialSl : Nat,
     tp1 : Nat, tp2 : Nat, qty : Nat, initialQty : Nat, opened : Nat,
     tp1Hit : BOOLEAN, realized : Int, fees : Int, reason : AllReasons \cup {"none"}]

\* A position is changed in these fields only.
With(p, sl, qty, tp1Hit, realized, fees, reason) ==
    [sym |-> p.sym, dir |-> p.dir, entry |-> p.entry, sl |-> sl, initialSl |-> p.initialSl,
     tp1 |-> p.tp1, tp2 |-> p.tp2, qty |-> qty, initialQty |-> p.initialQty,
     opened |-> p.opened, tp1Hit |-> tp1Hit, realized |-> realized, fees |-> fees,
     reason |-> reason]

\* "keys" are the columns that are written as they are; neither quantity is one.
Row == [status : {"open", "closed"}, keys : Position, notional : Nat,
        remaining : Nat, entryFee : Nat]

\* Variants for mutation: the engine's own status, or the stop of the INSERT.
PersistedOwnStatus(p, status) ==
    [status |-> IF p.tp1Hit /\ status = "open" THEN "partial_tp1" ELSE status,
     keys |-> With(p, p.sl, 0, p.tp1Hit, p.realized, p.fees, p.reason),
     notional |-> p.initialQty * p.entry, remaining |-> p.qty,
     entryFee |-> p.initialQty * p.entry * PriceScale * TakerFee]

PersistedFirstStop(p, status) ==
    [status |-> status,
     keys |-> With(p, p.initialSl, 0, p.tp1Hit, p.realized, p.fees, p.reason),
     notional |-> p.initialQty * p.entry, remaining |-> p.qty,
     entryFee |-> p.initialQty * p.entry * PriceScale * TakerFee]

\* _persist_trade
Persisted(p, status) ==
    [status |-> status,
     keys |-> With(p, p.sl, 0, p.tp1Hit, p.realized, p.fees, p.reason),
     notional |-> p.initialQty * p.entry, remaining |-> p.qty,
     entryFee |-> p.initialQty * p.entry * PriceScale * TakerFee]

\* Variant for mutation: an open row is loaded like a closed one.
LoadedWhole(r) ==
    [r.keys EXCEPT !.qty = r.notional \div r.keys.entry,
                   !.initialQty = r.notional \div r.keys.entry]

\* _load_state_from_db_if_available: the initial quantity comes from the
\* notional, and the column remaining_qty is read for open rows only.
Loaded(r) ==
    LET initial == r.notional \div r.keys.entry IN
    [r.keys EXCEPT !.qty = IF r.status = "open" THEN r.remaining ELSE initial,
                   !.initialQty = initial]

\* An arbitrary object, for ids that were not drawn yet.
Unborn == [sym |-> CHOOSE s \in Symbols : TRUE, dir |-> 1, entry |-> 0, sl |-> 0,
           initialSl |-> 0, tp1 |-> 0, tp2 |-> 0, qty |-> 0, initialQty |-> 0, opened |-> 0,
           tp1Hit |-> FALSE, realized |-> 0, fees |-> 0, reason |-> "none"]

RealizedOf(ids, p) == SumFunction([t \in ids |-> p[t].realized])
EntryFeesOf(ids, p) == SumFunction([t \in ids |-> Persisted(p[t], "open").entryFee])

\* Equity = Start minus alle Entry-Gebuehren plus bereits realisierte Netto-Exits.
LedgerEquity(ids, p) == StartEquity - EntryFeesOf(ids, p) + RealizedOf(ids, p)

-----------------------------------------------------------------------------
(* Exits. *)

\* is_taker: substrings of the reason; every reason of an operator that is
\* not the default is taken for the reason of a limit order.
IsTaker(reason) == reason \in StopReasons \cup {"manual_close"}

\* The net amount of selling qty at price: gross result minus the exit fee.
NetOf(p, qty, price, taker) ==
    LET final == IF taker THEN price * (PriceScale - p.dir * Slip) ELSE price * PriceScale
        gross == (final - p.entry * PriceScale) * p.dir * qty
    IN  gross * FeeScale - final * qty * (IF taker THEN TakerFee ELSE MakerFee)

FeeOf(p, qty, price, taker) ==
    LET final == IF taker THEN price * (PriceScale - p.dir * Slip) ELSE price * PriceScale
    IN  final * qty * (IF taker THEN TakerFee ELSE MakerFee)

\* _close_full
ClosedAt(p, price, reason) ==
    With(p, p.sl, p.qty, p.tp1Hit,
         p.realized + NetOf(p, p.qty, price, IsTaker(reason)),
         p.fees + FeeOf(p, p.qty, price, IsTaker(reason)),
         reason)

\* _execute_tp1_partial: one half at the target, the stop moves to the entry.
AfterTp1(p) ==
    LET half == p.qty \div 2 IN
    With(p, p.entry, p.qty - half, TRUE,
         p.realized + NetOf(p, half, p.tp1, FALSE),
         p.fees + FeeOf(p, half, p.tp1, FALSE),
         p.reason)

SlHit(p, b)  == IF p.dir = 1 THEN b.low <= p.sl ELSE b.high >= p.sl
Tp1Hit(p, b) == IF p.dir = 1 THEN b.high >= p.tp1 ELSE b.low <= p.tp1
Tp2Hit(p, b) == IF p.dir = 1 THEN b.high >= p.tp2 ELSE b.low <= p.tp2

\* Variant for mutation: a stop is filled at the extreme of the bar.
ExitAtExtreme(p, b, h) ==
    IF SlHit(p, b) THEN ClosedAt(p, IF p.dir = 1 THEN b.low ELSE b.high, "sl_hit")
    ELSE IF Tp2Hit(p, b) THEN ClosedAt(p, p.tp2, "tp2_hit")
    ELSE IF Tp1Hit(p, b) /\ ~p.tp1Hit THEN AfterTp1(p)
    ELSE p

\* on_bar_update for one position: what it is after the bar of hour h.
AfterBar(p, b, h) ==
    CASE SlHit(p, b) /\ (Tp1Hit(p, b) \/ Tp2Hit(p, b)) ->
            ClosedAt(p, p.sl, "sl_hit_intrabar_collision")
      [] SlHit(p, b) /\ ~(Tp1Hit(p, b) \/ Tp2Hit(p, b)) -> ClosedAt(p, p.sl, "sl_hit")
      [] ~SlHit(p, b) /\ Tp2Hit(p, b) -> ClosedAt(p, p.tp2, "tp2_hit")
      [] ~SlHit(p, b) /\ ~Tp2Hit(p, b) /\ Tp1Hit(p, b) /\ ~p.tp1Hit -> AfterTp1(p)
      [] OTHER -> IF h - p.opened >= MaxHold THEN ClosedAt(p, b.close, "timestop") ELSE p

-----------------------------------------------------------------------------

Init ==
    /\ hour = 0
    /\ processed = [s \in Symbols |-> -1]
    /\ used = {}
    /\ open = {}
    /\ closed = {}
    /\ pos = [t \in Trades |-> Unborn]
    /\ equity = StartEquity
    /\ limit \in Limits
    /\ rows = {}
    /\ row = [t \in Trades |-> Persisted(Unborn, "closed")]

HourPasses ==
    /\ hour < MaxHour
    /\ hour' = hour + 1
    /\ UNCHANGED <<processed, used, limit, memory, table>>

Of(s) == {t \in open : pos[t].sym = s}

\* Variants for mutation: the symbol is not looked at, or one too many.
MayEnterAnySymbol(s, held) == Cardinality(held) < limit

MayEnterOneMore(s, held) ==
    /\ Cardinality(held) <= limit
    /\ \A t \in held : pos[t].sym # s

\* execute_plan refuses a full account and a second position of a symbol.
MayEnter(s, held) ==
    /\ Cardinality(held) < limit
    /\ \A t \in held : pos[t].sym # s

\* The effective fill: the close with slippage, rounded half up to a tick.
Fill(close, dir) == (2 * close * (PriceScale + dir * Slip) + PriceScale) \div (2 * PriceScale)

NewPosition(s, plan) ==
    [sym |-> s, dir |-> plan.dir, entry |-> plan.entry, sl |-> plan.sl,
     initialSl |-> plan.sl, tp1 |-> plan.tp1, tp2 |-> plan.tp2,
     qty |-> plan.qty, initialQty |-> plan.qty,
     opened |-> hour, tp1Hit |-> FALSE, realized |-> 0,
     fees |-> plan.qty * plan.entry * PriceScale * TakerFee, reason |-> "none"]

(* One closed bar of a symbol: on_bar_update, then the entry, if the score *)
(* asks for one and the account allows it; enter is {} or one fresh id.    *)
ProcessBar(s, b, enter, plan) ==
    LET after  == [t \in Of(s) |-> AfterBar(pos[t], b, hour)]
        gone   == {t \in Of(s) : after[t].reason # "none"}
        held   == open \ gone
    IN
    /\ processed[s] < hour
    /\ processed' = [processed EXCEPT ![s] = hour]
    /\ enter \cap used = {}
    /\ enter # {} => MayEnter(s, held) /\ plan.entry = Fill(b.close, plan.dir)
    /\ used' = used \cup enter
    /\ pos' = [t \in Trades |-> IF t \in Of(s) THEN after[t]
                                ELSE IF t \in enter THEN NewPosition(s, plan) ELSE pos[t]]
    /\ open' = held \cup enter
    /\ closed' = closed \cup gone
    /\ equity' = equity
                 + (RealizedOf(Of(s), after) - RealizedOf(Of(s), pos))
                 - SumFunction([t \in enter |-> NewPosition(s, plan).fees])
    /\ rows' = rows \cup Of(s) \cup enter
    /\ row' = [t \in Trades |->
                 IF t \in Of(s) \cup enter
                 THEN Persisted(pos'[t], IF t \in gone THEN "closed" ELSE "open") ELSE row[t]]
    /\ UNCHANGED <<hour, limit>>

\* Variant for mutation: a manual close is booked without its fee.
ManualCloseGross(t, reason) ==
    /\ t \in open
    /\ pos' = [pos EXCEPT ![t] = ClosedAt(@, pos[t].entry, reason)]
    /\ open' = open \ {t}
    /\ closed' = closed \cup {t}
    /\ UNCHANGED <<equity, hour, processed, used, limit>>
    /\ rows' = rows \cup {t}
    /\ row' = [row EXCEPT ![t] = Persisted(pos'[t], "closed")]

(* _apply_close_trade_command: the rest is sold at the entry price. *)
ManualClose(t, reason) ==
    /\ t \in open
    /\ pos' = [pos EXCEPT ![t] = ClosedAt(@, pos[t].entry, reason)]
    /\ open' = open \ {t}
    /\ closed' = closed \cup {t}
    /\ equity' = equity + NetOf(pos[t], pos[t].qty, pos[t].entry, IsTaker(reason))
    /\ rows' = rows \cup {t}
    /\ row' = [row EXCEPT ![t] = Persisted(pos'[t], "closed")]
    /\ UNCHANGED <<hour, processed, used, limit>>

(* _apply_reset_account_command *)
ResetAccount ==
    /\ rows' = {}
    /\ open' = {}
    /\ closed' = {}
    /\ equity' = StartEquity
    /\ UNCHANGED <<hour, processed, used, limit, pos, row>>

(* POST /history/clear, by the API process: the worker's memory stays. *)
ClearHistory ==
    /\ MayClear
    /\ \E t \in rows : row[t].status = "closed"
    /\ rows' = {t \in rows : row[t].status = "open"}
    /\ UNCHANGED <<hour, processed, used, limit, memory, row>>

(* A set_config command: the limit may fall below what is held. *)
SetLimit(n) ==
    /\ limit' = n
    /\ UNCHANGED <<hour, processed, used, memory, table>>

LoadedPositions == [t \in Trades |-> IF t \in rows THEN Loaded(row[t]) ELSE Unborn]

\* Variant for mutation: the status is not looked at.
RestartAllOpen ==
    /\ open' = rows
    /\ closed' = {}
    /\ pos' = LoadedPositions
    /\ equity' = LedgerEquity(rows, LoadedPositions)
    /\ limit' \in Limits
    /\ UNCHANGED <<hour, processed, used, table>>

(* A new worker process, with the limit of its arguments or of the active *)
(* revision.                                                              *)
Restart ==
    /\ open' = {t \in rows : row[t].status = "open"}
    /\ closed' = {t \in rows : row[t].status = "closed"}
    /\ pos' = LoadedPositions
    /\ equity' = LedgerEquity(rows, LoadedPositions)
    /\ limit' \in Limits
    /\ UNCHANGED <<hour, processed, used, table>>

Next ==
    \/ HourPasses
    \/ \E s \in Symbols, b \in Bars :
          \/ ProcessBar(s, b, {}, CHOOSE p \in Plans : TRUE)
          \/ \E t \in Trades, p \in Plans : ProcessBar(s, b, {t}, p)
    \/ \E t \in Trades, reason \in Reasons : ManualClose(t, reason)
    \/ ResetAccount
    \/ ClearHistory
    \/ \E n \in Limits : SetLimit(n)
    \/ Restart

Spec == Init /\ [][Next]_vars

-----------------------------------------------------------------------------
(* Properties *)

(* Memory and table hold positions and rows of the types the code gives them. *)
TypeOK ==
    /\ hour \in Nat
    /\ processed \in [Symbols -> Int]
    /\ used \subseteq Trades /\ open \subseteq used /\ closed \subseteq used
    /\ pos \in [Trades -> Position]
    /\ equity \in Int
    /\ limit \in Limits
    /\ rows \subseteq used
    /\ row \in [Trades -> Row]

(* The equity is the starting equity minus every entry fee plus every       *)
(* realized net result (Q-01): partial exits, manual closes, resets and     *)
(* restarts neither lose nor repeat an amount.                              *)
EquityExact == equity = LedgerEquity(open \cup closed, pos)

\* A position with the quantity it was entered with.  Every row of a closed
\* trade is loaded like this, also where one half was sold before the rest.
Whole(p) == [p EXCEPT !.qty = p.initialQty]

(* What a new process would load is what this one has: every open position  *)
(* with its stop and the quantity that is left, every closed one (unless    *)
(* the history was cleared) with its result and fees, but not with its last *)
(* quantity, of which the table is not asked.                               *)
ReloadFaithful ==
    /\ open \subseteq rows /\ rows \subseteq open \cup closed
    /\ \A t \in rows : row[t].status = "open" <=> t \in open
    /\ \A t \in open : Loaded(row[t]) = pos[t]
    /\ \A t \in rows \ open : Loaded(row[t]) = Whole(pos[t])

(* Whatever is sold in the same bar, closed by hand, reset, cleared or      *)
(* loaded again: the account takes a position only within the limit it has  *)
(* then, which may have been lowered beneath what it holds, and never a     *)
(* second one of a symbol.                                                  *)
Exposure ==
    [][\A t \in open' \ open :
         /\ Cardinality(open') <= limit
         /\ \A u \in open' : pos'[u].sym = pos'[t].sym => u = t]_vars

(* A position sells one half at most once; with it, and only with it, the   *)
(* stop moves, and it moves to the entry price.  What is left of an open    *)
(* position is what the sale left; a closed one shows it, or again all of   *)
(* it, once a process has loaded it from the table.                         *)
PositionShape ==
    \A t \in open \cup closed :
        /\ \/ 2 * pos[t].qty = IF pos[t].tp1Hit THEN pos[t].initialQty ELSE 2 * pos[t].initialQty
           \/ t \in closed /\ pos[t].qty = pos[t].initialQty
        /\ pos[t].sl = IF pos[t].tp1Hit THEN pos[t].entry ELSE pos[t].initialSl
        /\ t \in open <=> pos[t].reason = "none"

(* What is closed stays closed, with the result it was closed with, until   *)
(* the account is reset.  Only the quantity of a trade closed after its TP1 *)
(* is no longer the same once a process has loaded it.                      *)
ClosedIsFinal ==
    [][\A t \in closed :
         /\ t \notin open'
         /\ t \in closed' => pos'[t] \in {pos[t], Whole(pos[t])}]_vars

(* No trade loses more than its initial stop, sold with slippage and taker  *)
(* fee, would have cost: not by a target, a time stop, a collision within   *)
(* one bar, a manual close or a restart in between.                         *)
WorstCaseIsStop ==
    \A t \in closed :
        pos[t].realized >= NetOf(pos[t], pos[t].initialQty, pos[t].initialSl, TRUE)

(* A restart does not change the equity (routes.py:635 says clearing the    *)
(* history touches no state of the engine).                                 *)
RestartKeepsEquity == equity = LedgerEquity(rows, LoadedPositions)

=============================================================================
