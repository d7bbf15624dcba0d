------------------------------ MODULE Backtest ------------------------------
(***************************************************************************)
(* The backtest simulator (BacktestSimulator.run in backtest/engine.py):   *)
(* bar by bar, the open trade is checked for stop, targets and time stop,  *)
(* then a trade may be entered at the open of the bar on the signal of the *)
(* bar before.  The result is reconciled as in reconcile_accounting        *)
(* (core/stats.py).                                                        *)
(*                                                                         *)
(* Levels are integers in a grain of price, exit prices in 1/Scale of it   *)
(* and money in 1/(Scale * FeeScale), so that the arithmetic is exact.     *)
(***************************************************************************)
EXTENDS Integers, Sequences, Functions

CONSTANTS
    Candles,           \* [open, high, low, close], in grains / EntryGrain
    EntryGrain,        \* grains of a price of a candle
    Distances,         \* prev_atr * 1.5, in grains
    FloorDiv,          \* 1 / 0.005: the stop is at least entry / FloorDiv away
    Sizes,             \* quantities size_position may return, 0 for none
    HoldBars,          \* config.max_hold_bars
    StartMoney,        \* config.starting_equity
    Scale, SlipPart,   \* config.slippage_bps: SlipPart of Scale
    FeeScale, Taker, Maker,
    MaxBars,           \* bound on the bars after the warmup
    NoneActive           \* no active trade

ASSUME BacktestAssumption ==
    /\ Candles \subseteq [open : Nat, high : Nat, low : Nat, close : Nat]
    /\ \A c \in Candles :
          /\ c.low <= c.open /\ c.low <= c.close
          /\ c.open <= c.high /\ c.close <= c.high /\ c.open > 0
    /\ EntryGrain \in Nat \ {0} /\ FloorDiv \in Nat \ {0}
    /\ EntryGrain % (2 * FloorDiv * Scale) = 0
    /\ \A d \in Distances : d \in Nat \ {0} /\ d % 2 = 0
    /\ \A q \in Sizes : q \in Nat /\ q % 2 = 0
    /\ HoldBars \in Nat \ {0} /\ StartMoney \in Nat
    /\ Scale \in Nat \ {0} /\ SlipPart \in 0..(Scale - 1)
    /\ FeeScale \in Nat \ {0} /\ Taker \in 0..FeeScale /\ Maker \in 0..FeeScale
    /\ MaxBars \in Nat

\* A half that is sold at the first target, 1.5 times the least distance of the
\* stop away, brings more than its fee: at 200 and 0.0002, by a wide margin.
ASSUME FeesBelowTargets == 3 * (FeeScale - Maker) > 2 * FloorDiv * Maker

VARIABLES
    bar,       \* i, counted from the end of the warmup
    active,    \* active_trade, or NoneActive
    done,      \* trades
    money      \* equity

btVars == <<bar, active, done, money>>

ExitReasons == {"sl_hit_collision", "sl_hit", "tp2_hit", "timestop"}

Trade ==
    [dir : {-1, 1}, entry : Nat, dist : Nat, sl : Int, tp1 : Int, tp2 : Int,
     qty : Nat, initQty : Nat, entryBar : Nat, tp1Hit : BOOLEAN, tp1Pnl : Int, fees : Int]

ASSUME NoneIsNoTrade == NoneActive \notin Trade

Closed == [outcome : {"win", "loss"}, reason : ExitReasons, gross : Int, fees : Int,
           realized : Int, entryFee : Int, tp1Fee : Int, exitBar : Nat]

-----------------------------------------------------------------------------
(* The prices of a candle in grains. *)

High(c)  == c.high * EntryGrain
Low(c)   == c.low * EntryGrain
Close(c) == c.close * EntryGrain

SlHit(t, c)  == IF t.dir = 1 THEN Low(c) <= t.sl ELSE High(c) >= t.sl
Tp1Hit(t, c) == IF t.dir = 1 THEN High(c) >= t.tp1 ELSE Low(c) <= t.tp1
Tp2Hit(t, c) == IF t.dir = 1 THEN High(c) >= t.tp2 ELSE Low(c) <= t.tp2

\* The exit price: with slippage at stops, as it is at targets.
ExitPrice(t, level, slips) == level * (IF slips THEN Scale - t.dir * SlipPart ELSE Scale)

Gross(t, qty, price) == (price - t.entry * Scale) * t.dir * qty * FeeScale

ExitFee(qty, price, rate) == qty * price * rate

\* An exit of the rest: what equity gains, and the trade that is listed.
Exit(t, level, reason) ==
    LET stop  == reason # "tp2_hit"
        price == ExitPrice(t, level, stop)
        gross == Gross(t, t.qty, price)
        fee   == ExitFee(t.qty, price, IF stop THEN Taker ELSE Maker)
        net   == gross - fee + t.tp1Pnl
        tp1   == IF t.tp1Hit THEN ExitFee(t.initQty - t.qty, t.tp1 * Scale, Maker) ELSE 0
    IN  [gain |-> gross - fee,
         trade |-> [outcome |-> IF net > 0 \/ reason = "tp2_hit" THEN "win" ELSE "loss",
                    reason |-> reason, gross |-> gross + t.tp1Pnl, fees |-> t.fees + fee,
                    realized |-> net, entryFee |-> t.fees - tp1, tp1Fee |-> tp1,
                    exitBar |-> bar]]

\* Variant for mutation: the fee of the half is not added to those of the trade.
HalfSoldFeeless(t) ==
    LET half == t.qty \div 2
        net  == Gross(t, half, t.tp1 * Scale) - ExitFee(half, t.tp1 * Scale, Maker)
    IN  [gain |-> net,
         trade |-> [dir |-> t.dir, entry |-> t.entry, dist |-> t.dist, sl |-> t.entry,
                    tp1 |-> t.tp1, tp2 |-> t.tp2, qty |-> t.qty - half,
                    initQty |-> t.initQty, entryBar |-> t.entryBar, tp1Hit |-> TRUE,
                    tp1Pnl |-> net, fees |-> t.fees]]

\* Half is sold at the first target and the stop moves to the entry.
HalfSold(t) ==
    LET half == t.qty \div 2
        fee  == ExitFee(half, t.tp1 * Scale, Maker)
        net  == Gross(t, half, t.tp1 * Scale) - fee
    IN  [gain |-> net,
         trade |-> [dir |-> t.dir, entry |-> t.entry, dist |-> t.dist, sl |-> t.entry,
                    tp1 |-> t.tp1, tp2 |-> t.tp2, qty |-> t.qty - half,
                    initQty |-> t.initQty, entryBar |-> t.entryBar, tp1Hit |-> TRUE,
                    tp1Pnl |-> net, fees |-> t.fees + fee]]

\* Variant for mutation: the target comes first when a bar touches both.
ReasonOptimistic(t, c) ==
    IF Tp2Hit(t, c) THEN {"tp2_hit"}
    ELSE IF SlHit(t, c) THEN {"sl_hit"}
    ELSE IF ~(Tp1Hit(t, c) /\ ~t.tp1Hit) /\ bar - t.entryBar >= HoldBars THEN {"timestop"}
    ELSE {}

\* The reason to leave a trade at this bar, if there is one.
ReasonToLeave(t, c) ==
    IF SlHit(t, c) THEN
        IF Tp1Hit(t, c) \/ Tp2Hit(t, c) THEN {"sl_hit_collision"} ELSE {"sl_hit"}
    ELSE IF Tp2Hit(t, c) THEN {"tp2_hit"}
    ELSE IF ~(Tp1Hit(t, c) /\ ~t.tp1Hit) /\ bar - t.entryBar >= HoldBars THEN {"timestop"}
    ELSE {}

LevelOf(t, c, reason) ==
    CASE reason = "tp2_hit"  -> t.tp2
      [] reason = "timestop" -> Close(c)
      [] OTHER               -> t.sl

\* Variant for mutation: the profit of the first target is left to the exit.
CheckedLate(c) ==
    IF active = NoneActive THEN [active |-> NoneActive, done |-> done, money |-> money]
    ELSE IF ReasonToLeave(active, c) # {} THEN
        LET reason == CHOOSE r \in ReasonToLeave(active, c) : TRUE
            exit == Exit(active, LevelOf(active, c, reason), reason)
        IN  [active |-> NoneActive, done |-> Append(done, exit.trade), money |-> money + exit.gain]
    ELSE IF Tp1Hit(active, c) /\ ~active.tp1Hit THEN
        [active |-> HalfSold(active).trade, done |-> done, money |-> money]
    ELSE [active |-> active, done |-> done, money |-> money]

\* The open trade against the bar: active trade, list and equity after it.
Checked(c) ==
    IF active = NoneActive THEN [active |-> NoneActive, done |-> done, money |-> money]
    ELSE IF ReasonToLeave(active, c) # {} THEN
        LET reason == CHOOSE r \in ReasonToLeave(active, c) : TRUE
            exit == Exit(active, LevelOf(active, c, reason), reason)
        IN  [active |-> NoneActive, done |-> Append(done, exit.trade), money |-> money + exit.gain]
    ELSE IF Tp1Hit(active, c) /\ ~active.tp1Hit THEN
        [active |-> HalfSold(active).trade, done |-> done,
         money |-> money + HalfSold(active).gain]
    ELSE [active |-> active, done |-> done, money |-> money]

\* Variant for mutation: the stop follows the volatility alone.
StopDistanceBare(entry, d) == d

StopDistance(entry, d) == IF d * FloorDiv >= entry THEN d ELSE entry \div FloorDiv

\* An entry at the open of the bar, with slippage.
Entered(c, dir, d, qty) ==
    LET entry == (c.open * EntryGrain * (Scale + dir * SlipPart)) \div Scale
        dist  == StopDistance(entry, d)
    IN  [dir |-> dir, entry |-> entry, dist |-> dist, sl |-> entry - dist * dir,
         tp1 |-> entry + (3 * dist * dir) \div 2, tp2 |-> entry + 3 * dist * dir,
         qty |-> qty, initQty |-> qty, entryBar |-> bar, tp1Hit |-> FALSE, tp1Pnl |-> 0,
         fees |-> ExitFee(qty, entry * Scale, Taker)]

BtInit == bar = 0 /\ active = NoneActive /\ done = <<>> /\ money = StartMoney

(* A bar without an entry: no signal, no size, or a trade is open. *)
BarPasses(c) ==
    /\ bar <= MaxBars
    /\ bar' = bar + 1
    /\ active' = Checked(c).active /\ done' = Checked(c).done /\ money' = Checked(c).money

(* A bar with an entry, also when a trade was closed at the same bar; the   *)
(* first bar after the warmup has no signal.                                *)
BarEnters(c, dir, d, qty) ==
    /\ bar <= MaxBars /\ bar > 0
    /\ Checked(c).active = NoneActive /\ qty > 0
    /\ bar' = bar + 1
    /\ active' = Entered(c, dir, d, qty)
    /\ done' = Checked(c).done
    /\ money' = Checked(c).money - Entered(c, dir, d, qty).fees

\* The result is returned.
BtDone == bar > 0 /\ bar' = 0 /\ active' = NoneActive /\ done' = <<>> /\ money' = StartMoney

BtNext ==
    \/ \E c \in Candles :
          \/ BarPasses(c)
          \/ \E dir \in {-1, 1}, d \in Distances, qty \in Sizes : BarEnters(c, dir, d, qty)
    \/ BtDone

BtSpec == BtInit /\ [][BtNext]_btVars

-----------------------------------------------------------------------------
(* Properties *)

(* Trades hold the fields of the simulator. *)
BtTypeOK ==
    /\ bar \in Nat
    /\ active \in Trade \cup {NoneActive}
    /\ done \in Seq(Closed)
    /\ money \in Int

\* The entry fee of a trade whose fees may include that of the first target.
EntryFee(t) ==
    t.fees - (IF t.tp1Hit THEN ExitFee(t.initQty - t.qty, t.tp1 * Scale, Maker) ELSE 0)

Total(Amount(_)) == SumFunction([i \in 1..Len(done) |-> Amount(done[i])])

(* Equity is kept up to date by every partial step of every trade; it is    *)
(* the starting equity, the net results of the listed trades and what the   *)
(* open trade has brought so far, minus every entry fee                     *)
(* (engine.py:98-236).                                                      *)
MoneyIsLedger ==
    money = StartMoney
            + Total(LAMBDA t : t.realized - t.entryFee)
            + (IF active = NoneActive THEN 0 ELSE active.tp1Pnl - EntryFee(active))

\* reconcile_accounting over the listed trades, none of which is open.
Reconciled ==
    StartMoney + Total(LAMBDA t : t.gross) - Total(LAMBDA t : t.fees)

(* The reconciliation of a finished backtest falls short of its equity by   *)
(* exactly the fees of the first targets: they are in the gross result of   *)
(* a trade, which has the net profit of its first half, and in its fees     *)
(* (engine.py:107 and stats.py:297-312).                                    *)
ReconciledButForTp1Fees ==
    active = NoneActive => money = Reconciled + Total(LAMBDA t : t.tp1Fee)

(* The name of an outcome agrees with its sign, which is what the           *)
(* statistics count: a trade that reached its second target is called a     *)
(* win without a look at its result, which the least distance of the stop   *)
(* keeps above the fees (engine.py:166, 226).                               *)
OutcomeIsSign ==
    \A i \in 1..Len(done) : done[i].outcome = "win" <=> done[i].realized > 0

(* The figures of a backtest fit together, but for those fees.              *)
MoneyAddsUp == MoneyIsLedger /\ ReconciledButForTp1Fees /\ OutcomeIsSign

\* The paper engine of module PaperEngine, of which AfterBar is used.
Paper == INSTANCE PaperEngine WITH
    Trades <- {}, Symbols <- {"symbol"}, Plans <- {}, Bars <- {}, Reasons <- {},
    Limits <- {1}, limit <- 1, MaxHold <- HoldBars, StartEquity <- StartMoney,
    PriceScale <- Scale, Slip <- SlipPart, TakerFee <- Taker, MakerFee <- Maker,
    MayClear <- FALSE, MaxHour <- MaxBars,
    hour <- bar, processed <- <<>>, used <- {}, open <- {}, closed <- {}, pos <- <<>>,
    equity <- money, rows <- {}, row <- <<>>

\* The open trade as a position of the paper engine, with the same fill: the
\* worker fills at the close of the signal's bar and stores that bar's time, the
\* simulator fills at the open of the next bar and stores the next bar.
AsPosition(t) ==
    [sym |-> "symbol", dir |-> t.dir, entry |-> t.entry, sl |-> t.sl,
     initialSl |-> t.entry - t.dist * t.dir, tp1 |-> t.tp1, tp2 |-> t.tp2,
     qty |-> t.qty, initialQty |-> t.initQty, opened |-> t.entryBar - 1,
     tp1Hit |-> t.tp1Hit, realized |-> t.tp1Pnl, fees |-> t.fees, reason |-> "none"]

\* The reasons by their names in the paper engine.
PaperReason(reason) ==
    IF reason = "sl_hit_collision" THEN "sl_hit_intrabar_collision" ELSE reason

(* What is backtested is what trades, but for one bar of holding: the same  *)
(* trade against the same bar leaves both engines with the same reason, net *)
(* result, fees, stop and quantity, except that the time stop of the paper  *)
(* engine comes one bar before the simulator's, because the two date the    *)
(* same fill one bar apart (engine.py:98-211, 251; paper_engine.py:569-783; *)
(* worker.py:850).  That the simulator never judges the bar of the entry,   *)
(* which the paper engine does, is no part of it.                           *)
SameExits ==
    active # NoneActive => \A c \in Candles :
        LET paper == Paper!AfterBar(AsPosition(active),
                         [high |-> High(c), low |-> Low(c), close |-> Close(c)], bar)
            mine  == Checked(c)
            last  == mine.done[Len(mine.done)]
            early == mine.active = active /\ bar - active.entryBar = HoldBars - 1
        IN  IF mine.active = NoneActive
            THEN /\ paper.reason = PaperReason(last.reason)
                 /\ paper.realized = last.realized /\ paper.fees = last.fees
            ELSE IF early
            THEN paper.reason = "timestop"
            ELSE paper = AsPosition(mine.active)

=============================================================================
