-------------------------- MODULE PaperEngineProofs --------------------------
(***************************************************************************)
(* The life of a position, for any set of plans, bars and trades: a trade  *)
(* keeps its shape through partial exits, the account stays within its     *)
(* limits, a new process loads what the old one had, what is closed stays  *)
(* closed, no trade loses more than its stop, and the equity is the sum of *)
(* all amounts that were booked.                                           *)
(***************************************************************************)
EXTENDS PaperEngine, DataInduction, FiniteSetTheorems, TLAPS

\* What exits and loads rely on in every position that was entered.
Sound(p) ==
    /\ p.entry > 0 /\ p.initialQty % 2 = 0
    /\ 2 * p.qty = IF p.tp1Hit THEN p.initialQty ELSE 2 * p.initialQty
    /\ p.sl = IF p.tp1Hit THEN p.entry ELSE p.initialSl

\* What a closed position is: one that was sound, or that one loaded again.
SoundOnceClosed(p) ==
    /\ p.entry > 0
    /\ \/ 2 * p.qty = IF p.tp1Hit THEN p.initialQty ELSE 2 * p.initialQty
       \/ p.qty = p.initialQty
    /\ p.sl = IF p.tp1Hit THEN p.entry ELSE p.initialSl

Types ==
    /\ hour \in Nat
    /\ used \subseteq Trades /\ open \subseteq used /\ closed \subseteq used /\ rows \subseteq used
    /\ IsFiniteSet(open) /\ limit \in Limits
    /\ pos \in [Trades -> Position]
    /\ row \in [Trades -> Row]

Positions ==
    /\ \A t \in open : Sound(pos[t])
    /\ \A t \in closed : SoundOnceClosed(pos[t])
    /\ \A t \in open \cup closed : t \in open <=> pos[t].reason = "none"

OnePerSymbol ==
    /\ \A t, u \in open : pos[t].sym = pos[u].sym => t = u
    /\ open \cap closed = {}

IInv == Types /\ Positions /\ ReloadFaithful /\ OnePerSymbol

-----------------------------------------------------------------------------
(* Positions and rows. *)

(* The changed fields of a position are those With names. *)
LEMMA WithType ==
    ASSUME NEW p \in Position, NEW sl \in Nat, NEW qty \in Nat, NEW hit \in BOOLEAN,
           NEW realized \in Int, NEW fees \in Int, NEW reason \in AllReasons \cup {"none"}
    PROVE  With(p, sl, qty, hit, realized, fees, reason) \in Position
BY DEF With, Position

(* A position is determined by its fields. *)
LEMMA WithSame ==
    ASSUME NEW p \in Position
    PROVE  p = With(p, p.sl, p.qty, p.tp1Hit, p.realized, p.fees, p.reason)
BY DEF With, Position

(* Amounts of money are integers, and fees are not negative. *)
LEMMA Amounts ==
    ASSUME NEW p \in Position, NEW qty \in Nat, NEW price \in Nat, NEW taker \in BOOLEAN
    PROVE  NetOf(p, qty, price, taker) \in Int /\ FeeOf(p, qty, price, taker) \in Nat
<1> DEFINE final == IF taker THEN price * (PriceScale - p.dir * Slip) ELSE price * PriceScale
           fee == IF taker THEN TakerFee ELSE MakerFee
<1>1. p.dir \in {-1, 1} /\ p.entry \in Nat
  BY DEF Position
<1>2. /\ PriceScale \in Nat /\ Slip \in 0..PriceScale
      /\ FeeScale \in Nat /\ TakerFee \in Nat /\ MakerFee \in Nat
  BY EngineAssumption
<1>3. PriceScale - p.dir * Slip \in Nat
  BY <1>1, <1>2
<1>4. final \in Nat /\ fee \in Nat
  BY <1>2, <1>3, Z3
<1> HIDE DEF final, fee
<1>5. final * qty * fee \in Nat
  BY <1>4, Z3
<1>6. (final - p.entry * PriceScale) * p.dir * qty * FeeScale \in Int
  BY <1>1, <1>2, <1>4, Z3
<1>7. /\ FeeOf(p, qty, price, taker) = final * qty * fee
      /\ NetOf(p, qty, price, taker) =
            (final - p.entry * PriceScale) * p.dir * qty * FeeScale - final * qty * fee
  BY DEF FeeOf, NetOf, final, fee
<1> QED
  BY <1>5, <1>6, <1>7

(* A full exit keeps everything but result, fees and reason. *)
LEMMA CloseSound ==
    ASSUME NEW p \in Position, Sound(p), NEW price \in Nat, NEW reason \in AllReasons
    PROVE  LET q == ClosedAt(p, price, reason) IN
           q \in Position /\ Sound(q) /\ q.reason = reason /\ q.sym = p.sym
<1>1. IsTaker(reason) \in BOOLEAN
  BY DEF IsTaker
<1>2. /\ p.qty \in Nat /\ p.sl \in Nat /\ p.tp1Hit \in BOOLEAN
      /\ p.realized \in Int /\ p.fees \in Int
  BY DEF Position
<1>3. /\ p.realized + NetOf(p, p.qty, price, IsTaker(reason)) \in Int
      /\ p.fees + FeeOf(p, p.qty, price, IsTaker(reason)) \in Int
  <2>1. /\ NetOf(p, p.qty, price, IsTaker(reason)) \in Int
        /\ FeeOf(p, p.qty, price, IsTaker(reason)) \in Nat
    BY <1>1, <1>2, Amounts, Zenon
  <2> QED
    BY <1>2, <2>1
<1>4. ClosedAt(p, price, reason) \in Position
  BY <1>2, <1>3, WithType DEF ClosedAt
<1>5. Sound(ClosedAt(p, price, reason))
  BY DEF ClosedAt, With, Sound
<1>6. ClosedAt(p, price, reason).reason = reason /\ ClosedAt(p, price, reason).sym = p.sym
  BY DEF ClosedAt, With
<1> QED
  BY <1>4, <1>5, <1>6

(* The partial exit leaves one half, with the stop at the entry. *)
LEMMA Tp1Sound ==
    ASSUME NEW p \in Position, Sound(p), p.tp1Hit = FALSE
    PROVE  LET q == AfterTp1(p) IN
           q \in Position /\ Sound(q) /\ q.reason = p.reason /\ q.sym = p.sym
<1> DEFINE half == p.qty \div 2
<1>1. /\ p.qty \in Nat /\ p.tp1 \in Nat /\ p.entry \in Nat /\ p.initialQty \in Nat
      /\ p.realized \in Int /\ p.fees \in Int /\ p.reason \in AllReasons \cup {"none"}
  BY DEF Position
<1>2. p.qty = p.initialQty /\ p.qty % 2 = 0
  BY <1>1 DEF Sound
<1>3. half \in Nat /\ p.qty = 2 * half
  BY <1>1, <1>2
<1> HIDE DEF half
<1> DEFINE net == NetOf(p, half, p.tp1, FALSE)
           fee == FeeOf(p, half, p.tp1, FALSE)
           q == AfterTp1(p)
<1>4. net \in Int /\ fee \in Nat
  <2>1. FALSE \in BOOLEAN
    OBVIOUS
  <2> QED
    BY <1>1, <1>3, <2>1, Amounts, Zenon
<1>5. q = [sym |-> p.sym, dir |-> p.dir, entry |-> p.entry, sl |-> p.entry,
           initialSl |-> p.initialSl, tp1 |-> p.tp1, tp2 |-> p.tp2, qty |-> p.qty - half,
           initialQty |-> p.initialQty, opened |-> p.opened, tp1Hit |-> TRUE,
           realized |-> p.realized + net, fees |-> p.fees + fee, reason |-> p.reason]
  BY DEF AfterTp1, With, half
<1> HIDE DEF net, fee, q
<1>6. q \in Position
  BY <1>1, <1>3, <1>4, <1>5 DEF Position
<1>7. Sound(q)
  <2>1. q.entry = p.entry /\ q.sl = p.entry /\ q.qty = p.qty - half /\ q.initialQty = p.initialQty
    BY <1>5
  <2>2. q.tp1Hit
    BY <1>5
  <2>3. p.entry > 0 /\ p.initialQty % 2 = 0 /\ 2 * (p.qty - half) = p.initialQty
    BY <1>1, <1>2, <1>3 DEF Sound
  <2> QED
    BY <2>1, <2>2, <2>3 DEF Sound
<1>8. q.reason = p.reason /\ q.sym = p.sym
  BY <1>5
<1> QED
  BY <1>6, <1>7, <1>8 DEF q

(* A bar leaves a sound position of the same symbol. *)
LEMMA BarSound ==
    ASSUME NEW p \in Position, Sound(p), NEW b \in Bars, NEW h \in Nat
    PROVE  LET q == AfterBar(p, b, h) IN q \in Position /\ Sound(q) /\ q.sym = p.sym
<1>1. /\ p.sl \in Nat /\ p.tp2 \in Nat /\ b.close \in Nat /\ p.tp1Hit \in BOOLEAN
  BY EngineAssumption DEF Position
<1>2. {"sl_hit_intrabar_collision", "sl_hit", "tp2_hit", "timestop"} \subseteq AllReasons
  BY DEF AllReasons, TargetReasons, StopReasons
<1>3. ClosedAt(p, p.sl, "sl_hit_intrabar_collision") \in Position
      /\ Sound(ClosedAt(p, p.sl, "sl_hit_intrabar_collision"))
      /\ ClosedAt(p, p.sl, "sl_hit_intrabar_collision").sym = p.sym
  BY <1>1, <1>2, CloseSound, ZenonT(40)
<1>4. ClosedAt(p, p.sl, "sl_hit") \in Position /\ Sound(ClosedAt(p, p.sl, "sl_hit"))
      /\ ClosedAt(p, p.sl, "sl_hit").sym = p.sym
  BY <1>1, <1>2, CloseSound, ZenonT(40)
<1>5. ClosedAt(p, p.tp2, "tp2_hit") \in Position /\ Sound(ClosedAt(p, p.tp2, "tp2_hit"))
      /\ ClosedAt(p, p.tp2, "tp2_hit").sym = p.sym
  BY <1>1, <1>2, CloseSound, ZenonT(40)
<1>6. ClosedAt(p, b.close, "timestop") \in Position /\ Sound(ClosedAt(p, b.close, "timestop"))
      /\ ClosedAt(p, b.close, "timestop").sym = p.sym
  BY <1>1, <1>2, CloseSound, ZenonT(40)
<1>7. p.tp1Hit = FALSE => AfterTp1(p) \in Position /\ Sound(AfterTp1(p)) /\ AfterTp1(p).sym = p.sym
  BY Tp1Sound
<1>8. AfterBar(p, b, h) \in
         {ClosedAt(p, p.sl, "sl_hit_intrabar_collision"), ClosedAt(p, p.sl, "sl_hit"),
          ClosedAt(p, p.tp2, "tp2_hit"), ClosedAt(p, b.close, "timestop"), p}
      \/ (p.tp1Hit = FALSE /\ AfterBar(p, b, h) = AfterTp1(p))
  <2>1. CASE SlHit(p, b)
    BY <2>1 DEF AfterBar
  <2>2. CASE ~SlHit(p, b)
    BY <1>1, <2>2 DEF AfterBar
  <2> QED
    BY <2>1, <2>2
<1> QED
  BY <1>3, <1>4, <1>5, <1>6, <1>7, <1>8

(* The row of an open position holds all of it, that of a closed one all   *)
(* but its last quantity.                                                   *)
LEMMA RowFaithful ==
    ASSUME NEW p \in Position, p.entry > 0, NEW status \in {"open", "closed"}
    PROVE  /\ Persisted(p, status) \in Row
           /\ Persisted(p, status).status = status
           /\ Loaded(Persisted(p, status)) = IF status = "open" THEN p ELSE Whole(p)
<1> DEFINE r == Persisted(p, status)
           k == With(p, p.sl, 0, p.tp1Hit, p.realized, p.fees, p.reason)
<1>1. /\ p.qty \in Nat /\ p.initialQty \in Nat /\ p.entry \in Nat \ {0}
      /\ p.sl \in Nat /\ p.tp1Hit \in BOOLEAN /\ p.realized \in Int /\ p.fees \in Int
      /\ p.reason \in AllReasons \cup {"none"}
  BY DEF Position
<1>2. k \in Position
  BY <1>1, WithType
<1>3. p.initialQty * p.entry \in Nat
  BY <1>1, Z3
<1>4. p.initialQty * p.entry * PriceScale * TakerFee \in Nat
  <2>1. PriceScale \in Nat /\ TakerFee \in Nat
    BY EngineAssumption
  <2> QED
    BY <1>3, <2>1, Z3
<1>5. r = [status |-> status, keys |-> k, notional |-> p.initialQty * p.entry,
           remaining |-> p.qty, entryFee |-> p.initialQty * p.entry * PriceScale * TakerFee]
  BY DEF Persisted
<1>6. r \in Row
  BY <1>1, <1>2, <1>3, <1>4, <1>5 DEF Row
<1>7. (p.initialQty * p.entry) \div p.entry = p.initialQty
  BY <1>1, Z3
<1>8. Loaded(r) = IF status = "open" THEN p ELSE Whole(p)
  <2>1. k = [sym |-> p.sym, dir |-> p.dir, entry |-> p.entry, sl |-> p.sl,
             initialSl |-> p.initialSl, tp1 |-> p.tp1, tp2 |-> p.tp2, qty |-> 0,
             initialQty |-> p.initialQty, opened |-> p.opened, tp1Hit |-> p.tp1Hit,
             realized |-> p.realized, fees |-> p.fees, reason |-> p.reason]
    BY DEF With
  <2>2. /\ r.status = status /\ r.keys = k /\ r.remaining = p.qty
        /\ r.notional \div r.keys.entry = p.initialQty
    BY <1>5, <1>7, <2>1
  <2> HIDE DEF k, r
  <2>3. [k EXCEPT !.qty = p.qty, !.initialQty = p.initialQty] = p
    <3>1. p = With(p, p.sl, p.qty, p.tp1Hit, p.realized, p.fees, p.reason)
      BY WithSame
    <3>2. [k EXCEPT !.qty = p.qty]
             = With(p, p.sl, p.qty, p.tp1Hit, p.realized, p.fees, p.reason)
      BY DEF With, k
    <3>3. [p EXCEPT !.initialQty = p.initialQty] = p
      BY DEF Position
    <3> QED
      BY <3>1, <3>2, <3>3
  <2>4. [k EXCEPT !.qty = p.initialQty, !.initialQty = p.initialQty] = Whole(p)
    <3>1. [k EXCEPT !.qty = p.initialQty, !.initialQty = p.initialQty]
             = [[k EXCEPT !.qty = p.qty, !.initialQty = p.initialQty] EXCEPT !.qty = p.initialQty]
      BY <2>1
    <3> QED
      BY <2>3, <3>1 DEF Whole
  <2>5. CASE status = "open"
    BY <2>2, <2>3, <2>5 DEF Loaded
  <2>6. CASE status # "open"
    BY <2>2, <2>4, <2>6 DEF Loaded
  <2> QED
    BY <2>5, <2>6
<1> QED
  BY <1>5, <1>6, <1>8

(* Loading a closed position changes nothing it is judged by. *)
LEMMA WholeFacts ==
    ASSUME NEW p \in Position
    PROVE  LET q == Whole(p) IN
           /\ q \in Position /\ Whole(q) = q
           /\ q.sym = p.sym /\ q.reason = p.reason /\ q.realized = p.realized
           /\ q.initialQty = p.initialQty /\ q.entry = p.entry /\ q.initialSl = p.initialSl
           /\ q.dir = p.dir
           /\ SoundOnceClosed(p) => SoundOnceClosed(q)
<1>1. Whole(p) \in Position /\ Whole(Whole(p)) = Whole(p)
  BY DEF Whole, Position
<1>2. /\ Whole(p).sym = p.sym /\ Whole(p).reason = p.reason /\ Whole(p).realized = p.realized
      /\ Whole(p).initialQty = p.initialQty /\ Whole(p).entry = p.entry
      /\ Whole(p).initialSl = p.initialSl /\ Whole(p).dir = p.dir
      /\ Whole(p).tp1Hit = p.tp1Hit /\ Whole(p).sl = p.sl /\ Whole(p).qty = p.initialQty
  BY DEF Whole, Position
<1>3. SoundOnceClosed(p) => SoundOnceClosed(Whole(p))
  BY <1>2 DEF SoundOnceClosed
<1> QED
  BY <1>1, <1>2, <1>3

-----------------------------------------------------------------------------
(* Every action preserves the invariant. *)

(* The initial account is empty. *)
LEMMA InitIInv == Init => IInv
<1> SUFFICES ASSUME Init PROVE IInv
  OBVIOUS
<1>1. Unborn \in Position
  <2>1. (CHOOSE s \in Symbols : TRUE) \in Symbols
    BY EngineAssumption
  <2> QED
    BY <2>1 DEF Unborn, Position
<1>2. Persisted(Unborn, "closed") \in Row
  <2>1. With(Unborn, Unborn.sl, 0, Unborn.tp1Hit, Unborn.realized, Unborn.fees, Unborn.reason)
           \in Position
    <3>1. /\ Unborn.sl \in Nat /\ Unborn.tp1Hit \in BOOLEAN /\ Unborn.realized \in Int
          /\ Unborn.fees \in Int /\ Unborn.reason \in AllReasons \cup {"none"} /\ 0 \in Nat
      BY <1>1 DEF Position
    <3> QED
      BY <1>1, <3>1, WithType, Zenon
  <2>2. Unborn.initialQty * Unborn.entry = 0 /\ Unborn.qty = 0
    BY DEF Unborn
  <2>3. 0 * PriceScale * TakerFee = 0
    BY EngineAssumption, Z3
  <2> QED
    BY <2>1, <2>2, <2>3 DEF Persisted, Row
<1>3. Types
  BY <1>1, <1>2, FS_EmptySet DEF Init, Types
<1> QED
  BY <1>3 DEF Init, IInv, Positions, ReloadFaithful, OnePerSymbol

(* A new position is whole, open and has its first stop. *)
LEMMA EnterSound ==
    ASSUME IInv, NEW s \in Symbols, NEW plan \in Plans
    PROVE  LET q == NewPosition(s, plan) IN
           q \in Position /\ Sound(q) /\ q.sym = s /\ q.reason = "none"
<1> DEFINE q == NewPosition(s, plan)
<1>1. /\ plan \in Plan /\ plan.qty % 2 = 0 /\ plan.entry > 0
      /\ hour \in Nat /\ PriceScale \in Nat /\ TakerFee \in Nat
  BY EngineAssumption DEF ValidPlan, IInv, Types
<1>2. plan.qty * plan.entry * PriceScale * TakerFee \in Nat
  <2>1. plan.qty \in Nat /\ plan.entry \in Nat
    BY <1>1 DEF Plan
  <2> QED
    BY <1>1, <2>1, Z3
<1>3. q \in Position
  BY <1>1, <1>2 DEF NewPosition, Position, Plan
<1>4. Sound(q)
  BY <1>1 DEF NewPosition, Sound, Plan
<1> QED
  BY <1>3, <1>4 DEF NewPosition

(* What a closed bar does: exits of its symbol, then at most one entry. *)
LEMMA ProcessBarIInv ==
    ASSUME IInv, NEW s \in Symbols, NEW b \in Bars, NEW plan \in Plans,
           NEW enter \in SUBSET Trades, enter = {} \/ \E t \in Trades : enter = {t},
           ProcessBar(s, b, enter, plan)
    PROVE  IInv'
<1> DEFINE after == [t \in Of(s) |-> AfterBar(pos[t], b, hour)]
           gone  == {t \in Of(s) : after[t].reason # "none"}
           held  == open \ gone
           stat(t) == IF t \in gone THEN "closed" ELSE "open"
<1>1. /\ enter \cap used = {} /\ (enter # {} => MayEnter(s, held))
      /\ used' = used \cup enter
      /\ pos' = [t \in Trades |-> IF t \in Of(s) THEN after[t]
                                  ELSE IF t \in enter THEN NewPosition(s, plan) ELSE pos[t]]
      /\ open' = held \cup enter /\ closed' = closed \cup gone
      /\ rows' = rows \cup Of(s) \cup enter
      /\ row' = [t \in Trades |-> IF t \in Of(s) \cup enter THEN Persisted(pos'[t], stat(t))
                                  ELSE row[t]]
      /\ hour' = hour /\ limit' = limit
  BY DEF ProcessBar
<1>2. /\ hour \in Nat /\ used \subseteq Trades /\ open \subseteq used /\ closed \subseteq used
      /\ rows \subseteq used /\ IsFiniteSet(open) /\ limit \in Limits
      /\ pos \in [Trades -> Position] /\ row \in [Trades -> Row]
  BY DEF IInv, Types
<1>3. /\ \A t \in open : Sound(pos[t])
      /\ \A t \in closed : SoundOnceClosed(pos[t])
      /\ \A t \in open \cup closed : t \in open <=> pos[t].reason = "none"
      /\ open \subseteq rows /\ rows \subseteq open \cup closed
      /\ \A t \in rows : row[t].status = "open" <=> t \in open
      /\ \A t \in open : Loaded(row[t]) = pos[t]
      /\ \A t \in rows \ open : Loaded(row[t]) = Whole(pos[t])
      /\ \A t, u \in open : pos[t].sym = pos[u].sym => t = u
      /\ open \cap closed = {}
  BY DEF IInv, Positions, ReloadFaithful, OnePerSymbol
<1>4. Of(s) \subseteq open /\ \A t \in Of(s) : pos[t].sym = s
  BY DEF Of
<1>5. \A t \in Of(s) : after[t] \in Position /\ Sound(after[t]) /\ after[t].sym = s
  BY <1>2, <1>3, <1>4, BarSound
<1>6. /\ NewPosition(s, plan) \in Position /\ Sound(NewPosition(s, plan))
      /\ NewPosition(s, plan).sym = s /\ NewPosition(s, plan).reason = "none"
  BY EnterSound
<1> HIDE DEF after
<1>7. gone \subseteq Of(s) /\ \A t \in Of(s) : t \in gone <=> after[t].reason # "none"
  OBVIOUS
<1>8. \A t \in Trades : stat(t) \in {"open", "closed"} /\ (stat(t) = "open" <=> t \notin gone)
  OBVIOUS
<1> HIDE DEF gone, stat
<1>9. /\ \A t \in Of(s) : pos'[t] = after[t]
      /\ \A t \in enter : pos'[t] = NewPosition(s, plan)
      /\ \A t \in used : t \notin Of(s) => pos'[t] = pos[t] /\ row'[t] = row[t]
      /\ \A t \in Of(s) \cup enter : row'[t] = Persisted(pos'[t], stat(t))
  BY <1>1, <1>2, <1>4
<1>10. pos' \in [Trades -> Position]
  BY <1>1, <1>2, <1>5, <1>6
<1>11. \A t \in Of(s) \cup enter : Sound(pos'[t])
  BY <1>5, <1>6, <1>9
<1>12. \A t \in Of(s) \cup enter :
          /\ Persisted(pos'[t], stat(t)) \in Row
          /\ Persisted(pos'[t], stat(t)).status = stat(t)
          /\ Loaded(Persisted(pos'[t], stat(t)))
                = IF stat(t) = "open" THEN pos'[t] ELSE Whole(pos'[t])
  <2>1. \A t \in Of(s) \cup enter : t \in Trades /\ pos'[t] \in Position /\ pos'[t].entry > 0
    BY <1>2, <1>4, <1>10, <1>11 DEF Sound
  <2> QED
    BY <1>8, <2>1, RowFaithful
<1>13. Types'
  <2>1. row' \in [Trades -> Row]
    BY <1>1, <1>2, <1>12
  <2>2. IsFiniteSet(held)
    BY <1>2, FS_Subset
  <2>3. IsFiniteSet(held \cup enter)
    BY <2>2, FS_AddElement, ZenonT(40)
  <2> QED
    BY <1>1, <1>2, <1>4, <1>7, <1>10, <2>1, <2>3 DEF Types
<1>14. Positions'
  <2>1. ASSUME NEW t \in open' PROVE Sound(pos'[t])
    BY <1>1, <1>2, <1>3, <1>9, <1>11, <2>1
  <2>2. ASSUME NEW t \in closed' PROVE SoundOnceClosed(pos'[t])
    <3>1. CASE t \in gone
      BY <1>7, <1>11, <3>1 DEF Sound, SoundOnceClosed
    <3>2. CASE t \notin gone
      BY <1>1, <1>2, <1>3, <1>4, <1>9, <2>2, <3>2
    <3> QED
      BY <3>1, <3>2
  <2>3. ASSUME NEW t \in open' \cup closed' PROVE t \in open' <=> pos'[t].reason = "none"
    <3>1. CASE t \in Of(s)
      BY <1>1, <1>2, <1>3, <1>4, <1>5, <1>7, <1>9, <3>1
    <3>2. CASE t \in enter
      BY <1>1, <1>6, <1>9, <3>2
    <3>3. CASE t \notin Of(s) /\ t \notin enter
      BY <1>1, <1>2, <1>3, <1>7, <1>9, <2>3, <3>3
    <3> QED
      BY <3>1, <3>2, <3>3
  <2> QED
    BY <2>1, <2>2, <2>3 DEF Positions
<1>15. ReloadFaithful'
  <2>1. open' \subseteq rows' /\ rows' \subseteq open' \cup closed'
    BY <1>1, <1>3, <1>4, <1>7
  <2>2. ASSUME NEW t \in rows'
        PROVE  /\ row'[t].status = "open" <=> t \in open'
               /\ Loaded(row'[t]) = IF t \in open' THEN pos'[t] ELSE Whole(pos'[t])
    <3>1. CASE t \in Of(s)
      <4>1. t \in open' <=> t \notin gone
        BY <1>1, <1>2, <1>4, <3>1
      <4> QED
        BY <1>2, <1>4, <1>8, <1>9, <1>12, <3>1, <4>1
    <3>2. CASE t \in enter
      <4>1. t \in open' /\ t \notin gone
        BY <1>1, <1>2, <1>4, <1>7, <3>2
      <4> QED
        BY <1>2, <1>4, <1>8, <1>9, <1>12, <3>2, <4>1
    <3>3. CASE t \notin Of(s) /\ t \notin enter
      <4>1. t \in rows /\ (t \in open' <=> t \in open)
        BY <1>1, <1>7, <2>2, <3>3
      <4> QED
        BY <1>2, <1>3, <1>9, <3>3, <4>1
    <3> QED
      BY <3>1, <3>2, <3>3
  <2> QED
    BY <2>1, <2>2 DEF ReloadFaithful
<1>16. OnePerSymbol'
  <2>1. open' \cap closed' = {}
    BY <1>1, <1>2, <1>3, <1>4, <1>7
  <2>2. \A t \in held : pos'[t].sym = pos[t].sym
    BY <1>2, <1>4, <1>5, <1>9
  <2>3. \A t, v \in open' : pos'[t].sym = pos'[v].sym => t = v
    <3>1. CASE enter = {}
      BY <1>1, <1>3, <2>2, <3>1
    <3>2. CASE enter # {}
      <4>1. PICK u \in Trades : enter = {u}
        BY <3>2
      <4>2. /\ \A t \in held : pos[t].sym # s
            /\ pos'[u].sym = s
        BY <1>1, <1>6, <1>9, <3>2, <4>1 DEF MayEnter
      <4> QED
        BY <1>1, <1>3, <2>2, <4>1, <4>2
    <3> QED
      BY <3>1, <3>2
  <2> QED
    BY <2>1, <2>3 DEF OnePerSymbol
<1> QED
  BY <1>13, <1>14, <1>15, <1>16 DEF IInv

(* A manual close ends one open position. *)
LEMMA ManualCloseIInv ==
    ASSUME IInv, NEW t \in Trades, NEW reason \in Reasons, ManualClose(t, reason)
    PROVE  IInv'
<1> DEFINE q == ClosedAt(pos[t], pos[t].entry, reason)
<1>1. /\ t \in open /\ pos' = [pos EXCEPT ![t] = q]
      /\ open' = open \ {t} /\ closed' = closed \cup {t} /\ rows' = rows \cup {t}
      /\ row' = [row EXCEPT ![t] = Persisted(pos'[t], "closed")]
      /\ hour' = hour /\ used' = used /\ limit' = limit
  BY DEF ManualClose
<1>2. /\ hour \in Nat /\ used \subseteq Trades /\ open \subseteq used /\ closed \subseteq used
      /\ rows \subseteq used /\ IsFiniteSet(open) /\ limit \in Limits
      /\ pos \in [Trades -> Position] /\ row \in [Trades -> Row]
  BY DEF IInv, Types
<1>3. /\ \A u \in open : Sound(pos[u])
      /\ \A u \in closed : SoundOnceClosed(pos[u])
      /\ \A u \in open \cup closed : u \in open <=> pos[u].reason = "none"
      /\ open \subseteq rows /\ rows \subseteq open \cup closed
      /\ \A u \in rows : row[u].status = "open" <=> u \in open
      /\ \A u \in open : Loaded(row[u]) = pos[u]
      /\ \A u \in rows \ open : Loaded(row[u]) = Whole(pos[u])
      /\ \A u, v \in open : pos[u].sym = pos[v].sym => u = v
      /\ open \cap closed = {}
  BY DEF IInv, Positions, ReloadFaithful, OnePerSymbol
<1>4. reason \in AllReasons /\ reason # "none"
  BY EngineAssumption DEF AllReasons
<1>5. q \in Position /\ Sound(q) /\ q.reason = reason
  <2>1. pos[t] \in Position /\ pos[t].entry \in Nat /\ Sound(pos[t])
    BY <1>1, <1>2, <1>3 DEF Position
  <2> QED
    BY <1>4, <2>1, CloseSound
<1> HIDE DEF q
<1>6. pos'[t] = q /\ (\A u \in Trades : u # t => pos'[u] = pos[u] /\ row'[u] = row[u])
  BY <1>1, <1>2
<1>7. row'[t] = Persisted(q, "closed")
  BY <1>1, <1>2, <1>6
<1>8. /\ Persisted(q, "closed") \in Row /\ Persisted(q, "closed").status = "closed"
      /\ Loaded(Persisted(q, "closed")) = Whole(q)
  BY <1>5, RowFaithful DEF Sound
<1>9. Types'
  <2>1. IsFiniteSet(open \ {t})
    BY <1>2, FS_Subset
  <2>2. pos' \in [Trades -> Position] /\ row' \in [Trades -> Row]
    BY <1>1, <1>2, <1>5, <1>6, <1>8
  <2> QED
    BY <1>1, <1>2, <2>1, <2>2 DEF Types
<1>10. Positions'
  <2>1. SoundOnceClosed(q)
    BY <1>5 DEF Sound, SoundOnceClosed
  <2>2. /\ \A u \in open' : Sound(pos'[u])
        /\ \A u \in closed' : SoundOnceClosed(pos'[u])
    BY <1>1, <1>2, <1>3, <1>6, <2>1
  <2>3. \A u \in open' \cup closed' : u \in open' <=> pos'[u].reason = "none"
    BY <1>1, <1>2, <1>3, <1>4, <1>5, <1>6
  <2> QED
    BY <2>2, <2>3 DEF Positions
<1>11. ReloadFaithful'
  <2>1. open' \subseteq rows' /\ rows' \subseteq open' \cup closed'
    BY <1>1, <1>3
  <2>2. ASSUME NEW u \in rows'
        PROVE  /\ row'[u].status = "open" <=> u \in open'
               /\ Loaded(row'[u]) = IF u \in open' THEN pos'[u] ELSE Whole(pos'[u])
    <3>1. CASE u = t
      BY <1>1, <1>6, <1>7, <1>8, <3>1
    <3>2. CASE u # t
      BY <1>1, <1>2, <1>3, <1>6, <3>2
    <3> QED
      BY <3>1, <3>2
  <2> QED
    BY <2>1, <2>2 DEF ReloadFaithful
<1>12. OnePerSymbol'
  BY <1>1, <1>2, <1>3, <1>6 DEF OnePerSymbol
<1> QED
  BY <1>9, <1>10, <1>11, <1>12 DEF IInv

(* A restart loads exactly the positions whose rows are there. *)
LEMMA RestartIInv ==
    ASSUME IInv, Restart
    PROVE  /\ IInv' /\ open' = open /\ closed' \subseteq closed
           /\ \A t \in open' : pos'[t] = pos[t]
           /\ \A t \in closed' : pos'[t] = Whole(pos[t])
<1>1. /\ open' = {t \in rows : row[t].status = "open"}
      /\ closed' = {t \in rows : row[t].status = "closed"}
      /\ pos' = [t \in Trades |-> IF t \in rows THEN Loaded(row[t]) ELSE Unborn]
      /\ hour' = hour /\ used' = used /\ rows' = rows /\ row' = row /\ limit' \in Limits
  BY DEF Restart, LoadedPositions, table
<1>2. /\ hour \in Nat /\ used \subseteq Trades /\ open \subseteq used /\ closed \subseteq used
      /\ rows \subseteq used /\ IsFiniteSet(open)
      /\ pos \in [Trades -> Position] /\ row \in [Trades -> Row]
  BY DEF IInv, Types
<1>3. /\ open \subseteq rows /\ rows \subseteq open \cup closed
      /\ \A t \in rows : row[t].status = "open" <=> t \in open
      /\ \A t \in open : Loaded(row[t]) = pos[t]
      /\ \A t \in rows \ open : Loaded(row[t]) = Whole(pos[t])
      /\ \A t, u \in open : pos[t].sym = pos[u].sym => t = u
      /\ open \cap closed = {}
  BY DEF IInv, ReloadFaithful, OnePerSymbol
<1>4. \A t \in rows : row[t].status \in {"open", "closed"}
  BY <1>2 DEF Row
<1>5. open' = open
  BY <1>1, <1>3
<1>6. closed' = rows \ open /\ closed' \subseteq closed /\ rows = open' \cup closed'
  BY <1>1, <1>3, <1>4, <1>5
<1>7. /\ \A t \in open' : pos'[t] = pos[t]
      /\ \A t \in closed' : pos'[t] = Whole(pos[t])
  BY <1>1, <1>2, <1>3, <1>5, <1>6
<1>8. Unborn \in Position
  <2>1. (CHOOSE s \in Symbols : TRUE) \in Symbols
    BY EngineAssumption
  <2> QED
    BY <2>1 DEF Unborn, Position
<1>9. \A t \in closed' :
         /\ Whole(pos[t]) \in Position /\ Whole(Whole(pos[t])) = Whole(pos[t])
         /\ Whole(pos[t]).reason = pos[t].reason
         /\ SoundOnceClosed(pos[t]) => SoundOnceClosed(Whole(pos[t]))
  BY <1>2, <1>6, WholeFacts
<1>10. Types'
  <2>1. pos' \in [Trades -> Position]
    <3>1. \A t \in rows : Loaded(row[t]) \in Position
      BY <1>2, <1>3, <1>6, <1>9
    <3> QED
      BY <1>1, <1>8, <3>1
  <2> QED
    BY <1>1, <1>2, <1>5, <1>6, <2>1 DEF Types
<1>11. Positions'
  <2>1. /\ \A t \in open : Sound(pos[t])
        /\ \A t \in closed : SoundOnceClosed(pos[t])
        /\ \A t \in open \cup closed : t \in open <=> pos[t].reason = "none"
    BY DEF IInv, Positions
  <2>2. /\ \A t \in open' : Sound(pos'[t])
        /\ \A t \in closed' : SoundOnceClosed(pos'[t])
    BY <1>5, <1>6, <1>7, <1>9, <2>1
  <2>3. \A t \in open' \cup closed' : pos'[t].reason = pos[t].reason
    BY <1>7, <1>9
  <2> QED
    BY <1>5, <1>6, <2>1, <2>2, <2>3 DEF Positions
<1>12. ReloadFaithful'
  <2>1. /\ open' \subseteq rows' /\ rows' \subseteq open' \cup closed'
        /\ \A t \in rows' : row'[t].status = "open" <=> t \in open'
    BY <1>1, <1>3, <1>5, <1>6
  <2>2. \A t \in open' : Loaded(row'[t]) = pos'[t]
    BY <1>1, <1>3, <1>5, <1>7
  <2>3. \A t \in rows' \ open' : Loaded(row'[t]) = Whole(pos'[t])
    BY <1>1, <1>3, <1>5, <1>6, <1>7, <1>9
  <2> QED
    BY <2>1, <2>2, <2>3 DEF ReloadFaithful
<1>13. OnePerSymbol'
  BY <1>3, <1>5, <1>6, <1>7 DEF OnePerSymbol
<1> QED
  BY <1>5, <1>6, <1>7, <1>10, <1>11, <1>12, <1>13 DEF IInv

\* The actions that move no position.
Still ==
    \/ HourPasses \/ ResetAccount \/ ClearHistory \/ (\E n \in Limits : SetLimit(n))
    \/ UNCHANGED vars

(* They preserve the invariant. *)
LEMMA OtherIInv ==
    ASSUME IInv, Still
    PROVE  IInv'
<1>1. CASE HourPasses
  BY <1>1 DEF HourPasses, IInv, Types, Positions, ReloadFaithful, OnePerSymbol, memory, table
<1>2. CASE ResetAccount
  <2>1. IsFiniteSet(open')
    BY <1>2, FS_EmptySet DEF ResetAccount
  <2> QED
    BY <1>2, <2>1 DEF ResetAccount, IInv, Types, Positions, ReloadFaithful, OnePerSymbol
<1>3. CASE ClearHistory
  BY <1>3 DEF ClearHistory, IInv, Types, Positions, ReloadFaithful, OnePerSymbol, memory
<1>4. ASSUME NEW n \in Limits, SetLimit(n) PROVE IInv'
  BY <1>4 DEF SetLimit, IInv, Types, Positions, ReloadFaithful, OnePerSymbol, memory, table
<1>5. CASE UNCHANGED vars
  BY <1>5 DEF vars, IInv, Types, Positions, ReloadFaithful, OnePerSymbol, memory, table
<1> QED
  BY <1>1, <1>2, <1>3, <1>4, <1>5 DEF Still

(* Which action a step is. *)
LEMMA StepCases ==
    ASSUME [Next]_vars
    PROVE  \/ \E s \in Symbols, b \in Bars, enter \in SUBSET Trades, plan \in Plans :
                 (enter = {} \/ \E t \in Trades : enter = {t}) /\ ProcessBar(s, b, enter, plan)
           \/ \E t \in Trades, reason \in Reasons : ManualClose(t, reason)
           \/ Restart
           \/ Still
<1>1. ASSUME NEW s \in Symbols, NEW b \in Bars, ProcessBar(s, b, {}, CHOOSE p \in Plans : TRUE)
      PROVE  \E enter \in SUBSET Trades, plan \in Plans :
                 (enter = {} \/ \E t \in Trades : enter = {t}) /\ ProcessBar(s, b, enter, plan)
  BY <1>1, EngineAssumption
<1>2. ASSUME NEW s \in Symbols, NEW b \in Bars, NEW t \in Trades, NEW p \in Plans,
             ProcessBar(s, b, {t}, p)
      PROVE  \E enter \in SUBSET Trades, plan \in Plans :
                 (enter = {} \/ \E u \in Trades : enter = {u}) /\ ProcessBar(s, b, enter, plan)
  BY <1>2
<1> QED
  BY <1>1, <1>2 DEF Next, Still

(* One step of the engine preserves the invariant and every closed result. *)
LEMMA StepIInv ==
    ASSUME IInv, [Next]_vars
    PROVE  IInv'
<1>1. ASSUME NEW s \in Symbols, NEW b \in Bars, NEW enter \in SUBSET Trades, NEW plan \in Plans,
             enter = {} \/ \E t \in Trades : enter = {t}, ProcessBar(s, b, enter, plan)
      PROVE  IInv'
  BY <1>1, ProcessBarIInv
<1>2. ASSUME NEW t \in Trades, NEW reason \in Reasons, ManualClose(t, reason)
      PROVE  IInv'
  BY <1>2, ManualCloseIInv
<1>3. CASE Restart
  BY <1>3, RestartIInv
<1>4. CASE Still
  BY <1>4, OtherIInv
<1> QED
  BY <1>1, <1>2, <1>3, <1>4, StepCases

-----------------------------------------------------------------------------
(* The theorems. *)

(* The inductive invariant: types, sound positions, faithful rows, limits. *)
THEOREM InvariantHolds == Spec => []IInv
<1>1. Init => IInv
  BY InitIInv
<1>2. IInv /\ [Next]_vars => IInv'
  BY StepIInv
<1> QED
  BY <1>1, <1>2, PTL DEF Spec

(* A step that takes a position finds the account within its limit and the  *)
(* symbol free.                                                             *)
LEMMA StepExposure ==
    ASSUME IInv, [Next]_vars, NEW t \in open' \ open
    PROVE  Cardinality(open') <= limit /\ \A u \in open' : pos'[u].sym = pos'[t].sym => u = t
<1>1. ASSUME NEW s \in Symbols, NEW b \in Bars, NEW enter \in SUBSET Trades, NEW plan \in Plans,
             enter = {} \/ \E u \in Trades : enter = {u}, ProcessBar(s, b, enter, plan)
      PROVE  /\ Cardinality(open') <= limit
             /\ \A u \in open' : pos'[u].sym = pos'[t].sym => u = t
  <2> DEFINE gone == {u \in Of(s) : AfterBar(pos[u], b, hour).reason # "none"}
             held == open \ gone
  <2>1. held \cup enter = open' /\ (enter # {} => MayEnter(s, held))
    BY <1>1 DEF ProcessBar
  <2>2. enter = {t} /\ t \notin held
    BY <1>1, <2>1
  <2>3. IsFiniteSet(held)
    BY FS_Subset DEF IInv, Types
  <2>4. Cardinality(held \cup {t}) = Cardinality(held) + 1 /\ Cardinality(held) \in Nat
    BY <2>2, <2>3, FS_AddElement, FS_CardinalityType
  <2>5. Cardinality(open') <= limit
    <3>1. Cardinality(held) < limit /\ limit \in Nat
      BY <2>1, <2>2, EngineAssumption DEF MayEnter, IInv, Types
    <3>2. open' = held \cup {t}
      BY <2>1, <2>2
    <3> HIDE DEF held
    <3> QED
      BY <2>4, <3>1, <3>2
  <2>6. \A u \in open' : pos'[u].sym = pos'[t].sym => u = t
    BY <1>1, ProcessBarIInv DEF IInv, OnePerSymbol
  <2> QED
    BY <2>5, <2>6
<1>2. ASSUME NEW u \in Trades, NEW reason \in Reasons, ManualClose(u, reason) PROVE FALSE
  BY <1>2 DEF ManualClose
<1>3. CASE Restart
  BY <1>3, RestartIInv
<1>4. CASE Still
  BY <1>4 DEF Still, HourPasses, ResetAccount, ClearHistory, SetLimit, vars, memory
<1> QED
  BY <1>1, <1>2, <1>3, <1>4, StepCases

(* execute_plan keeps an account within the limit it has when it enters,    *)
(* and one position per symbol, across set_config, exits of the same bar,   *)
(* reset and _load_state_from_db_if_available.                              *)
THEOREM ExposureHolds == Spec => Exposure
<1>1. IInv /\ [Next]_vars =>
         [\A t \in open' \ open :
            /\ Cardinality(open') <= limit
            /\ \A u \in open' : pos'[u].sym = pos'[t].sym => u = t]_vars
  BY StepExposure
<1> QED
  BY <1>1, InvariantHolds, PTL DEF Spec, Exposure

(* _persist_trade has written all of every open position: a process that    *)
(* starts now has them to the stop and the quantity that is left, and every *)
(* closed trade with all but its last quantity.                             *)
THEOREM ReloadIsFaithful == Spec => []ReloadFaithful
<1>1. IInv => ReloadFaithful
  BY DEF IInv
<1> QED
  BY <1>1, InvariantHolds, PTL

(* _execute_tp1_partial sells one half at most once, and with it alone the  *)
(* stop moves to the entry, in memory and through every restart.            *)
THEOREM PositionsKeepShape == Spec => []PositionShape
<1>1. IInv => PositionShape
  BY DEF IInv, Positions, Sound, SoundOnceClosed, PositionShape
<1> QED
  BY <1>1, InvariantHolds, PTL

(* One step leaves every closed position closed, with its result. *)
LEMMA StepClosed ==
    ASSUME IInv, [Next]_vars, NEW t \in closed
    PROVE  t \notin open' /\ (t \in closed' => pos'[t] \in {pos[t], Whole(pos[t])})
<1>1. /\ t \in used /\ t \in Trades /\ t \notin open /\ pos \in [Trades -> Position]
  BY DEF IInv, Types, OnePerSymbol
<1>2. ASSUME NEW s \in Symbols, NEW b \in Bars, NEW enter \in SUBSET Trades, NEW plan \in Plans,
             ProcessBar(s, b, enter, plan)
      PROVE  t \notin open' /\ pos'[t] = pos[t]
  <2>1. /\ t \notin Of(s) /\ t \notin enter
    BY <1>1, <1>2 DEF ProcessBar, Of
  <2>2. t \notin open'
    BY <1>1, <1>2, <2>1 DEF ProcessBar
  <2>3. pos'[t] = pos[t]
    BY <1>1, <1>2, <2>1 DEF ProcessBar
  <2> QED
    BY <2>2, <2>3
<1>3. ASSUME NEW u \in Trades, NEW reason \in Reasons, ManualClose(u, reason)
      PROVE  t \notin open' /\ pos'[t] = pos[t]
  BY <1>1, <1>3 DEF ManualClose
<1>4. CASE Restart
  BY <1>1, <1>4, RestartIInv
<1>5. CASE Still
  BY <1>1, <1>5 DEF Still, HourPasses, ResetAccount, ClearHistory, SetLimit, memory, vars
<1> QED
  BY <1>2, <1>3, <1>4, <1>5, StepCases

(* No bar, no command and no restart opens a trade that is closed or changes *)
(* anything of it but the quantity it shows, until                           *)
(* _apply_reset_account_command removes it.                                  *)
THEOREM ClosedStaysClosed == Spec => ClosedIsFinal
<1>1. IInv /\ [Next]_vars =>
         [\A t \in closed : /\ t \notin open'
                            /\ t \in closed' => pos'[t] \in {pos[t], Whole(pos[t])}]_vars
  BY StepClosed
<1> QED
  BY <1>1, InvariantHolds, PTL DEF Spec, ClosedIsFinal

-----------------------------------------------------------------------------
(* Losses. *)

(* The product of larger numbers is larger. *)
LEMMA ProductsMonotone ==
    ASSUME NEW a \in Nat, NEW b \in Nat, NEW c \in Nat, NEW d \in Nat, a >= b, c >= d
    PROVE  a * c >= b * d
<1>1. a * c >= b * c
  BY Z3
<1>2. b * c >= b * d
  BY Z3
<1>3. a * c \in Nat /\ b * c \in Nat /\ b * d \in Nat
  BY Z3
<1> QED
  BY <1>1, <1>2, <1>3

(* A result is proportional to the quantity. *)
LEMMA NetOfProportional ==
    ASSUME NEW p \in Position, NEW qty \in Nat, NEW price \in Nat, NEW taker \in BOOLEAN
    PROVE  NetOf(p, qty, price, taker) = qty * NetOf(p, 1, price, taker)
<1> DEFINE final == IF taker THEN price * (PriceScale - p.dir * Slip) ELSE price * PriceScale
           fee == IF taker THEN TakerFee ELSE MakerFee
           d == p.dir
           e == p.entry * PriceScale
<1>1. /\ NetOf(p, qty, price, taker) = (final - e) * d * qty * FeeScale - final * qty * fee
      /\ NetOf(p, 1, price, taker) = (final - e) * d * 1 * FeeScale - final * 1 * fee
  BY DEF NetOf
<1>2. /\ PriceScale \in Nat /\ Slip \in 0..PriceScale
      /\ FeeScale \in Nat /\ TakerFee \in Nat /\ MakerFee \in Nat
  BY EngineAssumption
<1>3. d \in {-1, 1} /\ p.entry \in Nat
  BY DEF Position
<1>4. final \in Int /\ fee \in Int /\ e \in Int /\ d \in Int
  BY <1>2, <1>3, Z3
<1> HIDE DEF final, fee, e, d
<1>5. (final - e) * d * qty * FeeScale - final * qty * fee
         = qty * ((final - e) * d * 1 * FeeScale - final * 1 * fee)
  BY <1>2, <1>4, Z3
<1> QED
  BY <1>1, <1>5

\* The levels of a position are in the order its plan had them.
Levels(p) ==
    IF p.dir = 1 THEN p.initialSl < p.entry /\ p.entry < p.tp1 /\ p.tp1 <= p.tp2
                 ELSE p.tp2 <= p.tp1 /\ p.tp1 < p.entry /\ p.entry < p.initialSl

\* A price at which nobody loses more than at the initial stop.
NotBeyond(p, price) == IF p.dir = 1 THEN price >= p.initialSl ELSE price <= p.initialSl

\* What one unit brings at the initial stop, with slippage and taker fee.
UnitAtStop(p) == NetOf(p, 1, p.initialSl, TRUE)

(* One unit brings no less at a price not beyond the stop. *)
LEMMA UnitNoWorse ==
    ASSUME NEW p \in Position, NEW price \in Nat, NotBeyond(p, price), NEW taker \in BOOLEAN
    PROVE  NetOf(p, 1, price, taker) >= UnitAtStop(p)
<1> DEFINE final == IF taker THEN price * (PriceScale - p.dir * Slip) ELSE price * PriceScale
           fee == IF taker THEN TakerFee ELSE MakerFee
           last == p.initialSl * (PriceScale - p.dir * Slip)
           d == p.dir
           e == p.entry * PriceScale
<1>1. /\ NetOf(p, 1, price, taker) = (final - e) * d * 1 * FeeScale - final * 1 * fee
      /\ UnitAtStop(p) = (last - e) * d * 1 * FeeScale - last * 1 * TakerFee
  BY DEF NetOf, UnitAtStop
<1>2. /\ PriceScale \in Nat /\ Slip \in 0..PriceScale
      /\ FeeScale \in Nat /\ TakerFee \in 0..FeeScale /\ MakerFee \in 0..TakerFee
  BY EngineAssumption
<1>3. d \in {-1, 1} /\ p.entry \in Nat /\ p.initialSl \in Nat
  BY DEF Position
<1>4. e \in Nat
  BY <1>2, <1>3, Z3
<1>5. fee \in 0..TakerFee
  BY <1>2
<1>6. CASE d = 1
  <2>1. price >= p.initialSl
    BY <1>6 DEF NotBeyond
  <2>2. PriceScale - Slip \in Nat /\ PriceScale >= PriceScale - Slip
    BY <1>2
  <2>3. price * PriceScale >= p.initialSl * (PriceScale - Slip)
    BY <1>2, <1>3, <2>1, <2>2, ProductsMonotone
  <2>4. price * (PriceScale - Slip) >= p.initialSl * (PriceScale - Slip)
    BY <1>3, <2>1, <2>2, ProductsMonotone
  <2>5. PriceScale - d * Slip = PriceScale - Slip
    BY <1>2, <1>6
  <2>6. final >= last
    BY <2>3, <2>4, <2>5
  <2>7. final \in Nat /\ last \in Nat
    BY <1>2, <1>3, <2>2, <2>5, Z3
  <2> HIDE DEF final, fee, e, d, last
  <2>8. FeeScale - fee \in Nat /\ FeeScale - TakerFee \in Nat /\ FeeScale - fee >= FeeScale - TakerFee
    BY <1>2, <1>5
  <2>9. final * (FeeScale - fee) >= last * (FeeScale - TakerFee)
    BY <2>6, <2>7, <2>8, ProductsMonotone
  <2>10. /\ NetOf(p, 1, price, taker) = final * (FeeScale - fee) - e * FeeScale
         /\ UnitAtStop(p) = last * (FeeScale - TakerFee) - e * FeeScale
    BY <1>1, <1>2, <1>4, <1>5, <1>6, <2>7, Z3
  <2>11. /\ final * (FeeScale - fee) \in Int /\ last * (FeeScale - TakerFee) \in Int
         /\ e * FeeScale \in Int
    BY <1>2, <1>4, <2>7, <2>8, Z3
  <2> QED
    BY <2>9, <2>10, <2>11
<1>7. CASE d = -1
  <2>1. price <= p.initialSl
    BY <1>7 DEF NotBeyond
  <2>2. PriceScale + Slip \in Nat /\ PriceScale <= PriceScale + Slip
    BY <1>2
  <2>3. price * PriceScale <= p.initialSl * (PriceScale + Slip)
    BY <1>2, <1>3, <2>1, <2>2, ProductsMonotone
  <2>4. price * (PriceScale + Slip) <= p.initialSl * (PriceScale + Slip)
    BY <1>3, <2>1, <2>2, ProductsMonotone
  <2>5. PriceScale - d * Slip = PriceScale + Slip
    BY <1>2, <1>7
  <2>6. final <= last
    BY <2>3, <2>4, <2>5
  <2>7. final \in Nat /\ last \in Nat
    BY <1>2, <1>3, <2>2, <2>5, Z3
  <2> HIDE DEF final, fee, e, d, last
  <2>8. FeeScale + fee \in Nat /\ FeeScale + TakerFee \in Nat /\ FeeScale + fee <= FeeScale + TakerFee
    BY <1>2, <1>5
  <2>9. final * (FeeScale + fee) <= last * (FeeScale + TakerFee)
    BY <2>6, <2>7, <2>8, ProductsMonotone
  <2>10. /\ NetOf(p, 1, price, taker) = e * FeeScale - final * (FeeScale + fee)
         /\ UnitAtStop(p) = e * FeeScale - last * (FeeScale + TakerFee)
    BY <1>1, <1>2, <1>4, <1>5, <1>7, <2>7, Z3
  <2>11. /\ final * (FeeScale + fee) \in Int /\ last * (FeeScale + TakerFee) \in Int
         /\ e * FeeScale \in Int
    BY <1>2, <1>4, <2>7, <2>8, Z3
  <2> QED
    BY <2>9, <2>10, <2>11
<1> QED
  BY <1>3, <1>6, <1>7

\* What a position has brought is no worse than its sold units at the stop.
NoWorse(p) ==
    p.realized >= (IF p.reason = "none" THEN p.initialQty - p.qty ELSE p.initialQty) * UnitAtStop(p)

LossBounded(p) == Levels(p) /\ NoWorse(p)

Losses == \A t \in open \cup closed : LossBounded(pos[t])

(* Selling units of a bounded position at a price not beyond its stop keeps *)
(* the bound, counted in units.                                             *)
LEMMA SaleNoWorse ==
    ASSUME NEW p \in Position, NEW sold \in Nat, NEW qty \in Nat, NEW price \in Nat,
           NotBeyond(p, price), NEW taker \in BOOLEAN, p.realized >= sold * UnitAtStop(p)
    PROVE  p.realized + NetOf(p, qty, price, taker) >= (sold + qty) * UnitAtStop(p)
<1> DEFINE u == UnitAtStop(p)
           v == NetOf(p, 1, price, taker)
           r == p.realized
<1>1. v >= u
  BY UnitNoWorse
<1>2. u \in Int /\ v \in Int /\ r \in Int
  <2>1. p.initialSl \in Nat /\ p.realized \in Int /\ 1 \in Nat /\ TRUE \in BOOLEAN
    BY DEF Position
  <2> QED
    BY <2>1, Amounts, ZenonT(40) DEF UnitAtStop
<1>3. NetOf(p, qty, price, taker) = qty * v
  BY NetOfProportional
<1>4. r >= sold * u
  OBVIOUS
<1> HIDE DEF u, v, r
<1>5. qty * v >= qty * u
  <2>1. v - u \in Nat
    BY <1>1, <1>2
  <2>2. qty * (v - u) \in Nat
    BY <2>1, Z3
  <2>3. qty * (v - u) = qty * v - qty * u /\ qty * v \in Int /\ qty * u \in Int
    BY <1>2, Z3
  <2> QED
    BY <2>2, <2>3
<1>6. (sold + qty) * u = sold * u + qty * u /\ sold * u \in Int /\ qty * u \in Int /\ qty * v \in Int
  BY <1>2, Z3
<1>7. r + qty * v >= (sold + qty) * u
  BY <1>2, <1>4, <1>5, <1>6
<1> QED
  BY <1>3, <1>7 DEF u, r

(* A full exit at a price not beyond the stop keeps the bound. *)
LEMMA CloseBounded ==
    ASSUME NEW p \in Position, Sound(p), LossBounded(p), p.reason = "none",
           NEW price \in Nat, NotBeyond(p, price), NEW reason \in AllReasons
    PROVE  LossBounded(ClosedAt(p, price, reason))
<1> DEFINE q == ClosedAt(p, price, reason)
           net == NetOf(p, p.qty, price, IsTaker(reason))
<1>1. /\ q.dir = p.dir /\ q.entry = p.entry /\ q.initialSl = p.initialSl
      /\ q.tp1 = p.tp1 /\ q.tp2 = p.tp2 /\ q.initialQty = p.initialQty
      /\ q.reason = reason /\ q.realized = p.realized + net
  BY DEF ClosedAt, With
<1>2. UnitAtStop(q) = UnitAtStop(p)
  BY <1>1 DEF UnitAtStop, NetOf
<1>3. reason # "none"
  BY EngineAssumption DEF AllReasons, TargetReasons, StopReasons
<1>4. IsTaker(reason) \in BOOLEAN
  BY DEF IsTaker
<1> DEFINE sold == p.initialQty - p.qty
<1>5. sold \in Nat /\ p.qty \in Nat /\ sold + p.qty = p.initialQty
  <2>1. p.qty \in Nat /\ p.initialQty \in Nat
    BY DEF Position
  <2>2. 2 * p.qty = p.initialQty \/ 2 * p.qty = 2 * p.initialQty
    BY DEF Sound
  <2> QED
    BY <2>1, <2>2
<1>6. p.realized >= sold * UnitAtStop(p)
  BY DEF LossBounded, NoWorse
<1> HIDE DEF sold
<1>7. p.realized + net >= (sold + p.qty) * UnitAtStop(p)
  BY <1>4, <1>5, <1>6, SaleNoWorse
<1> HIDE DEF q, net
<1>8. NoWorse(q)
  BY <1>1, <1>2, <1>3, <1>5, <1>7 DEF NoWorse
<1>9. Levels(q)
  BY <1>1 DEF LossBounded, Levels
<1> QED
  BY <1>8, <1>9 DEF LossBounded, q

(* So does the sale of one half at the first target. *)
LEMMA Tp1Bounded ==
    ASSUME NEW p \in Position, Sound(p), LossBounded(p), p.reason = "none", p.tp1Hit = FALSE
    PROVE  LossBounded(AfterTp1(p))
<1> DEFINE half == p.qty \div 2
           net == NetOf(p, half, p.tp1, FALSE)
           q == AfterTp1(p)
<1>1. p.qty \in Nat /\ p.initialQty \in Nat /\ p.tp1 \in Nat /\ p.dir \in {-1, 1}
      /\ p.entry \in Nat /\ p.initialSl \in Nat /\ p.realized \in Int
  BY DEF Position
<1>2. p.qty = p.initialQty /\ half \in Nat
  BY <1>1 DEF Sound
<1>3. /\ q.dir = p.dir /\ q.entry = p.entry /\ q.initialSl = p.initialSl
      /\ q.tp1 = p.tp1 /\ q.tp2 = p.tp2 /\ q.initialQty = p.initialQty
      /\ q.reason = "none" /\ q.realized = p.realized + net /\ q.qty = p.qty - half
  BY DEF AfterTp1, With
<1>4. UnitAtStop(q) = UnitAtStop(p)
  BY <1>3 DEF UnitAtStop, NetOf
<1>5. NotBeyond(p, p.tp1)
  BY <1>1 DEF LossBounded, Levels, NotBeyond
<1>6. UnitAtStop(p) \in Int
  <2>1. 1 \in Nat /\ TRUE \in BOOLEAN
    OBVIOUS
  <2> QED
    BY <1>1, <2>1, Amounts, ZenonT(40) DEF UnitAtStop
<1>7. p.realized >= 0 * UnitAtStop(p)
  <2>1. p.realized >= (p.initialQty - p.qty) * UnitAtStop(p) /\ p.initialQty - p.qty = 0
    BY <1>1, <1>2 DEF LossBounded, NoWorse
  <2> QED
    BY <2>1
<1> HIDE DEF half
<1>8. p.realized + net >= (0 + half) * UnitAtStop(p)
  BY <1>1, <1>2, <1>5, <1>7, SaleNoWorse
<1> HIDE DEF net, q
<1>9. NoWorse(q)
  <2>1. q.initialQty - q.qty = 0 + half
    BY <1>1, <1>2, <1>3
  <2> QED
    BY <1>3, <1>4, <1>8, <2>1 DEF NoWorse
<1>10. Levels(q)
  BY <1>3 DEF LossBounded, Levels
<1> QED
  BY <1>9, <1>10 DEF LossBounded, q

(* A bar keeps the bound, whichever exit it leads to. *)
LEMMA BarBounded ==
    ASSUME NEW p \in Position, Sound(p), LossBounded(p), p.reason = "none", NEW b \in Bars, NEW h \in Nat
    PROVE  LossBounded(AfterBar(p, b, h))
<1>1. /\ p.sl \in Nat /\ p.tp2 \in Nat /\ b.close \in Nat /\ p.tp1Hit \in BOOLEAN
      /\ p.dir \in {-1, 1} /\ p.entry \in Nat /\ p.initialSl \in Nat /\ p.tp1 \in Nat
      /\ b.low \in Nat /\ b.high \in Nat /\ b.low <= b.close /\ b.close <= b.high
  BY EngineAssumption DEF Position
<1>2. {"sl_hit_intrabar_collision", "sl_hit", "tp2_hit", "timestop"} \subseteq AllReasons
  BY DEF AllReasons, TargetReasons, StopReasons
<1>3. NotBeyond(p, p.sl) /\ NotBeyond(p, p.tp2)
  BY <1>1 DEF LossBounded, Levels, NotBeyond, Sound
<1>4. ~SlHit(p, b) => NotBeyond(p, b.close)
  BY <1>1 DEF LossBounded, Levels, NotBeyond, Sound, SlHit
<1>5. LossBounded(ClosedAt(p, p.sl, "sl_hit_intrabar_collision"))
  BY <1>1, <1>2, <1>3, CloseBounded, ZenonT(40)
<1>6. LossBounded(ClosedAt(p, p.sl, "sl_hit"))
  BY <1>1, <1>2, <1>3, CloseBounded, ZenonT(40)
<1>7. LossBounded(ClosedAt(p, p.tp2, "tp2_hit"))
  BY <1>1, <1>2, <1>3, CloseBounded, ZenonT(40)
<1>8. ~SlHit(p, b) => LossBounded(ClosedAt(p, b.close, "timestop"))
  BY <1>1, <1>2, <1>4, CloseBounded, ZenonT(40)
<1>9. p.tp1Hit = FALSE => LossBounded(AfterTp1(p))
  BY Tp1Bounded
<1>10. CASE SlHit(p, b)
  BY <1>5, <1>6, <1>10 DEF AfterBar
<1>11. CASE ~SlHit(p, b)
  <2>1. AfterBar(p, b, h) \in
           {ClosedAt(p, p.tp2, "tp2_hit"), ClosedAt(p, b.close, "timestop"), p}
        \/ (p.tp1Hit = FALSE /\ AfterBar(p, b, h) = AfterTp1(p))
    BY <1>1, <1>11 DEF AfterBar
  <2> QED
    BY <1>7, <1>8, <1>9, <1>11, <2>1
<1> QED
  BY <1>10, <1>11

(* A position that was just entered has lost nothing but its fee. *)
LEMMA EnterBounded ==
    ASSUME IInv, NEW s \in Symbols, NEW plan \in Plans
    PROVE  LossBounded(NewPosition(s, plan))
<1> DEFINE q == NewPosition(s, plan)
<1>1. plan \in Plan /\ ValidPlan(plan)
  BY EngineAssumption
<1>2. q \in Position /\ q.reason = "none" /\ q.realized = 0 /\ q.initialQty = q.qty
  BY EnterSound DEF NewPosition
<1>3. Levels(q)
  BY <1>1 DEF NewPosition, Levels, ValidPlan
<1> HIDE DEF q
<1>4. UnitAtStop(q) \in Int
  <2>1. 1 \in Nat /\ TRUE \in BOOLEAN /\ q.initialSl \in Nat
    BY <1>2 DEF Position
  <2> QED
    BY <1>2, <2>1, Amounts, ZenonT(40) DEF UnitAtStop
<1>5. q.initialQty - q.qty = 0 /\ 0 * UnitAtStop(q) = 0
  BY <1>2, <1>4 DEF Position
<1>6. NoWorse(q)
  BY <1>2, <1>5 DEF NoWorse
<1> QED
  BY <1>3, <1>6 DEF LossBounded, q

(* Nor does loading a closed position change what it has lost. *)
LEMMA WholeBounded ==
    ASSUME NEW p \in Position, LossBounded(p), p.reason # "none"
    PROVE  LossBounded(Whole(p))
<1> DEFINE q == Whole(p)
<1>1. /\ q.dir = p.dir /\ q.entry = p.entry /\ q.initialSl = p.initialSl /\ q.tp1 = p.tp1
      /\ q.tp2 = p.tp2 /\ q.initialQty = p.initialQty /\ q.reason = p.reason
      /\ q.realized = p.realized
  BY DEF Whole, Position
<1> HIDE DEF q
<1>2. UnitAtStop(q) = UnitAtStop(p)
  BY <1>1 DEF UnitAtStop, NetOf
<1> QED
  BY <1>1, <1>2 DEF LossBounded, Levels, NoWorse, q

(* One step keeps every loss bounded. *)
LEMMA StepLosses ==
    ASSUME IInv, Losses, [Next]_vars
    PROVE  Losses'
<1>1. /\ used \subseteq Trades /\ open \subseteq used /\ closed \subseteq used
      /\ pos \in [Trades -> Position] /\ hour \in Nat
      /\ \A t \in open : Sound(pos[t])
      /\ \A t \in open \cup closed : t \in open <=> pos[t].reason = "none"
  BY DEF IInv, Types, Positions
<1>2. ASSUME NEW s \in Symbols, NEW b \in Bars, NEW enter \in SUBSET Trades, NEW plan \in Plans,
             ProcessBar(s, b, enter, plan)
      PROVE  Losses'
  <2> DEFINE after == [t \in Of(s) |-> AfterBar(pos[t], b, hour)]
  <2>1. /\ enter \cap used = {}
        /\ pos' = [t \in Trades |-> IF t \in Of(s) THEN after[t]
                                    ELSE IF t \in enter THEN NewPosition(s, plan) ELSE pos[t]]
        /\ open' \cup closed' \subseteq open \cup closed \cup enter
    BY <1>2 DEF ProcessBar, Of
  <2>2. Of(s) \subseteq open
    BY DEF Of
  <2>3. \A t \in Of(s) : LossBounded(after[t])
    BY <1>1, <2>2, BarBounded DEF Losses
  <2> HIDE DEF after
  <2>4. LossBounded(NewPosition(s, plan))
    BY EnterBounded
  <2>5. ASSUME NEW t \in open \cup closed \cup enter PROVE LossBounded(pos'[t])
    <3>1. CASE t \in Of(s)
      BY <1>1, <2>1, <2>2, <2>3, <3>1
    <3>2. CASE t \in enter
      BY <1>1, <2>1, <2>2, <2>4, <3>2
    <3>3. CASE t \notin Of(s) /\ t \notin enter
      BY <1>1, <2>1, <3>3 DEF Losses
    <3> QED
      BY <3>1, <3>2, <3>3
  <2> QED
    BY <2>1, <2>5 DEF Losses
<1>3. ASSUME NEW t \in Trades, NEW reason \in Reasons, ManualClose(t, reason)
      PROVE  Losses'
  <2> DEFINE q == ClosedAt(pos[t], pos[t].entry, reason)
  <2>1. t \in open /\ pos' = [pos EXCEPT ![t] = q] /\ open' \cup closed' = open \cup closed
    BY <1>3 DEF ManualClose
  <2>2. /\ pos[t] \in Position /\ Sound(pos[t]) /\ LossBounded(pos[t]) /\ pos[t].reason = "none"
        /\ pos[t].entry \in Nat
    BY <1>1, <2>1 DEF Losses, Position
  <2>3. NotBeyond(pos[t], pos[t].entry)
    BY <2>2 DEF LossBounded, Levels, NotBeyond, Position
  <2>4. reason \in AllReasons
    BY DEF AllReasons
  <2>5. LossBounded(q)
    BY <2>2, <2>3, <2>4, CloseBounded
  <2> HIDE DEF q
  <2>6. \A u \in open \cup closed : LossBounded(pos'[u])
    BY <1>1, <2>1, <2>5 DEF Losses
  <2> QED
    BY <2>1, <2>6 DEF Losses
<1>4. CASE Restart
  <2>1. /\ open' = open /\ closed' \subseteq closed
        /\ \A t \in open' : pos'[t] = pos[t]
        /\ \A t \in closed' : pos'[t] = Whole(pos[t])
    BY <1>4, RestartIInv
  <2>2. \A t \in closed : pos[t] \in Position /\ pos[t].reason # "none" /\ LossBounded(pos[t])
    BY <1>1 DEF IInv, OnePerSymbol, Losses
  <2>3. \A t \in closed : LossBounded(Whole(pos[t]))
    BY <2>2, WholeBounded
  <2> QED
    BY <2>1, <2>3 DEF Losses
<1>5. CASE Still
  BY <1>5 DEF Still, HourPasses, ResetAccount, ClearHistory, SetLimit, vars, memory, Losses
<1> QED
  BY <1>2, <1>3, <1>4, <1>5, StepCases

(* No trade loses more than its initial stop, sold with slippage and taker  *)
(* fee, would have cost: not by a stop or a target that bars reach in any   *)
(* order, a time stop, a manual close or a restart in between.              *)
THEOREM WorstCaseHolds == Spec => []WorstCaseIsStop
<1>1. Init => Losses
  BY DEF Init, Losses
<1>2. IInv /\ Losses /\ [Next]_vars => Losses'
  BY StepLosses
<1>3. IInv /\ Losses => WorstCaseIsStop
  <2> SUFFICES ASSUME IInv, Losses, NEW t \in closed
               PROVE  pos[t].realized >= NetOf(pos[t], pos[t].initialQty, pos[t].initialSl, TRUE)
    BY DEF WorstCaseIsStop
  <2>1. /\ pos[t] \in Position /\ LossBounded(pos[t]) /\ pos[t].reason # "none"
    BY DEF IInv, Types, Positions, OnePerSymbol, Losses
  <2>2. pos[t].realized >= pos[t].initialQty * UnitAtStop(pos[t])
    BY <2>1 DEF LossBounded, NoWorse
  <2>3. pos[t].initialQty \in Nat /\ pos[t].initialSl \in Nat /\ TRUE \in BOOLEAN
    BY <2>1 DEF Position
  <2>4. NetOf(pos[t], pos[t].initialQty, pos[t].initialSl, TRUE)
           = pos[t].initialQty * NetOf(pos[t], 1, pos[t].initialSl, TRUE)
    BY <2>1, <2>3, NetOfProportional, ZenonT(40)
  <2> QED
    BY <2>2, <2>4 DEF UnitAtStop
<1> QED
  BY <1>1, <1>2, <1>3, InvariantHolds, PTL DEF Spec

-----------------------------------------------------------------------------
(* The ledger. *)

\* The money of a set of trades: what sums of integers need.
Counted(ids, p) ==
    /\ IsFiniteSet(ids)
    /\ \A t \in ids : p[t].realized \in Int /\ Persisted(p[t], "open").entryFee \in Int

(* A sum over trades does not depend on how the function is written. *)
LEMMA MoneyType ==
    ASSUME NEW ids, NEW p, Counted(ids, p)
    PROVE  RealizedOf(ids, p) \in Int /\ EntryFeesOf(ids, p) \in Int
<1> DEFINE F == [t \in ids |-> p[t].realized]
           G == [t \in ids |-> Persisted(p[t], "open").entryFee]
<1>1. /\ RealizedOf(ids, p) = SumFunctionOnSet(F, ids)
      /\ EntryFeesOf(ids, p) = SumFunctionOnSet(G, ids)
  BY DEF RealizedOf, EntryFeesOf, SumFunction
<1>2. IsFiniteSet(ids) /\ (\A t \in ids : F[t] \in Int) /\ (\A t \in ids : G[t] \in Int)
  BY DEF Counted
<1> HIDE DEF F, G
<1> QED
  BY <1>1, <1>2, SumType

(* Positions with the same amounts have the same sums. *)
LEMMA MoneySame ==
    ASSUME NEW ids, NEW p, NEW q, Counted(ids, p),
           \A t \in ids : /\ q[t].realized = p[t].realized
                          /\ Persisted(q[t], "open").entryFee = Persisted(p[t], "open").entryFee
    PROVE  RealizedOf(ids, q) = RealizedOf(ids, p) /\ EntryFeesOf(ids, q) = EntryFeesOf(ids, p)
<1> DEFINE F == [t \in ids |-> p[t].realized]
           G == [t \in ids |-> Persisted(p[t], "open").entryFee]
           F2 == [t \in ids |-> q[t].realized]
           G2 == [t \in ids |-> Persisted(q[t], "open").entryFee]
<1>1. F2 = F /\ G2 = G
  OBVIOUS
<1>2. /\ RealizedOf(ids, p) = SumFunctionOnSet(F, ids)
      /\ EntryFeesOf(ids, p) = SumFunctionOnSet(G, ids)
      /\ RealizedOf(ids, q) = SumFunctionOnSet(F2, ids)
      /\ EntryFeesOf(ids, q) = SumFunctionOnSet(G2, ids)
  BY DEF RealizedOf, EntryFeesOf, SumFunction
<1> HIDE DEF F, G, F2, G2
<1> QED
  BY <1>1, <1>2

(* Entry fees are those of the positions, whatever else changes. *)
LEMMA FeesSame ==
    ASSUME NEW ids, NEW p, NEW q, Counted(ids, p),
           \A t \in ids : Persisted(q[t], "open").entryFee = Persisted(p[t], "open").entryFee
    PROVE  EntryFeesOf(ids, q) = EntryFeesOf(ids, p)
<1> DEFINE G == [t \in ids |-> Persisted(p[t], "open").entryFee]
           G2 == [t \in ids |-> Persisted(q[t], "open").entryFee]
<1>1. G2 = G
  OBVIOUS
<1>2. /\ EntryFeesOf(ids, p) = SumFunctionOnSet(G, ids)
      /\ EntryFeesOf(ids, q) = SumFunctionOnSet(G2, ids)
  BY DEF EntryFeesOf, SumFunction
<1> HIDE DEF G, G2
<1> QED
  BY <1>1, <1>2

(* The money of two sets of trades without a common one. *)
LEMMA MoneySplit ==
    ASSUME NEW S, NEW T, S \cap T = {}, NEW p, Counted(S, p), Counted(T, p)
    PROVE  /\ RealizedOf(S \cup T, p) = RealizedOf(S, p) + RealizedOf(T, p)
           /\ EntryFeesOf(S \cup T, p) = EntryFeesOf(S, p) + EntryFeesOf(T, p)
<1> DEFINE all == S \cup T
           F == [t \in all |-> p[t].realized]
           G == [t \in all |-> Persisted(p[t], "open").entryFee]
<1>1. ASSUME NEW U, U \subseteq all
      PROVE  /\ RealizedOf(U, p) = SumFunctionOnSet(F, U)
             /\ EntryFeesOf(U, p) = SumFunctionOnSet(G, U)
  <2> DEFINE F1 == [t \in U |-> p[t].realized]
             G1 == [t \in U |-> Persisted(p[t], "open").entryFee]
  <2>1. IsFiniteSet(U)
    BY <1>1, FS_Subset, FS_Union DEF Counted
  <2>2. /\ \A t \in U : F[t] \in Int /\ F1[t] = F[t]
        /\ \A t \in U : G[t] \in Int /\ G1[t] = G[t]
    BY <1>1 DEF Counted
  <2>3. /\ RealizedOf(U, p) = SumFunctionOnSet(F1, U)
        /\ EntryFeesOf(U, p) = SumFunctionOnSet(G1, U)
    BY DEF RealizedOf, EntryFeesOf, SumFunction
  <2> HIDE DEF F1, G1, F, G
  <2> QED
    BY <2>1, <2>2, <2>3, SumSame
<1>2. /\ IsFiniteSet(S) /\ IsFiniteSet(T)
      /\ \A t \in S \cup T : F[t] \in Int /\ G[t] \in Int
  BY DEF Counted
<1>3. /\ RealizedOf(S, p) = SumFunctionOnSet(F, S) /\ EntryFeesOf(S, p) = SumFunctionOnSet(G, S)
      /\ RealizedOf(T, p) = SumFunctionOnSet(F, T) /\ EntryFeesOf(T, p) = SumFunctionOnSet(G, T)
      /\ RealizedOf(S \cup T, p) = SumFunctionOnSet(F, S \cup T)
      /\ EntryFeesOf(S \cup T, p) = SumFunctionOnSet(G, S \cup T)
  BY <1>1
<1> HIDE DEF F, G
<1>4. SumFunctionOnSet(F, S \cup T) = SumFunctionOnSet(F, S) + SumFunctionOnSet(F, T)
  BY <1>2, SumUnion
<1>5. SumFunctionOnSet(G, S \cup T) = SumFunctionOnSet(G, S) + SumFunctionOnSet(G, T)
  BY <1>2, SumUnion
<1> QED
  BY <1>3, <1>4, <1>5

(* The money of no trade and of one trade. *)
LEMMA MoneyOfOne ==
    ASSUME NEW p
    PROVE  /\ RealizedOf({}, p) = 0 /\ EntryFeesOf({}, p) = 0
           /\ \A t : Counted({t}, p) =>
                 /\ RealizedOf({t}, p) = p[t].realized
                 /\ EntryFeesOf({t}, p) = Persisted(p[t], "open").entryFee
<1>1. RealizedOf({}, p) = 0 /\ EntryFeesOf({}, p) = 0
  BY SumEmpty DEF RealizedOf, EntryFeesOf, SumFunction
<1>2. ASSUME NEW t, Counted({t}, p)
      PROVE  /\ RealizedOf({t}, p) = p[t].realized
             /\ EntryFeesOf({t}, p) = Persisted(p[t], "open").entryFee
  <2> DEFINE F == [u \in {t} |-> p[u].realized]
             G == [u \in {t} |-> Persisted(p[u], "open").entryFee]
  <2>1. F[t] = p[t].realized /\ G[t] = Persisted(p[t], "open").entryFee
    OBVIOUS
  <2>2. F[t] \in Int /\ G[t] \in Int
    BY <1>2 DEF Counted
  <2>3. /\ RealizedOf({t}, p) = SumFunctionOnSet(F, {t})
        /\ EntryFeesOf({t}, p) = SumFunctionOnSet(G, {t})
    BY DEF RealizedOf, EntryFeesOf, SumFunction
  <2> HIDE DEF F, G
  <2>4. IsFiniteSet({t}) /\ {t} \ {t} = {} /\ t \in {t}
    BY <1>2 DEF Counted
  <2>5. /\ SumFunctionOnSet(F, {t}) = F[t] + SumFunctionOnSet(F, {t} \ {t})
        /\ SumFunctionOnSet(G, {t}) = G[t] + SumFunctionOnSet(G, {t} \ {t})
    BY <2>2, <2>4, SumRemove
  <2>6. SumFunctionOnSet(F, {}) = 0 /\ SumFunctionOnSet(G, {}) = 0
    BY SumEmpty
  <2> QED
    BY <2>1, <2>2, <2>3, <2>4, <2>5, <2>6
<1> QED
  BY <1>1, <1>2

(* Every position has an entry fee, and exits do not change it. *)
LEMMA EntryFees ==
    ASSUME NEW p \in Position
    PROVE  /\ Persisted(p, "open").entryFee \in Int /\ p.realized \in Int
           /\ \A q : q.initialQty = p.initialQty /\ q.entry = p.entry
                        => Persisted(q, "open").entryFee = Persisted(p, "open").entryFee
<1>1. p.initialQty \in Nat /\ p.entry \in Nat /\ p.realized \in Int
  BY DEF Position
<1>2. PriceScale \in Nat /\ TakerFee \in Nat
  BY EngineAssumption
<1>3. p.initialQty * p.entry * PriceScale * TakerFee \in Int
  BY <1>1, <1>2, Z3
<1> QED
  BY <1>1, <1>3 DEF Persisted

\* The ledger is exact, over finitely many trades.
Ledger == EquityExact /\ IsFiniteSet(closed)

(* Any set of trades of the account is counted. *)
LEMMA AllCounted ==
    ASSUME NEW p \in [Trades -> Position], NEW ids \in SUBSET Trades, IsFiniteSet(ids)
    PROVE  Counted(ids, p)
BY EntryFees DEF Counted

(* A bar sells units; quantity and price of the entry stay. *)
LEMMA BarKeepsEntry ==
    ASSUME NEW p, NEW b, NEW h
    PROVE  AfterBar(p, b, h).initialQty = p.initialQty /\ AfterBar(p, b, h).entry = p.entry
<1>1. AfterBar(p, b, h) \in
         {ClosedAt(p, p.sl, "sl_hit_intrabar_collision"), ClosedAt(p, p.sl, "sl_hit"),
          ClosedAt(p, p.tp2, "tp2_hit"), ClosedAt(p, b.close, "timestop"), AfterTp1(p), p}
  <2>1. CASE SlHit(p, b)
    BY <2>1 DEF AfterBar
  <2>2. CASE ~SlHit(p, b)
    BY <2>2 DEF AfterBar
  <2> QED
    BY <2>1, <2>2
<1>2. \A price, reason : /\ ClosedAt(p, price, reason).initialQty = p.initialQty
                         /\ ClosedAt(p, price, reason).entry = p.entry
  BY DEF ClosedAt, With
<1>3. AfterTp1(p).initialQty = p.initialQty /\ AfterTp1(p).entry = p.entry
  BY DEF AfterTp1, With
<1> QED
  BY <1>1, <1>2, <1>3

(* The bar's bookkeeping: exits add their results, the entry costs its fee. *)
LEMMA ProcessBarLedger ==
    ASSUME IInv, Ledger, NEW s \in Symbols, NEW b \in Bars, NEW plan \in Plans,
           NEW enter \in SUBSET Trades, enter = {} \/ \E t \in Trades : enter = {t},
           ProcessBar(s, b, enter, plan)
    PROVE  Ledger'
<1> DEFINE after == [t \in Of(s) |-> AfterBar(pos[t], b, hour)]
           gone  == {t \in Of(s) : after[t].reason # "none"}
           all   == open \cup closed
           rest  == all \ Of(s)
           new   == NewPosition(s, plan)
           fee   == SumFunction([t \in enter |-> new.fees])
<1>1. /\ enter \cap used = {}
      /\ pos' = [t \in Trades |-> IF t \in Of(s) THEN after[t]
                                  ELSE IF t \in enter THEN new ELSE pos[t]]
      /\ open' = (open \ gone) \cup enter /\ closed' = closed \cup gone
      /\ equity' = equity + (RealizedOf(Of(s), after) - RealizedOf(Of(s), pos)) - fee
  BY DEF ProcessBar
<1>2. /\ hour \in Nat /\ used \subseteq Trades /\ open \subseteq used /\ closed \subseteq used
      /\ IsFiniteSet(open) /\ IsFiniteSet(closed) /\ pos \in [Trades -> Position]
      /\ \A t \in open : Sound(pos[t])
  BY DEF IInv, Types, Positions, Ledger
<1>3. IInv' /\ pos' \in [Trades -> Position]
  BY ProcessBarIInv DEF IInv, Types
<1>4. Of(s) \subseteq open /\ gone \subseteq Of(s)
  BY DEF Of
<1>5. new \in Position /\ new.realized = 0
  BY EnterSound DEF NewPosition
<1>6. \A t \in Of(s) : /\ after[t].initialQty = pos[t].initialQty
                       /\ after[t].entry = pos[t].entry
  BY BarKeepsEntry
<1> HIDE DEF after
<1> HIDE DEF gone
<1>7. /\ open' \cup closed' = all \cup enter /\ all \cap enter = {}
      /\ all = Of(s) \cup rest /\ Of(s) \cap rest = {}
  BY <1>1, <1>2, <1>4
<1>8. /\ \A t \in Of(s) : pos'[t] = after[t]
      /\ \A t \in rest : pos'[t] = pos[t]
      /\ \A t \in enter : pos'[t] = new
  BY <1>1, <1>2, <1>4
<1>9. IsFiniteSet(gone) /\ IsFiniteSet(all) /\ IsFiniteSet(rest) /\ IsFiniteSet(Of(s)) /\ IsFiniteSet(enter)
  BY <1>2, <1>4, FS_Subset, FS_Union, FS_EmptySet, FS_Singleton
<1>10. all \subseteq Trades /\ rest \subseteq Trades /\ Of(s) \subseteq Trades
  BY <1>2, <1>4
<1>11. /\ Counted(all, pos) /\ Counted(rest, pos) /\ Counted(Of(s), pos)
       /\ Counted(all, pos') /\ Counted(rest, pos') /\ Counted(Of(s), pos') /\ Counted(enter, pos')
  BY <1>2, <1>3, <1>9, <1>10, AllCounted
<1> HIDE DEF all, rest
<1>12. /\ RealizedOf(all, pos) = RealizedOf(Of(s), pos) + RealizedOf(rest, pos)
       /\ RealizedOf(all, pos') = RealizedOf(Of(s), pos') + RealizedOf(rest, pos')
  BY <1>7, <1>11, MoneySplit
<1>13. /\ RealizedOf(all \cup enter, pos') = RealizedOf(all, pos') + RealizedOf(enter, pos')
       /\ EntryFeesOf(all \cup enter, pos') = EntryFeesOf(all, pos') + EntryFeesOf(enter, pos')
  BY <1>7, <1>11, MoneySplit
<1>14. RealizedOf(rest, pos') = RealizedOf(rest, pos)
  BY <1>8, <1>11, MoneySame
<1>15. RealizedOf(Of(s), pos') = RealizedOf(Of(s), after)
  BY <1>8 DEF RealizedOf
<1>16. EntryFeesOf(all, pos') = EntryFeesOf(all, pos)
  <2>1. \A t \in all : pos[t] \in Position
    BY <1>2, <1>10
  <2>2. \A t \in all : pos'[t].initialQty = pos[t].initialQty /\ pos'[t].entry = pos[t].entry
    BY <1>6, <1>7, <1>8
  <2>3. \A t \in all : Persisted(pos'[t], "open").entryFee = Persisted(pos[t], "open").entryFee
    BY <2>1, <2>2, EntryFees
  <2> QED
    BY <1>11, <2>3, FeesSame
<1>17. RealizedOf(enter, pos') = 0 /\ EntryFeesOf(enter, pos') = fee
  <2> DEFINE G == [t \in enter |-> Persisted(pos'[t], "open").entryFee]
             H == [t \in enter |-> new.fees]
  <2>1. Persisted(new, "open").entryFee = new.fees
    BY DEF Persisted, NewPosition
  <2>2. G = H
    BY <1>8, <2>1
  <2>3. EntryFeesOf(enter, pos') = fee
    BY <2>2 DEF EntryFeesOf
  <2>4. RealizedOf(enter, pos') = 0
    <3>1. CASE enter = {}
      BY <3>1, MoneyOfOne
    <3>2. CASE enter # {}
      <4>1. PICK t \in Trades : enter = {t}
        BY <3>2
      <4>2. RealizedOf({t}, pos') = pos'[t].realized
        BY <1>11, <4>1, MoneyOfOne
      <4>3. pos'[t].realized = 0
        BY <1>5, <1>8, <4>1
      <4> QED
        BY <4>1, <4>2, <4>3
    <3> QED
      BY <3>1, <3>2
  <2> QED
    BY <2>3, <2>4
<1> HIDE DEF fee, new
<1>18. /\ RealizedOf(Of(s), pos) \in Int /\ RealizedOf(rest, pos) \in Int
       /\ RealizedOf(Of(s), pos') \in Int /\ EntryFeesOf(all, pos) \in Int
       /\ EntryFeesOf(enter, pos') \in Int
  BY <1>11, MoneyType
<1>19. equity = StartEquity - EntryFeesOf(all, pos) + RealizedOf(all, pos)
  BY DEF Ledger, EquityExact, LedgerEquity, all
<1>20. StartEquity \in Int
  BY EngineAssumption
<1>21. equity' = StartEquity - EntryFeesOf(all \cup enter, pos') + RealizedOf(all \cup enter, pos')
  <2> DEFINE r1 == RealizedOf(Of(s), pos)
             r2 == RealizedOf(rest, pos)
             r3 == RealizedOf(Of(s), pos')
             f1 == EntryFeesOf(all, pos)
             ff == fee
             R == RealizedOf(all \cup enter, pos')
             E == EntryFeesOf(all \cup enter, pos')
  <2>1. equity = StartEquity - f1 + (r1 + r2) /\ equity' = equity + (r3 - r1) - ff
    BY <1>1, <1>12, <1>15, <1>19
  <2>2. E = f1 + ff /\ R = r3 + r2 + 0
    BY <1>12, <1>13, <1>14, <1>16, <1>17
  <2>3. r1 \in Int /\ r2 \in Int /\ r3 \in Int /\ f1 \in Int /\ ff \in Int
    BY <1>17, <1>18
  <2> HIDE DEF r1, r2, r3, f1, ff, R, E
  <2>4. equity' = StartEquity - E + R
    BY <1>20, <2>1, <2>2, <2>3
  <2> QED
    BY <2>4 DEF R, E
<1>22. EquityExact'
  BY <1>7, <1>21 DEF EquityExact, LedgerEquity
<1>23. IsFiniteSet(closed')
  BY <1>1, <1>2, <1>9, FS_Union
<1> QED
  BY <1>22, <1>23 DEF Ledger

(* A manual close books what the rest of the position brings. *)
LEMMA ManualCloseLedger ==
    ASSUME IInv, Ledger, NEW t \in Trades, NEW reason \in Reasons, ManualClose(t, reason)
    PROVE  Ledger'
<1> DEFINE q == ClosedAt(pos[t], pos[t].entry, reason)
           net == NetOf(pos[t], pos[t].qty, pos[t].entry, IsTaker(reason))
           all == open \cup closed
           rest == all \ {t}
<1>1. /\ t \in open /\ pos' = [pos EXCEPT ![t] = q]
      /\ open' = open \ {t} /\ closed' = closed \cup {t} /\ equity' = equity + net
  BY DEF ManualClose
<1>2. /\ used \subseteq Trades /\ open \subseteq used /\ closed \subseteq used
      /\ IsFiniteSet(open) /\ IsFiniteSet(closed) /\ pos \in [Trades -> Position]
  BY DEF IInv, Types, Ledger
<1>3. IInv' /\ pos' \in [Trades -> Position]
  BY ManualCloseIInv DEF IInv, Types
<1>4. /\ q.realized = pos[t].realized + net
      /\ q.initialQty = pos[t].initialQty /\ q.entry = pos[t].entry
  BY DEF ClosedAt, With
<1> HIDE DEF q, net
<1>5. pos'[t] = q /\ \A u \in Trades : u # t => pos'[u] = pos[u]
  BY <1>1, <1>2
<1>6. open' \cup closed' = all /\ all = {t} \cup rest /\ {t} \cap rest = {}
  BY <1>1
<1>7. IsFiniteSet(all) /\ IsFiniteSet({t}) /\ IsFiniteSet(rest)
  BY <1>2, FS_Union, FS_Subset, FS_Singleton
<1>8. all \subseteq Trades /\ rest \subseteq Trades /\ {t} \subseteq Trades
  BY <1>2
<1>9. /\ Counted(all, pos) /\ Counted({t}, pos) /\ Counted(rest, pos)
      /\ Counted(all, pos') /\ Counted({t}, pos') /\ Counted(rest, pos')
  BY <1>2, <1>3, <1>7, <1>8, AllCounted
<1>10. \A u \in rest : pos'[u] = pos[u]
  BY <1>5, <1>8
<1> HIDE DEF all, rest
<1>11. /\ RealizedOf(all, pos) = RealizedOf({t}, pos) + RealizedOf(rest, pos)
       /\ RealizedOf(all, pos') = RealizedOf({t}, pos') + RealizedOf(rest, pos')
  BY <1>6, <1>9, MoneySplit
<1>12. RealizedOf(rest, pos') = RealizedOf(rest, pos)
  BY <1>9, <1>10, MoneySame
<1>13. /\ RealizedOf({t}, pos) = pos[t].realized
       /\ RealizedOf({t}, pos') = pos'[t].realized
  BY <1>9, MoneyOfOne
<1>14. EntryFeesOf(all, pos') = EntryFeesOf(all, pos)
  <2>1. \A u \in all : pos[u] \in Position
    BY <1>2, <1>8
  <2>2. \A u \in all : pos'[u].initialQty = pos[u].initialQty /\ pos'[u].entry = pos[u].entry
    BY <1>4, <1>5, <1>8
  <2>3. \A u \in all : Persisted(pos'[u], "open").entryFee = Persisted(pos[u], "open").entryFee
    BY <2>1, <2>2, EntryFees
  <2> QED
    BY <1>9, <2>3, FeesSame
<1>15. /\ RealizedOf(rest, pos) \in Int /\ EntryFeesOf(all, pos) \in Int
       /\ pos[t].realized \in Int /\ pos'[t].realized \in Int
  BY <1>2, <1>3, <1>9, MoneyType DEF Position
<1>16. net \in Int
  <2>1. /\ pos[t] \in Position /\ pos[t].qty \in Nat /\ pos[t].entry \in Nat
        /\ IsTaker(reason) \in BOOLEAN
    BY <1>2 DEF IsTaker, Position
  <2> QED
    BY <2>1, Amounts DEF net
<1>17. equity = StartEquity - EntryFeesOf(all, pos) + RealizedOf(all, pos)
  BY DEF Ledger, EquityExact, LedgerEquity, all
<1>18. StartEquity \in Int
  BY EngineAssumption
<1>19. equity' = StartEquity - EntryFeesOf(all, pos') + RealizedOf(all, pos')
  <2> DEFINE r1 == pos[t].realized
             r2 == RealizedOf(rest, pos)
             f1 == EntryFeesOf(all, pos)
             R == RealizedOf(all, pos')
             E == EntryFeesOf(all, pos')
  <2>1. equity = StartEquity - f1 + (r1 + r2) /\ equity' = equity + net
    BY <1>1, <1>11, <1>13, <1>17
  <2>2. E = f1 /\ R = (r1 + net) + r2
    BY <1>4, <1>5, <1>11, <1>12, <1>13, <1>14
  <2>3. r1 \in Int /\ r2 \in Int /\ f1 \in Int
    BY <1>15
  <2> HIDE DEF r1, r2, f1, R, E
  <2>4. equity' = StartEquity - E + R
    BY <1>16, <1>18, <2>1, <2>2, <2>3
  <2> QED
    BY <2>4 DEF R, E
<1>20. EquityExact'
  BY <1>6, <1>19 DEF EquityExact, LedgerEquity
<1>21. IsFiniteSet(closed')
  BY <1>1, <1>2, <1>7, FS_Union
<1> QED
  BY <1>20, <1>21 DEF Ledger

(* A new process adds up what the table holds; a reset starts over. *)
LEMMA OtherLedger ==
    ASSUME IInv, Ledger,
           Restart \/ Still
    PROVE  Ledger'
<1>1. CASE Restart
  <2>1. /\ open' \cup closed' = rows /\ equity' = LedgerEquity(rows, LoadedPositions)
        /\ pos' = LoadedPositions
    <3>1. \A t \in rows : row[t].status \in {"open", "closed"}
      BY DEF IInv, Types, Row
    <3> QED
      BY <1>1, <3>1 DEF Restart
  <2>2. IsFiniteSet(closed')
    BY <1>1, RestartIInv, FS_Subset DEF Ledger
  <2> QED
    BY <2>1, <2>2 DEF Ledger, EquityExact, LedgerEquity, RealizedOf, EntryFeesOf
<1>2. CASE ResetAccount
  <2>1. open' \cup closed' = {} /\ equity' = StartEquity
    BY <1>2 DEF ResetAccount
  <2>2. RealizedOf({}, pos') = 0 /\ EntryFeesOf({}, pos') = 0
    BY MoneyOfOne
  <2>3. StartEquity = StartEquity - 0 + 0
    BY EngineAssumption
  <2>4. IsFiniteSet(closed')
    BY <1>2, FS_EmptySet DEF ResetAccount
  <2> QED
    BY <2>1, <2>2, <2>3, <2>4 DEF Ledger, EquityExact, LedgerEquity
<1>3. CASE Still /\ ~ResetAccount
  <2>1. open' = open /\ closed' = closed /\ pos' = pos /\ equity' = equity
    BY <1>3 DEF Still, HourPasses, ClearHistory, SetLimit, vars, memory
  <2> QED
    BY <2>1 DEF Ledger, EquityExact, LedgerEquity, RealizedOf, EntryFeesOf
<1> QED
  BY <1>1, <1>2, <1>3

(* The ledger is exact after every step. *)
LEMMA LedgerHolds == Spec => []Ledger
<1>1. Init => Ledger
  <2> SUFFICES ASSUME Init PROVE Ledger
    OBVIOUS
  <2>1. open \cup closed = {} /\ equity = StartEquity /\ closed = {}
    BY DEF Init
  <2>2. RealizedOf({}, pos) = 0 /\ EntryFeesOf({}, pos) = 0
    BY MoneyOfOne
  <2>3. StartEquity = StartEquity - 0 + 0
    BY EngineAssumption
  <2> QED
    BY <2>1, <2>2, <2>3, FS_EmptySet DEF Ledger, EquityExact, LedgerEquity
<1>2. IInv /\ Ledger /\ [Next]_vars => Ledger'
  <2> SUFFICES ASSUME IInv, Ledger, [Next]_vars PROVE Ledger'
    OBVIOUS
  <2>1. ASSUME NEW s \in Symbols, NEW b \in Bars, NEW enter \in SUBSET Trades, NEW plan \in Plans,
               enter = {} \/ \E t \in Trades : enter = {t}, ProcessBar(s, b, enter, plan)
        PROVE  Ledger'
    BY <2>1, ProcessBarLedger
  <2>2. ASSUME NEW t \in Trades, NEW reason \in Reasons, ManualClose(t, reason)
        PROVE  Ledger'
    BY <2>2, ManualCloseLedger
  <2>3. CASE Restart \/ Still
    BY <2>3, OtherLedger
  <2> QED
    BY <2>1, <2>2, <2>3, StepCases
<1> QED
  BY <1>1, <1>2, InvariantHolds, PTL DEF Spec

(* The equity is the starting equity minus every entry fee plus every       *)
(* realized result: exits in parts, manual closes, resets and restarts      *)
(* neither lose nor repeat an amount, for any number of trades.             *)
THEOREM EquityIsExact == Spec => []EquityExact
<1>1. Ledger => EquityExact
  BY DEF Ledger
<1> QED
  BY <1>1, LedgerHolds, PTL

-----------------------------------------------------------------------------
(* What a restart does to the equity. *)

\* Closed trades that the worker has and the table has no more.
Cleared == closed \ rows

\* A restart changes the equity by what the cleared trades have brought.
RestartForgets ==
    equity = LedgerEquity(rows, LoadedPositions)
             + (RealizedOf(Cleared, pos) - EntryFeesOf(Cleared, pos))

(* The amounts of a row are those of the position it was written from. *)
LEMMA LedgerForgets ==
    ASSUME IInv, Ledger
    PROVE  RestartForgets /\ (Cleared = {} => RestartKeepsEquity)
<1> DEFINE all == open \cup closed
<1>1. /\ pos \in [Trades -> Position] /\ all \subseteq Trades
      /\ IsFiniteSet(open) /\ IsFiniteSet(closed)
      /\ rows \subseteq all /\ open \subseteq rows
      /\ \A t \in rows : Loaded(row[t]) = pos[t] \/ Loaded(row[t]) = Whole(pos[t])
  BY DEF IInv, Types, ReloadFaithful, Ledger
<1>2. /\ Cleared \subseteq Trades /\ rows \subseteq Trades
      /\ rows \cap Cleared = {} /\ rows \cup Cleared = all
  BY <1>1 DEF Cleared
<1>3. IsFiniteSet(rows) /\ IsFiniteSet(Cleared)
  <2>1. IsFiniteSet(all)
    BY <1>1, FS_Union
  <2> QED
    BY <1>2, <2>1, FS_Subset
<1>4. Counted(rows, pos) /\ Counted(Cleared, pos)
  BY <1>1, <1>2, <1>3, AllCounted
<1>5. /\ RealizedOf(rows, LoadedPositions) = RealizedOf(rows, pos)
      /\ EntryFeesOf(rows, LoadedPositions) = EntryFeesOf(rows, pos)
  <2>1. \A t \in rows : LoadedPositions[t] = pos[t] \/ LoadedPositions[t] = Whole(pos[t])
    BY <1>1, <1>2 DEF LoadedPositions
  <2>2. \A t \in rows : pos[t] \in Position
    BY <1>1, <1>2
  <2>3. \A t \in rows :
           /\ LoadedPositions[t].realized = pos[t].realized
           /\ LoadedPositions[t].initialQty = pos[t].initialQty
           /\ LoadedPositions[t].entry = pos[t].entry
    BY <2>1, <2>2, WholeFacts
  <2>4. \A t \in rows :
           Persisted(LoadedPositions[t], "open").entryFee = Persisted(pos[t], "open").entryFee
    BY <2>2, <2>3, EntryFees
  <2> QED
    BY <1>4, <2>3, <2>4, MoneySame
<1>6. /\ RealizedOf(all, pos) = RealizedOf(rows, pos) + RealizedOf(Cleared, pos)
      /\ EntryFeesOf(all, pos) = EntryFeesOf(rows, pos) + EntryFeesOf(Cleared, pos)
  BY <1>2, <1>4, MoneySplit
<1>7. /\ RealizedOf(rows, pos) \in Int /\ EntryFeesOf(rows, pos) \in Int
      /\ RealizedOf(Cleared, pos) \in Int /\ EntryFeesOf(Cleared, pos) \in Int
      /\ StartEquity \in Int
  BY <1>4, MoneyType, EngineAssumption
<1>8. equity = StartEquity - EntryFeesOf(all, pos) + RealizedOf(all, pos)
  BY DEF Ledger, EquityExact, LedgerEquity
<1>9. LedgerEquity(rows, LoadedPositions)
         = StartEquity - EntryFeesOf(rows, pos) + RealizedOf(rows, pos)
  BY <1>5 DEF LedgerEquity
<1>10. RestartForgets
  <2> DEFINE r == RealizedOf(rows, pos)
             f == EntryFeesOf(rows, pos)
             rc == RealizedOf(Cleared, pos)
             fc == EntryFeesOf(Cleared, pos)
  <2>1. equity = StartEquity - (f + fc) + (r + rc)
    BY <1>6, <1>8
  <2>2. LedgerEquity(rows, LoadedPositions) = StartEquity - f + r
    BY <1>9
  <2>3. r \in Int /\ f \in Int /\ rc \in Int /\ fc \in Int /\ StartEquity \in Int
    BY <1>7
  <2>4. RestartForgets <=> equity = LedgerEquity(rows, LoadedPositions) + (rc - fc)
    BY DEF RestartForgets
  <2> HIDE DEF r, f, rc, fc
  <2> QED
    BY <2>1, <2>2, <2>3, <2>4
<1>11. ASSUME Cleared = {} PROVE RestartKeepsEquity
  <2>1. all = rows
    BY <1>2, <1>11
  <2> QED
    BY <1>8, <1>9, <2>1 DEF RestartKeepsEquity
<1> QED
  BY <1>10, <1>11

(* Whatever was entered, sold, closed, reset or cleared: the equity of the   *)
(* process that starts next differs from that of this one by exactly what    *)
(* the deleted trades have brought, fees of the entry included               *)
(* (paper_engine.py:115, routes.py:635-650).                                 *)
THEOREM RestartForgetsTheCleared == Spec => []RestartForgets
<1>1. IInv /\ Ledger => RestartForgets
  BY LedgerForgets
<1> QED
  BY <1>1, InvariantHolds, LedgerHolds, PTL

(* Where the history is never cleared a restart keeps the equity.            *)
THEOREM RestartKeeps ==
    ASSUME ~MayClear
    PROVE  Spec => []RestartKeepsEquity
<1>1. Init => Cleared = {}
  BY DEF Init, Cleared
<1>2. IInv /\ Cleared = {} /\ [Next]_vars => (Cleared = {})'
  <2> SUFFICES ASSUME IInv, closed \subseteq rows, [Next]_vars PROVE closed' \subseteq rows'
    BY DEF Cleared
  <2>1. ASSUME NEW s \in Symbols, NEW b \in Bars, NEW enter \in SUBSET Trades, NEW plan \in Plans,
               ProcessBar(s, b, enter, plan)
        PROVE  closed' \subseteq rows'
    BY <2>1 DEF ProcessBar
  <2>2. ASSUME NEW t \in Trades, NEW reason \in Reasons, ManualClose(t, reason)
        PROVE  closed' \subseteq rows'
    BY <2>2 DEF ManualClose
  <2>3. CASE Restart
    BY <2>3 DEF Restart, table
  <2>4. CASE Still
    BY <2>4 DEF Still, HourPasses, ResetAccount, ClearHistory, SetLimit, vars, memory, table
  <2> QED
    BY <2>1, <2>2, <2>3, <2>4, StepCases
<1>3. IInv /\ Ledger /\ Cleared = {} => RestartKeepsEquity
  BY LedgerForgets
<1> QED
  BY <1>1, <1>2, <1>3, InvariantHolds, LedgerHolds, PTL DEF Spec

===============================================================================
