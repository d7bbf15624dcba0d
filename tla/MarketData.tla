------------------------------ MODULE MarketData ------------------------------
(***************************************************************************)
(* Market data of the worker: an update cycle (data/market_updater.py)     *)
(* stores contract specifications and, for each symbol, one assessed book  *)
(* and ticker (data/liquidity.py); before an entry the worker asks the two *)
(* tables whether the liquidity is verified (_liquidity_is_verified in     *)
(* runner/worker.py).  Requests take time and fail, the exchange may serve *)
(* what it saw earlier, a contract may stop trading, a transaction of the  *)
(* updater may fail and the worker may restart.                            *)
(*                                                                         *)
(* The market is recorded at every instant, so that what the tables say of *)
(* a symbol can be compared with what was the case.                        *)
(***************************************************************************)
EXTENDS Integers

CONSTANTS
    Symbols,
    Markets,          \* what a market may be: [bid, ask, tight, busy]
    MinDepth,         \* policy.min_depth_notional
    Share,            \* 1 / policy.max_position_depth_fraction
    Notionals,        \* planned_notional of an entry
    MaxAge,           \* policy.max_age_ms
    SpecMaxAge,       \* policy.spec_max_age_ms
    MinInterval,      \* the updater's min_interval_sec
    RequestTime,      \* bound on a request (timeouts and retries of the adapter)
    MaxNow,           \* bound on the clock
    NoRow             \* a row that is missing

Market == [bid : Nat, ask : Nat, tight : BOOLEAN, busy : BOOLEAN]

Instants == 0..MaxNow
Sides    == {-1, 1}

Spec1 == [normal : BOOLEAN, fetched : Instants]

Row ==
    [active : BOOLEAN, verified : BOOLEAN,
     status : {"valid", "stale", "insufficient", "source_failed"},
     stamped : BOOLEAN,              \* whether the four time stamps are there
     bookAt : Instants, bookFetched : Instants,
     tickerAt : Instants, tickerFetched : Instants,
     bid : Nat, ask : Nat]

ASSUME MarketAssumption ==
    /\ Markets \subseteq Market /\ Markets # {}
    /\ MinDepth \in Nat /\ Share \in Nat \ {0} /\ Notionals \subseteq Nat \ {0}
    /\ MaxAge \in Nat /\ SpecMaxAge \in Nat /\ MinInterval \in Nat
    /\ RequestTime \in Nat /\ MaxNow \in Nat
    /\ NoRow \notin Spec1 /\ NoRow \notin Row

VARIABLES
    now,
    market,      \* the market of each symbol at each instant
    listed,      \* whether the contract trades, at each instant
    pc,          \* "idle", "specs", "tickers", "books"
    lastUpdate,  \* last_update_ms; -1 after a start
    cycleStart,  \* start of the running cycle
    tickers,     \* answers of this cycle: [at, fetched, busy] or NoRow
    todo,        \* symbols of this cycle without a row yet
    asked,       \* symbols whose book was asked for, with the instant, or NoRow
    specs,       \* instrument_specs: [normal, fetched] or NoRow
    universe     \* universe

world   == <<now, market, listed>>
updater == <<pc, lastUpdate, cycleStart, tickers, todo, asked>>
tables  == <<specs, universe>>
marketVars    == <<world, updater, tables>>

MarketInit ==
    /\ now = 0
    /\ market \in [Symbols -> [{0} -> Markets]]
    /\ listed = [s \in Symbols |-> [t \in {0} |-> TRUE]]
    /\ pc = "idle" /\ lastUpdate = -1 /\ cycleStart = 0
    /\ tickers = [s \in Symbols |-> NoRow]
    /\ todo = {} /\ asked = [s \in Symbols |-> NoRow]
    /\ specs = [s \in Symbols |-> NoRow]
    /\ universe = [s \in Symbols |-> NoRow]

Extend(f, x) == [t \in 0..(now + 1) |-> IF t = now + 1 THEN x ELSE f[t]]

(* Time passes, also between a request and its answer. *)
MarketMoves ==
    /\ now < MaxNow
    /\ now' = now + 1
    /\ \E m \in [Symbols -> Markets], l \in [Symbols -> BOOLEAN] :
          /\ market' = [s \in Symbols |-> Extend(market[s], m[s])]
          /\ listed' = [s \in Symbols |-> Extend(listed[s], l[s])]
    /\ UNCHANGED <<updater, tables>>

-----------------------------------------------------------------------------
(* The update cycle. *)

StartUpdate ==
    /\ pc = "idle"
    /\ lastUpdate = -1 \/ now - lastUpdate >= MinInterval
    /\ pc' = "specs"
    /\ cycleStart' = now
    /\ UNCHANGED <<world, lastUpdate, tickers, todo, asked, tables>>

\* The interval has not elapsed: the cycle goes on with the rows it has.
RateLimited ==
    /\ pc = "idle"
    /\ lastUpdate # -1 /\ now - lastUpdate < MinInterval
    /\ UNCHANGED marketVars

\* A row of a symbol without one has no stamps and no depths.
Old(s) ==
    IF universe[s] # NoRow THEN universe[s]
    ELSE [active |-> FALSE, verified |-> FALSE, status |-> "source_failed",
          stamped |-> FALSE, bookAt |-> 0, bookFetched |-> 0, tickerAt |-> 0,
          tickerFetched |-> 0, bid |-> 0, ask |-> 0]

Delisted(s) == [Old(s) EXCEPT !.active = FALSE, !.verified = FALSE, !.status = "insufficient"]

\* Variant for mutation: the second table is forgotten.
StoreSpecsOnly(present) ==
    /\ specs' = [s \in Symbols |->
                   IF s \in present THEN [normal |-> TRUE, fetched |-> now]
                   ELSE IF specs[s] # NoRow THEN [normal |-> FALSE, fetched |-> specs[s].fetched]
                   ELSE NoRow]
    /\ UNCHANGED universe

(* persist_contract_specs: an empty answer is an error and changes nothing; *)
(* a symbol that is missing in the answer is delisted in both tables.       *)
StoreSpecs(present) ==
    LET gone(s) == s \notin present /\ specs[s] # NoRow IN
    /\ specs' = [s \in Symbols |->
                   IF s \in present THEN [normal |-> TRUE, fetched |-> now]
                   ELSE IF gone(s) THEN [normal |-> FALSE, fetched |-> specs[s].fetched]
                   ELSE NoRow]
    /\ universe' = [s \in Symbols |-> IF gone(s) THEN Delisted(s) ELSE universe[s]]

\* The instants a request of this cycle that ends now may have been served at.
Earlier == {t \in cycleStart..now : now - t <= RequestTime}

(* The contracts that trade as of an instant of the request, stamped when   *)
(* the answer is there; or no usable answer, or an exception while they are *)
(* stored.  The cycle goes on in every case.  "other" is whether the answer *)
(* holds contracts besides the configured symbols.                          *)
FetchSpecs(other) ==
    /\ pc = "specs"
    /\ \/ \E at \in Earlier :
             LET present == {s \in Symbols : listed[s][at]} IN
             /\ other \/ present # {}
             /\ StoreSpecs(present)
       \/ UNCHANGED tables
    /\ pc' = "tickers"
    /\ UNCHANGED <<world, lastUpdate, cycleStart, tickers, todo, asked>>

\* The ticker of a symbol as of an instant up to now.
TickerOf(s, at) == [at |-> at, fetched |-> now, busy |-> market[s][at].busy]

(* One request for all tickers: no answer, or an answer in which symbols    *)
(* may be missing.                                                          *)
FetchTickers(found, at) ==
    /\ pc = "tickers"
    /\ tickers' = [s \in Symbols |-> IF s \in found THEN TickerOf(s, at) ELSE NoRow]
    /\ todo' = Symbols
    /\ pc' = "books"
    /\ UNCHANGED <<world, lastUpdate, cycleStart, asked, tables>>

SpecUsable(s) == specs[s] # NoRow /\ specs[s].normal /\ now - specs[s].fetched <= SpecMaxAge

\* Variant for mutation: a status nobody reads.
FailedUnnamed(s, stale) == [Old(s) EXCEPT !.verified = FALSE, !.status = "failed"]

\* record_failure: the stamps and depths of the row stay.
Failed(s, stale) ==
    [Old(s) EXCEPT !.verified = FALSE, !.status = IF stale THEN "stale" ELSE "source_failed"]

StaleSpec(s) == specs[s] # NoRow /\ specs[s].normal

(* A symbol without a usable specification is recorded as failed; for the  *)
(* others the book is asked for.                                           *)
AskBook(s) ==
    /\ pc = "books" /\ s \in todo /\ asked[s] = NoRow
    /\ \A r \in Symbols : asked[r] = NoRow
    /\ IF SpecUsable(s)
       THEN asked' = [asked EXCEPT ![s] = now] /\ UNCHANGED <<todo, universe>>
       ELSE /\ universe' = [universe EXCEPT ![s] = Failed(s, StaleSpec(s))]
            /\ todo' = todo \ {s}
            /\ UNCHANGED asked
    /\ UNCHANGED <<world, pc, lastUpdate, cycleStart, tickers, specs>>

\* LiquidityPolicy.evaluate_metrics: too old, or too thin.
TooOld(bookAt, bookFetched, t, spec) ==
    \/ now - bookAt > MaxAge \/ now - bookFetched > MaxAge
    \/ now - t.at > MaxAge \/ now - t.fetched > MaxAge
    \/ now - spec.fetched > SpecMaxAge

TooThin(m, t) == ~m.tight \/ m.bid < MinDepth \/ m.ask < MinDepth \/ ~t.busy

Assessed(m, bookAt, bookFetched, t, spec) ==
    LET old == TooOld(bookAt, bookFetched, t, spec)
        ok  == ~old /\ ~TooThin(m, t)
    IN  [active |-> TRUE, verified |-> ok,
         status |-> IF ok THEN "valid" ELSE IF old THEN "stale" ELSE "insufficient",
         stamped |-> TRUE,
         bookAt |-> bookAt, bookFetched |-> bookFetched,
         tickerAt |-> t.at, tickerFetched |-> t.fetched,
         bid |-> m.bid, ask |-> m.ask]

\* Variant for mutation: the book is stamped with the instant of its arrival.
BookArrivesStamped(s, at) ==
    /\ pc = "books" /\ asked[s] # NoRow
    /\ universe' = [universe EXCEPT ![s] =
          IF tickers[s] = NoRow THEN Failed(s, FALSE)
          ELSE Assessed(market[s][at], now, now, tickers[s], specs[s])]
    /\ todo' = todo \ {s}
    /\ asked' = [asked EXCEPT ![s] = NoRow]
    /\ UNCHANGED <<world, pc, lastUpdate, cycleStart, tickers, specs>>

(* The book arrives, as of an instant up to now: it is assessed and stored  *)
(* with the ticker, or recorded as failed when there is no ticker.          *)
BookArrives(s, at) ==
    /\ pc = "books" /\ asked[s] # NoRow
    /\ universe' = [universe EXCEPT ![s] =
          IF tickers[s] = NoRow THEN Failed(s, FALSE)
          ELSE Assessed(market[s][at], at, asked[s], tickers[s], specs[s])]
    /\ todo' = todo \ {s}
    /\ asked' = [asked EXCEPT ![s] = NoRow]
    /\ UNCHANGED <<world, pc, lastUpdate, cycleStart, tickers, specs>>

(* No answer, or none that can be used; the message of the failure may      *)
(* happen to read as one of staleness.                                      *)
BookFails(s) ==
    /\ pc = "books" /\ asked[s] # NoRow
    /\ \E stale \in BOOLEAN : universe' = [universe EXCEPT ![s] = Failed(s, stale)]
    /\ todo' = todo \ {s}
    /\ asked' = [asked EXCEPT ![s] = NoRow]
    /\ UNCHANGED <<world, pc, lastUpdate, cycleStart, tickers, specs>>

\* The locals of update_cycle are gone.
EndCycle ==
    /\ pc' = "idle" /\ cycleStart' = 0
    /\ tickers' = [s \in Symbols |-> NoRow]
    /\ todo' = {} /\ asked' = [s \in Symbols |-> NoRow]

(* The database refuses a row and its record of failure: update_cycle is    *)
(* left by the exception, and the worker goes on with the rows it has.      *)
UpdateRaises ==
    /\ pc = "books" /\ todo # {}
    /\ EndCycle
    /\ UNCHANGED <<world, lastUpdate, tables>>

UpdateDone ==
    /\ pc = "books" /\ todo = {}
    /\ EndCycle
    /\ lastUpdate' = cycleStart
    /\ UNCHANGED <<world, tables>>

Crash ==
    /\ EndCycle
    /\ lastUpdate' = -1
    /\ UNCHANGED <<world, tables>>

-----------------------------------------------------------------------------
(* The gate. *)

\* The depth of the side an entry in this direction takes.
DepthFor(s, side) == IF side = 1 THEN universe[s].ask ELSE universe[s].bid

\* Variant for mutation: the updater's verdict is taken as it is.
GateFlagOnly(s, notional, side) ==
    /\ universe[s] # NoRow /\ specs[s] # NoRow
    /\ universe[s].active /\ universe[s].verified /\ universe[s].status = "valid"
    /\ notional * Share <= DepthFor(s, side)

\* _liquidity_is_verified
LiquidityIsVerified(s, notional, side) ==
    /\ universe[s] # NoRow /\ specs[s] # NoRow
    /\ universe[s].active /\ universe[s].verified /\ universe[s].status = "valid"
    /\ universe[s].stamped
    /\ now - universe[s].bookAt <= MaxAge /\ now - universe[s].bookFetched <= MaxAge
    /\ now - universe[s].tickerAt <= MaxAge /\ now - universe[s].tickerFetched <= MaxAge
    /\ now - specs[s].fetched <= SpecMaxAge
    /\ specs[s].normal
    /\ notional * Share <= DepthFor(s, side)

\* The part of the cycle that asks the gate comes after the update.
MayEnter(s, notional, side) == pc = "idle" /\ LiquidityIsVerified(s, notional, side)

UpdateStep ==
    \/ StartUpdate \/ RateLimited
    \/ \E other \in BOOLEAN : FetchSpecs(other)
    \/ \E found \in SUBSET Symbols, at \in 0..now : FetchTickers(found, at)
    \/ \E s \in Symbols : AskBook(s) \/ BookFails(s) \/ \E at \in 0..now : BookArrives(s, at)
    \/ UpdateDone

MarketNext ==
    \/ MarketMoves
    \/ UpdateStep
    \/ UpdateRaises
    \/ Crash

MarketSpec == MarketInit /\ [][MarketNext]_marketVars

-----------------------------------------------------------------------------
(* Properties *)

(* Tables and local state hold what the updater puts there. *)
MarketTypeOK ==
    /\ now \in Instants
    /\ market \in [Symbols -> [0..now -> Markets]]
    /\ listed \in [Symbols -> [0..now -> BOOLEAN]]
    /\ pc \in {"idle", "specs", "tickers", "books"}
    /\ lastUpdate \in Instants \cup {-1} /\ cycleStart \in Instants
    /\ \A s \in Symbols : tickers[s] # NoRow =>
          tickers[s] \in [at : Instants, fetched : Instants, busy : BOOLEAN]
    /\ todo \subseteq Symbols
    /\ \A s \in Symbols : asked[s] # NoRow => asked[s] \in Instants
    /\ \A s \in Symbols : specs[s] # NoRow => specs[s] \in Spec1
    /\ \A s \in Symbols : universe[s] # NoRow => universe[s] \in Row

\* Instants that are not older than age.
Within(age) == {u \in 0..now : now - u <= age}

(* Every entry is backed by the market itself: at an instant not older than *)
(* the policy allows, the book was tight and its side deep enough for the   *)
(* entry, and at such an instant the symbol was traded enough - whatever    *)
(* was delayed, failed or restarted since (liquidity.py:20-27).             *)
EntryIsBacked ==
    \A s \in Symbols, n \in Notionals, side \in Sides : MayEnter(s, n, side) =>
        /\ \E u \in Within(MaxAge) :
              LET m == market[s][u] IN
              /\ m.tight /\ m.bid >= MinDepth /\ m.ask >= MinDepth
              /\ n * Share <= (IF side = 1 THEN m.ask ELSE m.bid)
        /\ \E u \in Within(MaxAge) : market[s][u].busy

(* No entry in a contract that was not trading within the age of a          *)
(* specification and the length of the request that fetched it.             *)
EntryIsListed ==
    \A s \in Symbols, n \in Notionals, side \in Sides : MayEnter(s, n, side) =>
        \E u \in Within(SpecMaxAge + RequestTime) : listed[s][u]

(* Flag, status and stamps of a row agree, in whatever order failures,      *)
(* delistings and assessments wrote it: readers of one need not ask for the *)
(* other (api/routes.py shows the status, the gate asks for the flag).      *)
RowsAgree ==
    \A s \in Symbols : universe[s] # NoRow =>
        /\ universe[s].verified <=> universe[s].status = "valid"
        /\ universe[s].verified =>
              universe[s].active /\ universe[s].stamped /\ specs[s] # NoRow /\ specs[s].normal

(* The gate can rely on the tables, and they on the market.                 *)
GateIsSound == EntryIsBacked /\ EntryIsListed /\ RowsAgree

===============================================================================
