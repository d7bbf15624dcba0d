----------------------------- MODULE BarPipeline -----------------------------
(***************************************************************************)
(* One closed bar through the worker, aura/runner/worker.py: in one        *)
(* transaction the bar is claimed in processed_bars, judged by the engine  *)
(* of every account, followed by an entry if the machine allows it, and    *)
(* completed; alerts are delivered after the commit.  An exception rolls   *)
(* the transaction back and resets the memory of the engine; the process   *)
(* may die at every step.  A statement that fails is taken to leave the    *)
(* transaction open, as SQLite does unless the disk is full or broken.     *)
(*                                                                         *)
(* Prices are abstracted to the verdict of a bar on a position; equity and *)
(* quantities are module PaperEngine, halt and commands ControlPlane.      *)
(***************************************************************************)
EXTENDS Integers, FiniteSets

CONSTANTS
    Symbols, Accounts,
    Master,            \* the account of self.engine
    MaxOpen,           \* self.max_open_positions
    MaxHour,           \* bound: the last hour of a behaviour
    MaxFailures,       \* bound: exceptions inside bar transactions
    MaxCrashes,        \* bound: deaths of the worker
    FeedMonotone       \* whether the exchange never serves a bar older than
                       \* one that it has served before

ASSUME PipelineAssumption ==
    /\ Symbols # {} /\ Master \in Accounts
    /\ MaxOpen \in Nat \ {0} /\ MaxHour \in Nat
    /\ MaxFailures \in Nat /\ MaxCrashes \in Nat
    /\ FeedMonotone \in BOOLEAN

Hours    == 0..MaxHour
Verdicts == {"stay", "tp1", "exit"}
Bar      == [sym : Symbols, at : Hours]
Trade    == [sym : Symbols, at : Hours, attempt : 0..MaxFailures]
Position == [trade : Trade, half : BOOLEAN, judged : Nat]
Book     == [open : SUBSET Position, closed : SUBSET Position]
Alert    == [kind : {"TRADE_OPEN", "TRADE_CLOSE"}, account : Accounts, trade : Trade]
Steps    == {"cycle", "update", "enter", "log", "complete", "alert"}

VARIABLES
    hour,      \* the hour that runs; bars before it are closed
    served,    \* the newest bar the exchange has served of each symbol
    pc,        \* step of the worker
    todo,      \* symbol_data: bars this cycle has still to process
    bar,       \* the bar in process
    verdict,   \* its effect on a position, by the hour of its entry
    turn,      \* accounts whose turn is still to come in this step
    canOpen,   \* sm.can_open_new_trades() in this cycle
    mem,       \* books in memory
    snapshot,  \* the book _snapshot_engine_state took
    pending,   \* pending_alerts
    sent,      \* alerts delivered
    resent,    \* whether an alert was delivered twice
    work,      \* [books, done] as the connection sees them
    db,        \* [books, done] as committed
    failures, crashes

feed   == <<hour, served>>
locals == <<bar, verdict, turn, snapshot>>
plan   == <<todo, canOpen, locals>>
alerts == <<pending, sent, resent>>
disk   == <<work, db>>
faults == <<failures, crashes>>
vars   == <<feed, pc, plan, mem, alerts, disk, faults>>

NoBook == [open |-> {}, closed |-> {}]
NoBar  == [sym |-> CHOOSE s \in Symbols : TRUE, at |-> 0]
Empty  == [books |-> [a \in Accounts |-> NoBook], done |-> {}]

AllStay == [h \in Hours |-> "stay"]

Init ==
    /\ hour = 0
    /\ served = [s \in Symbols |-> -1]
    /\ pc = "cycle"
    /\ todo = {} /\ canOpen = FALSE
    /\ bar = NoBar /\ verdict = AllStay /\ turn = {} /\ snapshot = NoBook
    /\ mem = Empty.books
    /\ pending = {} /\ sent = {} /\ resent = FALSE
    /\ work = Empty /\ db = Empty
    /\ failures = 0 /\ crashes = 0

\* _process_closed_bar is left: its local variables are gone.
Return ==
    /\ pc' = "cycle"
    /\ bar' = NoBar /\ verdict' = AllStay /\ turn' = {} /\ snapshot' = NoBook

Of(book, s) == {p \in book.open : p.trade.sym = s}

\* _persist_trade for positions of one account: INSERT ... ON CONFLICT UPDATE.
Upsert(book, opens, closes) ==
    LET Others(ps) == {p \in ps : \A q \in opens \cup closes : p.trade # q.trade}
    IN  [open |-> Others(book.open) \cup opens, closed |-> Others(book.closed) \cup closes]

\* What the statements of one account write, inside the open transaction.
Write(a, opens, closes) ==
    /\ work' = [books |-> [work.books EXCEPT ![a] = Upsert(@, opens, closes)],
                done |-> work.done]
    /\ UNCHANGED db

-----------------------------------------------------------------------------

HourPasses ==
    /\ pc = "cycle" /\ todo = {}
    /\ hour < MaxHour
    /\ hour' = hour + 1
    /\ UNCHANGED <<served, pc, plan, mem, alerts, disk, faults>>

\* fetch_candles takes every bar for closed that is not the last one served.
LastClosed(newest) == newest - 1

\* _is_candle_feed_healthy: a closed bar that ended at most two hours ago.
FreshBars == {h \in {LastClosed(newest) : newest \in 1..hour} : hour - (h + 1) <= 2}

(* The feeds of a cycle: symbols without a healthy feed are not processed, *)
(* and nothing is entered unless all are healthy and the machine runs.     *)
FetchFeeds(healthy, last) ==
    /\ pc = "cycle" /\ todo = {}
    /\ healthy # {}
    /\ \A s \in healthy : last[s] \in FreshBars
    /\ FeedMonotone => \A s \in healthy : last[s] >= served[s]
    /\ served' = [s \in Symbols |-> IF s \in healthy /\ last[s] > served[s]
                                    THEN last[s] ELSE served[s]]
    /\ todo' = {[sym |-> s, at |-> last[s]] : s \in healthy}
    /\ canOpen' \in (IF healthy = Symbols THEN BOOLEAN ELSE {FALSE})
    /\ UNCHANGED <<hour, pc, locals, mem, alerts, disk, faults>>

\* A bar that is judged has some effect on the positions of its symbol.
VerdictsOn(s) ==
    {v \in [Hours -> Verdicts] :
        \A h \in Hours : v[h] # "stay" =>
            \E a \in Accounts : \E p \in Of(mem[a], s) : p.trade.at = h}

\* Variant for mutation: a bar is claimed whether or not it was before.
ClaimAgain(b, v) ==
    /\ pc = "cycle" /\ b \in todo
    /\ todo' = todo \ {b}
    /\ snapshot' = mem[Master]
    /\ pending' = {}
    /\ bar' = b /\ verdict' = v /\ turn' = Accounts /\ pc' = "update"
    /\ work' = [books |-> work.books, done |-> work.done \cup {b}]
    /\ UNCHANGED <<feed, canOpen, mem, sent, resent, db, faults>>

(* _claim_closed_bar: the snapshot, BEGIN, and the row of the bar, unless  *)
(* it is there already.                                                    *)
Claim(b, v) ==
    /\ pc = "cycle" /\ b \in todo
    /\ todo' = todo \ {b}
    /\ pending' = {}
    /\ IF b \in work.done
       THEN UNCHANGED <<pc, locals, work>>
       ELSE /\ snapshot' = mem[Master]
            /\ bar' = b /\ verdict' = v /\ turn' = Accounts /\ pc' = "update"
            /\ work' = [books |-> work.books, done |-> work.done \cup {b}]
    /\ UNCHANGED <<feed, canOpen, mem, sent, resent, db, faults>>

\* on_bar_update on one position.
Judged(p) == [trade |-> p.trade, half |-> p.half \/ verdict[p.trade.at] = "tp1",
              judged |-> p.judged + 1]

\* The engines take their turns in the order of self.engines, the master first.
Turn(a) == a \in turn /\ (a = Master \/ Master \notin turn)

CloseAlert(a, p) == [kind |-> "TRADE_CLOSE", account |-> a, trade |-> p.trade]

(* eng.on_bar_update of one account, with its writes. *)
UpdateEngine(a) ==
    LET judged == {Judged(p) : p \in Of(mem[a], bar.sym)}
        gone   == {p \in judged : verdict[p.trade.at] = "exit"}
    IN
    /\ pc = "update" /\ Turn(a)
    /\ turn' = turn \ {a}
    /\ mem' = [mem EXCEPT ![a] = [open |-> (@.open \ Of(@, bar.sym)) \cup (judged \ gone),
                                  closed |-> @.closed \cup gone]]
    /\ Write(a, judged \ gone, gone)
    /\ pending' = pending \cup {CloseAlert(a, p) : p \in gone}
    /\ UNCHANGED <<feed, pc, todo, bar, verdict, canOpen, snapshot, sent, resent, faults>>

\* The worker asks the master's book for both accounts.
MasterMayEnter ==
    /\ canOpen
    /\ Of(mem[Master], bar.sym) = {}
    /\ Cardinality(mem[Master].open) < MaxOpen

(* After all engines: the entry, or the row of a rejection in shadow_log,  *)
(* or neither.                                                             *)
Decide ==
    /\ pc = "update" /\ turn = {}
    /\ \/ /\ MasterMayEnter
          /\ pc' = "enter" /\ turn' = Accounts
       \/ /\ pc' \in (IF canOpen /\ ~MasterMayEnter THEN {"log"} ELSE {"log", "complete"})
          /\ turn' = {}
    /\ UNCHANGED <<feed, todo, bar, verdict, canOpen, snapshot, mem, alerts, disk, faults>>

(* The entry of one account; a plan that is invalid or finds no liquidity  *)
(* is skipped.                                                             *)
EnterEngine(a) ==
    LET t == [sym |-> bar.sym, at |-> bar.at, attempt |-> failures]
        p == [trade |-> t, half |-> FALSE, judged |-> 0]
    IN
    /\ pc = "enter" /\ Turn(a)
    /\ turn' = turn \ {a}
    /\ \/ /\ Cardinality(mem[a].open) < MaxOpen
          /\ Of(mem[a], bar.sym) = {}
          /\ mem' = [mem EXCEPT ![a] = [open |-> @.open \cup {p}, closed |-> @.closed]]
          /\ Write(a, {p}, {})
          /\ pending' = {x \in pending : x.kind = "TRADE_CLOSE"}
                        \cup {[kind |-> "TRADE_OPEN", account |-> a, trade |-> t]}
       \/ UNCHANGED <<mem, pending, disk>>
    /\ UNCHANGED <<feed, pc, todo, bar, verdict, canOpen, snapshot, sent, resent, faults>>

Entered ==
    /\ pc = "enter" /\ turn = {}
    /\ pc' = IF \E x \in pending : x.kind = "TRADE_OPEN" THEN "log" ELSE "complete"
    /\ UNCHANGED <<feed, plan, mem, alerts, disk, faults>>

(* _log_decision: the row is written, or its exception is swallowed.  *)
LogDecision ==
    /\ pc = "log"
    /\ pc' = "complete"
    /\ UNCHANGED <<feed, plan, mem, alerts, disk, faults>>

(* _complete_closed_bar, an UPDATE of the claimed row, and the COMMIT.     *)
Commit ==
    /\ pc = "complete"
    /\ db' = work
    /\ pc' = "alert"
    /\ UNCHANGED <<feed, plan, mem, alerts, work, faults>>

\* Variant for mutation: the alerts of the bar go out all the same.
FailAlerting ==
    /\ pc \in {"update", "enter", "log", "complete"}
    /\ failures < MaxFailures
    /\ failures' = failures + 1
    /\ work' = db
    /\ mem' = [mem EXCEPT ![Master] = snapshot]
    /\ pc' = "alert"
    /\ UNCHANGED <<feed, plan, alerts, db, crashes>>

\* Variant for mutation: the memory is not reset.
FailKeepingMemory ==
    /\ pc \in {"update", "enter", "log", "complete"}
    /\ failures < MaxFailures
    /\ failures' = failures + 1
    /\ work' = db
    /\ Return /\ pending' = {}
    /\ UNCHANGED <<feed, todo, canOpen, mem, sent, resent, db, crashes>>

(* An exception of a statement, of the commit or of the evaluation: the    *)
(* transaction is rolled back and the book of self.engine reset; the cycle *)
(* goes on with the next symbol.                                           *)
Fail ==
    /\ pc \in {"update", "enter", "log", "complete"}
    /\ failures < MaxFailures
    /\ failures' = failures + 1
    /\ work' = db
    /\ mem' = [mem EXCEPT ![Master] = snapshot]
    /\ Return /\ pending' = {}
    /\ UNCHANGED <<feed, todo, canOpen, sent, resent, db, crashes>>

(* notifier.send_alert; delivered or not, the next one follows. *)
SendAlert(x) ==
    /\ pc = "alert" /\ x \in pending
    /\ pending' = pending \ {x}
    /\ \/ sent' = sent \cup {x} /\ resent' = (resent \/ x \in sent)
       \/ UNCHANGED <<sent, resent>>
    /\ UNCHANGED <<feed, pc, plan, mem, disk, faults>>

AlertsDone ==
    /\ pc = "alert" /\ pending = {}
    /\ Return
    /\ UNCHANGED <<feed, todo, canOpen, mem, alerts, disk, faults>>

\* Variant for mutation: a bar is marked in a transaction of its own.
CrashAfterMark ==
    /\ crashes < MaxCrashes
    /\ crashes' = crashes + 1
    /\ db' = [books |-> db.books, done |-> work.done]
    /\ work' = db'
    /\ mem' = db.books
    /\ Return /\ todo' = {} /\ canOpen' = FALSE /\ pending' = {}
    /\ UNCHANGED <<feed, sent, resent, failures>>

(* The process dies; the next one loads the books of the database. *)
CrashAndRestart ==
    /\ crashes < MaxCrashes
    /\ crashes' = crashes + 1
    /\ work' = db
    /\ mem' = db.books
    /\ Return /\ todo' = {} /\ canOpen' = FALSE /\ pending' = {}
    /\ UNCHANGED <<feed, sent, resent, db, failures>>

Process ==
    \/ \E b \in todo : \E v \in VerdictsOn(b.sym) : Claim(b, v)
    \/ \E a \in Accounts : UpdateEngine(a) \/ EnterEngine(a)
    \/ Decide \/ Entered \/ LogDecision \/ Commit
    \/ \E x \in pending : SendAlert(x)
    \/ AlertsDone

Next ==
    \/ HourPasses
    \/ \E healthy \in SUBSET Symbols, last \in [Symbols -> Hours] : FetchFeeds(healthy, last)
    \/ Process
    \/ Fail \/ CrashAndRestart

Spec == Init /\ [][Next]_vars

-----------------------------------------------------------------------------
(* Properties *)

State == [books : [Accounts -> Book], done : SUBSET Bar]

(* Memory, transaction and tables hold what the code puts there. *)
TypeOK ==
    /\ hour \in Hours /\ served \in [Symbols -> Hours \cup {-1}]
    /\ pc \in Steps
    /\ todo \subseteq Bar /\ bar \in Bar /\ verdict \in [Hours -> Verdicts]
    /\ turn \subseteq Accounts /\ canOpen \in BOOLEAN /\ snapshot \in Book
    /\ mem \in [Accounts -> Book]
    /\ pending \subseteq Alert /\ sent \subseteq Alert /\ resent \in BOOLEAN
    /\ work \in State /\ db \in State
    /\ failures \in 0..MaxFailures /\ crashes \in 0..MaxCrashes

InSync(a) == pc \in {"cycle", "alert"} => mem[a] = db.books[a]

(* Between two bars the book of self.engine is the one in the database:     *)
(* exceptions roll back both, and a crash loses neither (worker.py:495-500).*)
MasterInSync == InSync(Master)

(* The same of every engine, as worker.py:498 promises.                     *)
EnginesInSync == \A a \in Accounts : InSync(a)

(* Bars are processed exactly once (0002_processed_bars.sql:1): a committed *)
(* bar has judged every position that was open before it, and no failed or  *)
(* interrupted attempt at it has left a trace.                              *)
JudgedOnce ==
    \A p \in db.books[Master].open :
        p.judged = Cardinality({b \in db.done : b.sym = p.trade.sym /\ b.at > p.trade.at})

(* What an alert has told is in the database: no alert of a bar that was    *)
(* rolled back.                                                             *)
AlertsTrue ==
    \A x \in sent :
        \E p \in db.books[x.account].open \cup db.books[x.account].closed :
            /\ p.trade = x.trade
            /\ x.kind = "TRADE_CLOSE" => p \in db.books[x.account].closed

(* No alert is delivered twice, by a bar that is processed again or by a    *)
(* worker that restarts.                                                    *)
AlertsOnce == ~resent

(* What the operator is told has happened, and is told once.                *)
AlertsAreExact == AlertsTrue /\ AlertsOnce

(* The committed book of the master changes by whole bars only, each bar    *)
(* once: what the transaction promises, module AtomicBars.                  *)
Atomic == INSTANCE AtomicBars WITH
    book <- db.books[Master], done <- db.done,
    Bars <- Bar, Attempts <- 0..MaxFailures, Limit <- MaxOpen

BarsAreAtomic == Atomic!Spec

=============================================================================
