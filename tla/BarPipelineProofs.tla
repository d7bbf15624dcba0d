-------------------------- MODULE BarPipelineProofs --------------------------
(***************************************************************************)
(* One closed bar for the master account, for any symbols, accounts and    *)
(* bounds: its memory comes back to the database after every exception and *)
(* every restart, and the committed book changes by whole bars, each bar   *)
(* once (AtomicBars).  For every account: its alerts are true and new.     *)
(***************************************************************************)
EXTENDS BarPipeline, FiniteSetTheorems, TLAPS

\* What a bar with verdict v does to a position and to a book, and the entry
\* of the bar; the operators of the pipeline without its variables.
JudgedBy(p, v) ==
    [trade |-> p.trade, half |-> p.half \/ v[p.trade.at] = "tp1", judged |-> p.judged + 1]

JudgedIn(book, s, v) == {JudgedBy(p, v) : p \in Of(book, s)}
GoneIn(book, s, v)   == {q \in JudgedIn(book, s, v) : v[q.trade.at] = "exit"}

After(book, s, v) ==
    [open |-> (book.open \ Of(book, s)) \cup (JudgedIn(book, s, v) \ GoneIn(book, s, v)),
     closed |-> book.closed \cup GoneIn(book, s, v)]

NewPosition(b, n) ==
    [trade |-> [sym |-> b.sym, at |-> b.at, attempt |-> n], half |-> FALSE, judged |-> 0]

WithNew(book, b, n) == [open |-> book.open \cup {NewPosition(b, n)}, closed |-> book.closed]

RoomFor(book, b) == Cardinality(book.open) < MaxOpen /\ Of(book, b.sym) = {}

\* The trade id is a key of the book, and names a bar that is recorded.
Keyed(book, done) ==
    /\ \A p, q \in book.open \cup book.closed : p.trade = q.trade => p = q
    /\ book.open \cap book.closed = {}
    /\ \A p \in book.open \cup book.closed : [sym |-> p.trade.sym, at |-> p.trade.at] \in done

Committed == db.books[Master]
Working   == work.books[Master]
InBar     == pc \in {"update", "enter", "log", "complete"}

Types ==
    /\ pc \in Steps
    /\ todo \subseteq Bar /\ bar \in Bar /\ verdict \in [Hours -> Verdicts]
    /\ snapshot \in Book
    /\ mem \in [Accounts -> Book] /\ work \in State /\ db \in State
    /\ failures \in 0..MaxFailures

\* Between two bars connection and memory are at the committed state.
BetweenBars == ~InBar => work = db /\ mem[Master] = Committed

\* In a bar the memory is what the connection has written, and what it has
\* written is the part of the bar that is done.
InsideBar ==
    InBar =>
        /\ bar \notin db.done /\ work.done = db.done \cup {bar}
        /\ snapshot = Committed
        /\ mem[Master] = Working
        /\ pc = "update" /\ Master \in turn => Working = Committed
        /\ pc = "update" /\ Master \notin turn => Working = After(Committed, bar.sym, verdict)
        /\ pc = "enter" /\ Master \in turn => Working = After(Committed, bar.sym, verdict)
        /\ (pc = "enter" /\ Master \notin turn) \/ pc \in {"log", "complete"} =>
              \/ Working = After(Committed, bar.sym, verdict)
              \/ /\ RoomFor(After(Committed, bar.sym, verdict), bar)
                 /\ Working = WithNew(After(Committed, bar.sym, verdict), bar, failures)

IInv == Types /\ BetweenBars /\ InsideBar /\ Keyed(Committed, db.done)

-----------------------------------------------------------------------------
(* Books. *)

(* A judged position is a position with the same trade. *)
LEMMA JudgedType ==
    ASSUME NEW p \in Position, NEW v \in [Hours -> Verdicts]
    PROVE  JudgedBy(p, v) \in Position /\ JudgedBy(p, v).trade = p.trade
BY DEF JudgedBy, Position

(* Books stay books. *)
LEMMA BookTypes ==
    ASSUME NEW book \in Book, NEW b \in Bar, NEW v \in [Hours -> Verdicts],
           NEW n \in 0..MaxFailures
    PROVE  After(book, b.sym, v) \in Book /\ WithNew(book, b, n) \in Book
<1>1. book.open \subseteq Position /\ book.closed \subseteq Position
  BY DEF Book
<1>2. JudgedIn(book, b.sym, v) \subseteq Position
  BY <1>1, JudgedType DEF JudgedIn, Of
<1>3. NewPosition(b, n) \in Position
  BY DEF NewPosition, Position, Trade, Bar
<1> QED
  BY <1>1, <1>2, <1>3 DEF After, WithNew, GoneIn, Book

(* The rows _persist_trade writes for a bar are the book after the bar. *)
LEMMA UpsertJudged ==
    ASSUME NEW book \in Book, NEW done, Keyed(book, done), NEW s, NEW v \in [Hours -> Verdicts]
    PROVE  Upsert(book, JudgedIn(book, s, v) \ GoneIn(book, s, v), GoneIn(book, s, v))
             = After(book, s, v)
<1> DEFINE judged == JudgedIn(book, s, v)
           gone == GoneIn(book, s, v)
           Others(ps) == {p \in ps : \A q \in (judged \ gone) \cup gone : p.trade # q.trade}
<1>1. book.open \subseteq Position /\ book.closed \subseteq Position
  BY DEF Book
<1>2. (judged \ gone) \cup gone = judged
  BY DEF GoneIn
<1>3. \A q \in judged : \E p \in Of(book, s) : q.trade = p.trade
  BY <1>1, JudgedType DEF JudgedIn, Of
<1>4. \A p \in Of(book, s) : \E q \in judged : q.trade = p.trade
  BY <1>1, JudgedType DEF JudgedIn, Of
<1>5. Of(book, s) \subseteq book.open
  BY DEF Of
<1> HIDE DEF judged, gone
<1>6. Others(book.open) = book.open \ Of(book, s)
  BY <1>2, <1>3, <1>4, <1>5 DEF Keyed
<1>7. Others(book.closed) = book.closed
  BY <1>2, <1>3, <1>5 DEF Keyed
<1>8. Upsert(book, judged \ gone, gone) =
        [open |-> Others(book.open) \cup (judged \ gone), closed |-> Others(book.closed) \cup gone]
  BY DEF Upsert
<1> QED
  BY <1>6, <1>7, <1>8 DEF After, judged, gone

(* The row of an entry is a new one. *)
LEMMA UpsertNew ==
    ASSUME NEW book \in Book, NEW done, Keyed(book, done),
           NEW b \in Bar, b \notin done, NEW n \in 0..MaxFailures
    PROVE  Upsert(book, {NewPosition(b, n)}, {}) = WithNew(book, b, n)
<1> DEFINE new == NewPosition(b, n)
           Others(ps) == {p \in ps : \A q \in {new} \cup {} : p.trade # q.trade}
<1>1. b = [sym |-> b.sym, at |-> b.at]
  BY DEF Bar
<1>2. new.trade.sym = b.sym /\ new.trade.at = b.at
  BY DEF NewPosition
<1>3. \A p \in book.open \cup book.closed : p.trade # new.trade
  BY <1>1, <1>2 DEF Keyed
<1> HIDE DEF new
<1>4. Others(book.open) = book.open /\ Others(book.closed) = book.closed
  BY <1>3
<1>5. Upsert(book, {new}, {}) =
        [open |-> Others(book.open) \cup {new}, closed |-> Others(book.closed) \cup {}]
  BY DEF Upsert
<1> QED
  BY <1>4, <1>5 DEF WithNew, new

(* Keys stay keys: a bar keeps the trades, and an entry takes the bar's. *)
LEMMA KeyedAfter ==
    ASSUME NEW book \in Book, NEW done, Keyed(book, done), NEW s, NEW v \in [Hours -> Verdicts]
    PROVE  Keyed(After(book, s, v), done)
<1> DEFINE judged == JudgedIn(book, s, v)
           gone == GoneIn(book, s, v)
           new == After(book, s, v)
<1>1. book.open \subseteq Position /\ book.closed \subseteq Position
  BY DEF Book
<1>2. Of(book, s) \subseteq book.open /\ gone \subseteq judged
  BY DEF Of, GoneIn
<1>3. \A q \in judged : \E p \in Of(book, s) : q = JudgedBy(p, v) /\ q.trade = p.trade
  BY <1>1, JudgedType DEF JudgedIn, Of
<1>4. /\ new.open = (book.open \ Of(book, s)) \cup (judged \ gone)
      /\ new.closed = book.closed \cup gone
  BY DEF After
<1> HIDE DEF judged, gone, new
\* Every position of the new book comes from one of the old book.
<1>5. \A q \in new.open \cup new.closed :
         \/ q \notin judged /\ q \in (book.open \ Of(book, s)) \cup book.closed
         \/ q \in judged
  BY <1>2, <1>4
<1>6. \A p, q \in judged : p.trade = q.trade => p = q
  BY <1>2, <1>3 DEF Keyed
<1>7. \A p \in (book.open \ Of(book, s)) \cup book.closed : \A q \in judged : p.trade # q.trade
  BY <1>2, <1>3 DEF Keyed
<1>8. \A p, q \in new.open \cup new.closed : p.trade = q.trade => p = q
  BY <1>2, <1>5, <1>6, <1>7 DEF Keyed
<1>9. new.open \cap new.closed = {}
  BY <1>2, <1>4, <1>7 DEF Keyed
<1>10. \A q \in new.open \cup new.closed : [sym |-> q.trade.sym, at |-> q.trade.at] \in done
  <2>1. \A p \in book.open \cup book.closed : [sym |-> p.trade.sym, at |-> p.trade.at] \in done
    BY DEF Keyed
  <2> QED
    BY <1>2, <1>3, <1>5, <2>1
<1> QED
  BY <1>8, <1>9, <1>10 DEF Keyed, new

LEMMA KeyedNew ==
    ASSUME NEW book \in Book, NEW done, Keyed(book, done),
           NEW b \in Bar, b \notin done, NEW n \in 0..MaxFailures
    PROVE  Keyed(book, done \cup {b}) /\ Keyed(WithNew(book, b, n), done \cup {b})
<1> DEFINE new == NewPosition(b, n)
<1>1. b = [sym |-> b.sym, at |-> b.at]
  BY DEF Bar
<1>2. new.trade.sym = b.sym /\ new.trade.at = b.at
  BY DEF NewPosition
<1>3. \A p \in book.open \cup book.closed : p.trade # new.trade
  BY <1>1, <1>2 DEF Keyed
<1>4. WithNew(book, b, n).open = book.open \cup {new} /\ WithNew(book, b, n).closed = book.closed
  BY DEF WithNew
<1> HIDE DEF new
<1> QED
  BY <1>1, <1>2, <1>3, <1>4 DEF Keyed

-----------------------------------------------------------------------------
(* Every action preserves the invariant. *)

LEMMA InitIInv == Init => IInv
<1> SUFFICES ASSUME Init PROVE IInv
  OBVIOUS
<1>1. NoBook \in Book
  BY DEF NoBook, Book
<1>2. Empty \in State /\ Empty.books \in [Accounts -> Book] /\ Empty.books[Master] = NoBook
  BY <1>1, PipelineAssumption DEF Empty, State
<1>3. AllStay \in [Hours -> Verdicts]
  BY DEF AllStay, Verdicts
<1>4. bar \in Bar
  <2>1. bar = [sym |-> CHOOSE s \in Symbols : TRUE, at |-> 0] /\ 0 \in Hours
    BY PipelineAssumption DEF Init, NoBar, Hours
  <2>2. (CHOOSE s \in Symbols : TRUE) \in Symbols
    BY PipelineAssumption
  <2> QED
    BY <2>1, <2>2 DEF Bar
<1>5. Types
  BY <1>1, <1>2, <1>3, <1>4, PipelineAssumption DEF Init, Types, Steps
<1>6. Keyed(Committed, db.done)
  BY <1>2 DEF Init, Committed, NoBook, Keyed
<1>7. ~InBar
  BY DEF Init, InBar
<1> QED
  BY <1>5, <1>6, <1>7 DEF Init, IInv, BetweenBars, InsideBar, Committed

(* A bar that is claimed starts at the committed state. *)
LEMMA ClaimIInv ==
    ASSUME IInv, NEW b \in Bar, NEW v \in [Hours -> Verdicts], Claim(b, v)
    PROVE  IInv'
<1>1. pc = "cycle" /\ ~InBar /\ work = db /\ mem[Master] = Committed
  BY DEF Claim, InBar, IInv, BetweenBars
<1>2. mem' = mem /\ db' = db /\ failures' = failures /\ todo' \subseteq todo
  BY DEF Claim, faults
<1>3. CASE b \in work.done
  <2>1. pc' = pc /\ work' = work /\ bar' = bar /\ verdict' = verdict /\ snapshot' = snapshot
    BY <1>3 DEF Claim, locals
  <2>2. Types'
    BY <1>2, <2>1 DEF IInv, Types
  <2> QED
    BY <1>1, <1>2, <2>1, <2>2 DEF IInv, BetweenBars, InsideBar, InBar, Committed
<1>4. CASE b \notin work.done
  <2>1. /\ pc' = "update" /\ bar' = b /\ verdict' = v /\ turn' = Accounts
        /\ snapshot' = mem[Master]
        /\ work' = [books |-> work.books, done |-> work.done \cup {b}]
    BY <1>4 DEF Claim
  <2>2. work' \in State /\ work'.books = work.books /\ work'.done = work.done \cup {b}
    BY <2>1 DEF IInv, Types, State
  <2>3. mem[Master] \in Book
    BY PipelineAssumption DEF IInv, Types
  <2>4. Types'
    BY <1>2, <2>1, <2>2, <2>3 DEF IInv, Types, Steps
  <2>5. InsideBar'
    BY <1>1, <1>2, <1>4, <2>1, <2>2, PipelineAssumption DEF InsideBar, Committed, Working
  <2>6. Keyed(Committed, db.done)' /\ BetweenBars'
    BY <1>2, <2>1 DEF IInv, Committed, BetweenBars, InBar
  <2> QED
    BY <2>4, <2>5, <2>6 DEF IInv
<1> QED
  BY <1>3, <1>4

(* What the writes of one account do to the connection's view. *)
LEMMA WriteEffect ==
    ASSUME Types, NEW a \in Accounts, NEW opens, NEW closes, Write(a, opens, closes),
           Upsert(work.books[a], opens, closes) \in Book
    PROVE  /\ work' \in State /\ work'.done = work.done /\ db' = db
           /\ work'.books[a] = Upsert(work.books[a], opens, closes)
           /\ \A c \in Accounts : c # a => work'.books[c] = work.books[c]
BY DEF Write, Types, State

(* The account other than the master may be ahead of its rows after an     *)
(* exception; its books only have to be books.                             *)
LEMMA UpsertType ==
    ASSUME NEW book \in Book, NEW opens \in SUBSET Position, NEW closes \in SUBSET Position
    PROVE  Upsert(book, opens, closes) \in Book
BY DEF Upsert, Book

(* The turn of an engine: the master goes from the committed book to the   *)
(* book after the bar, the others leave it alone.                          *)
LEMMA UpdateIInv ==
    ASSUME IInv, NEW a \in Accounts, UpdateEngine(a)
    PROVE  IInv'
<1> DEFINE judged == JudgedIn(mem[a], bar.sym, verdict)
           gone == GoneIn(mem[a], bar.sym, verdict)
<1>1. judged = {Judged(p) : p \in Of(mem[a], bar.sym)}
  BY DEF JudgedIn, JudgedBy, Judged
<1>2. gone = {p \in judged : verdict[p.trade.at] = "exit"}
  BY DEF GoneIn
<1>3. /\ pc = "update" /\ Turn(a) /\ turn' = turn \ {a}
      /\ mem' = [mem EXCEPT ![a] = [open |-> (@.open \ Of(@, bar.sym)) \cup (judged \ gone),
                                    closed |-> @.closed \cup gone]]
      /\ Write(a, judged \ gone, gone)
      /\ pc' = pc /\ todo' = todo /\ bar' = bar /\ verdict' = verdict /\ snapshot' = snapshot
      /\ failures' = failures
  BY <1>1, <1>2 DEF UpdateEngine, faults
<1>4. /\ mem \in [Accounts -> Book] /\ mem[a] \in Book /\ bar \in Bar
      /\ verdict \in [Hours -> Verdicts] /\ work \in State /\ work.books[a] \in Book
  BY DEF IInv, Types, State
<1>5. judged \subseteq Position /\ gone \subseteq judged
  BY <1>4, JudgedType DEF JudgedIn, GoneIn, Of, Book
<1>6. mem' = [mem EXCEPT ![a] = After(mem[a], bar.sym, verdict)]
  BY <1>3 DEF After
<1> HIDE DEF judged, gone
<1>7. After(mem[a], bar.sym, verdict) \in Book
  <2>1. 0 \in 0..MaxFailures
    BY PipelineAssumption
  <2> QED
    BY <1>4, <2>1, BookTypes
<1>8. Upsert(work.books[a], judged \ gone, gone) \in Book
  BY <1>4, <1>5, UpsertType
<1>9. /\ work' \in State /\ work'.done = work.done /\ db' = db
      /\ work'.books[a] = Upsert(work.books[a], judged \ gone, gone)
      /\ \A c \in Accounts : c # a => work'.books[c] = work.books[c]
  BY <1>3, <1>8, WriteEffect DEF IInv
<1>10. Types'
  BY <1>3, <1>4, <1>6, <1>7, <1>9 DEF IInv, Types
<1>11. InBar /\ InBar'
  BY <1>3 DEF InBar
<1>12. InsideBar'
  <2>1. /\ bar \notin db.done /\ work.done = db.done \cup {bar} /\ snapshot = Committed
        /\ mem[Master] = Working
        /\ Master \in turn => Working = Committed
        /\ Master \notin turn => Working = After(Committed, bar.sym, verdict)
    BY <1>3, <1>11 DEF IInv, InsideBar
  <2>2. CASE a = Master
    <3>1. Master \in turn /\ Master \notin turn'
      BY <1>3, <2>2 DEF Turn
    <3>2. work.books[a] = mem[a] /\ mem[a] = Committed
      BY <2>1, <2>2, <3>1 DEF Working
    <3>3. Upsert(work.books[a], judged \ gone, gone) = After(Committed, bar.sym, verdict)
      BY <1>4, <3>2, UpsertJudged DEF IInv, judged, gone
    <3>4. Working' = After(Committed, bar.sym, verdict) /\ mem'[Master] = Working'
      BY <1>4, <1>6, <1>9, <2>2, <3>2, <3>3 DEF Working
    <3> QED
      BY <1>3, <1>9, <2>1, <3>1, <3>4 DEF InsideBar, Committed
  <2>3. CASE a # Master
    <3>1. Working' = Working /\ mem'[Master] = mem[Master]
      BY <1>4, <1>6, <1>9, <2>3, PipelineAssumption DEF Working
    <3>2. Master \in turn' <=> Master \in turn
      BY <1>3, <2>3
    <3> QED
      BY <1>3, <1>9, <2>1, <3>1, <3>2 DEF InsideBar, Committed
  <2> QED
    BY <2>2, <2>3
<1> QED
  BY <1>9, <1>10, <1>11, <1>12 DEF IInv, BetweenBars, Committed

(* The entry of an engine: the master may add the bar's position. *)
LEMMA EnterIInv ==
    ASSUME IInv, NEW a \in Accounts, EnterEngine(a)
    PROVE  IInv'
<1> DEFINE new == NewPosition(bar, failures)
<1>1. /\ pc = "enter" /\ Turn(a) /\ turn' = turn \ {a}
      /\ pc' = pc /\ todo' = todo /\ bar' = bar /\ verdict' = verdict /\ snapshot' = snapshot
      /\ failures' = failures
  BY DEF EnterEngine, faults
<1>2. \/ /\ RoomFor(mem[a], bar)
         /\ mem' = [mem EXCEPT ![a] = WithNew(mem[a], bar, failures)]
         /\ Write(a, {new}, {})
      \/ mem' = mem /\ work' = work /\ db' = db
  BY DEF EnterEngine, NewPosition, WithNew, RoomFor, disk
<1>3. /\ mem \in [Accounts -> Book] /\ mem[a] \in Book /\ bar \in Bar
      /\ verdict \in [Hours -> Verdicts] /\ work \in State /\ work.books[a] \in Book
      /\ failures \in 0..MaxFailures /\ Committed \in Book
  BY PipelineAssumption DEF IInv, Types, State, Committed
<1>4. new \in Position
  BY <1>3 DEF NewPosition, Position, Trade, Bar
<1>5. InBar /\ InBar'
  BY <1>1 DEF InBar
<1>6. /\ bar \notin db.done /\ work.done = db.done \cup {bar} /\ snapshot = Committed
      /\ mem[Master] = Working
      /\ Master \in turn => Working = After(Committed, bar.sym, verdict)
      /\ Master \notin turn =>
            \/ Working = After(Committed, bar.sym, verdict)
            \/ /\ RoomFor(After(Committed, bar.sym, verdict), bar)
               /\ Working = WithNew(After(Committed, bar.sym, verdict), bar, failures)
  BY <1>1, <1>5 DEF IInv, InsideBar
<1>7. CASE mem' = mem /\ work' = work /\ db' = db
  <2>1. Types'
    BY <1>1, <1>7 DEF IInv, Types
  <2>2. InsideBar'
    BY <1>1, <1>6, <1>7 DEF InsideBar, Committed, Working
  <2> QED
    BY <1>5, <1>7, <2>1, <2>2 DEF IInv, BetweenBars, Committed
<1>8. CASE /\ RoomFor(mem[a], bar)
           /\ mem' = [mem EXCEPT ![a] = WithNew(mem[a], bar, failures)]
           /\ Write(a, {new}, {})
  <2>1. WithNew(mem[a], bar, failures) \in Book
    BY <1>3, BookTypes
  <2>2. Upsert(work.books[a], {new}, {}) \in Book
    BY <1>3, <1>4, UpsertType
  <2>3. /\ work' \in State /\ work'.done = work.done /\ db' = db
        /\ work'.books[a] = Upsert(work.books[a], {new}, {})
        /\ \A c \in Accounts : c # a => work'.books[c] = work.books[c]
    BY <1>8, <2>2, WriteEffect DEF IInv
  <2>4. Types'
    BY <1>1, <1>3, <1>8, <2>1, <2>3 DEF IInv, Types
  <2>5. CASE a = Master
    <3>1. Master \in turn /\ Master \notin turn'
      BY <1>1, <2>5 DEF Turn
    <3>2. work.books[a] = mem[a] /\ mem[a] = After(Committed, bar.sym, verdict)
      BY <1>6, <2>5, <3>1 DEF Working
    <3>3. Keyed(mem[a], db.done)
      BY <1>3, <3>2, KeyedAfter DEF IInv
    <3>4. Upsert(work.books[a], {new}, {}) = WithNew(mem[a], bar, failures)
      BY <1>3, <1>6, <3>2, <3>3, UpsertNew
    <3>5. /\ Working' = WithNew(After(Committed, bar.sym, verdict), bar, failures)
          /\ mem'[Master] = Working'
      BY <1>3, <1>8, <2>3, <2>5, <3>2, <3>4 DEF Working
    <3>6. InsideBar'
      BY <1>1, <1>6, <1>8, <2>3, <2>5, <3>1, <3>2, <3>5 DEF InsideBar, Committed
    <3> QED
      BY <1>5, <2>3, <2>4, <3>6 DEF IInv, BetweenBars, Committed
  <2>6. CASE a # Master
    <3>1. Working' = Working /\ mem'[Master] = mem[Master]
      BY <1>3, <1>8, <2>3, <2>6, PipelineAssumption DEF Working
    <3>2. Master \in turn' <=> Master \in turn
      BY <1>1, <2>6
    <3>3. InsideBar'
      BY <1>1, <1>6, <2>3, <3>1, <3>2 DEF InsideBar, Committed
    <3> QED
      BY <1>5, <2>3, <2>4, <3>3 DEF IInv, BetweenBars, Committed
  <2> QED
    BY <2>5, <2>6
<1> QED
  BY <1>2, <1>7, <1>8

(* The steps between the writes move no book. *)
LEMMA WalkIInv ==
    ASSUME IInv, Decide \/ Entered \/ LogDecision
    PROVE  IInv'
<1>1. /\ mem' = mem /\ work' = work /\ db' = db /\ todo' = todo /\ bar' = bar
      /\ verdict' = verdict /\ snapshot' = snapshot /\ failures' = failures
  BY DEF Decide, Entered, LogDecision, disk, faults, plan, locals
<1>2. InBar /\ InBar'
  BY DEF Decide, Entered, LogDecision, InBar
<1>3. Types'
  BY <1>1, <1>2 DEF IInv, Types, InBar, Steps
<1>4. Committed' = Committed /\ Working' = Working
  BY <1>1 DEF Committed, Working
<1>5. InsideBar'
  <2>1. CASE Decide
    <3>1. /\ pc = "update" /\ Master \notin turn
          /\ pc' \in {"enter", "log", "complete"} /\ (pc' = "enter" => Master \in turn')
      BY <2>1, PipelineAssumption DEF Decide
    <3> QED
      BY <1>1, <1>2, <1>4, <3>1 DEF IInv, InsideBar
  <2>2. CASE Entered
    <3>1. pc = "enter" /\ Master \notin turn /\ pc' \in {"log", "complete"}
      BY <2>2 DEF Entered
    <3> QED
      BY <1>1, <1>2, <1>4, <3>1 DEF IInv, InsideBar
  <2>3. CASE LogDecision
    <3>1. pc = "log" /\ pc' = "complete"
      BY <2>3 DEF LogDecision
    <3> QED
      BY <1>1, <1>2, <1>4, <3>1 DEF IInv, InsideBar
  <2> QED
    BY <2>1, <2>2, <2>3
<1> QED
  BY <1>1, <1>2, <1>3, <1>4, <1>5 DEF IInv, BetweenBars

(* What a commit finds on the connection: the bar and its whole effect. *)
LEMMA CommitBook ==
    ASSUME IInv, Commit
    PROVE  /\ bar \notin db.done /\ work.done = db.done \cup {bar} /\ mem[Master] = Working
           /\ Committed \in Book /\ After(Committed, bar.sym, verdict) \in Book
           /\ \/ Working = After(Committed, bar.sym, verdict)
              \/ /\ RoomFor(After(Committed, bar.sym, verdict), bar)
                 /\ Working = WithNew(After(Committed, bar.sym, verdict), bar, failures)
           /\ Keyed(Working, work.done)
<1>1. pc = "complete" /\ InBar
  BY DEF Commit, InBar
<1>2. /\ bar \notin db.done /\ work.done = db.done \cup {bar} /\ mem[Master] = Working
      /\ \/ Working = After(Committed, bar.sym, verdict)
         \/ /\ RoomFor(After(Committed, bar.sym, verdict), bar)
            /\ Working = WithNew(After(Committed, bar.sym, verdict), bar, failures)
  BY <1>1 DEF IInv, InsideBar
<1>3. /\ bar \in Bar /\ verdict \in [Hours -> Verdicts] /\ failures \in 0..MaxFailures
      /\ Committed \in Book
  BY PipelineAssumption DEF IInv, Types, State, Committed
<1>4. After(Committed, bar.sym, verdict) \in Book
  BY <1>3, BookTypes
<1>5. Keyed(After(Committed, bar.sym, verdict), db.done)
  BY <1>3, KeyedAfter DEF IInv
<1>6. Keyed(Working, work.done)
  BY <1>2, <1>3, <1>4, <1>5, KeyedNew
<1> QED
  BY <1>2, <1>3, <1>4, <1>6

LEMMA CommitIInv ==
    ASSUME IInv, Commit
    PROVE  IInv'
<1>1. /\ db' = work /\ work' = work /\ mem' = mem /\ pc' = "alert" /\ todo' = todo
      /\ bar' = bar /\ verdict' = verdict /\ snapshot' = snapshot /\ failures' = failures
  BY DEF Commit, faults, plan, locals
<1>2. mem[Master] = Working /\ Keyed(Working, work.done)
  BY CommitBook
<1>3. Types'
  BY <1>1 DEF IInv, Types, Steps
<1> QED
  BY <1>1, <1>2, <1>3 DEF IInv, BetweenBars, InsideBar, InBar, Committed, Working

(* After an exception or a death both are at the committed state again. *)
LEMMA BackIInv ==
    ASSUME IInv, Fail \/ CrashAndRestart
    PROVE  IInv'
<1>1. /\ pc' = "cycle" /\ work' = db /\ db' = db /\ todo' \subseteq todo
      /\ bar' = NoBar /\ verdict' = AllStay /\ snapshot' = NoBook
  BY DEF Fail, CrashAndRestart, Return
<1>2. mem' \in [Accounts -> Book] /\ mem'[Master] = Committed
  <2>1. CASE Fail
    <3>1. mem' = [mem EXCEPT ![Master] = snapshot] /\ InBar
      BY <2>1 DEF Fail, InBar
    <3> QED
      BY <3>1, PipelineAssumption DEF IInv, Types, InsideBar
  <2>2. CASE CrashAndRestart
    BY <2>2 DEF CrashAndRestart, IInv, Types, State, Committed
  <2> QED
    BY <2>1, <2>2
<1>3. failures' \in 0..MaxFailures
  BY PipelineAssumption DEF Fail, CrashAndRestart, IInv, Types
<1>4. NoBook \in Book /\ AllStay \in [Hours -> Verdicts] /\ NoBar \in Bar
  <2>1. (CHOOSE s \in Symbols : TRUE) \in Symbols /\ 0 \in Hours
    BY PipelineAssumption DEF Hours
  <2> QED
    BY <2>1 DEF NoBook, Book, AllStay, Verdicts, NoBar, Bar
<1>5. Types'
  BY <1>1, <1>2, <1>3, <1>4 DEF IInv, Types, Steps
<1> QED
  BY <1>1, <1>2, <1>5 DEF IInv, BetweenBars, InsideBar, InBar, Committed

(* Feeds, alerts and the clock move no book. *)
LEMMA OutsideIInv ==
    ASSUME IInv, NEW healthy \in SUBSET Symbols, NEW last \in [Symbols -> Hours], NEW x,
           \/ HourPasses \/ FetchFeeds(healthy, last) \/ SendAlert(x) \/ AlertsDone
           \/ UNCHANGED vars
    PROVE  IInv'
<1>1. CASE UNCHANGED vars
  BY <1>1 DEF vars, plan, locals, disk, faults, IInv, Types, BetweenBars, InsideBar, InBar,
     Committed, Working
<1>2. CASE HourPasses \/ SendAlert(x)
  BY <1>2 DEF HourPasses, SendAlert, plan, locals, disk, faults, IInv, Types, BetweenBars,
     InsideBar, InBar, Committed, Working
<1>3. CASE FetchFeeds(healthy, last)
  <2>1. \A s \in healthy : [sym |-> s, at |-> last[s]] \in Bar
    BY DEF Bar
  <2>2. todo' \subseteq Bar
    BY <1>3, <2>1 DEF FetchFeeds
  <2> QED
    BY <1>3, <2>2 DEF FetchFeeds, locals, disk, faults, IInv, Types, BetweenBars,
       InsideBar, InBar, Committed, Working
<1>4. CASE AlertsDone
  <2>1. NoBook \in Book /\ AllStay \in [Hours -> Verdicts] /\ NoBar \in Bar
    <3>1. (CHOOSE s \in Symbols : TRUE) \in Symbols /\ 0 \in Hours
      BY PipelineAssumption DEF Hours
    <3> QED
      BY <3>1 DEF NoBook, Book, AllStay, Verdicts, NoBar, Bar
  <2>2. /\ pc = "alert" /\ pc' = "cycle" /\ bar' = NoBar /\ verdict' = AllStay
        /\ snapshot' = NoBook /\ todo' = todo /\ mem' = mem /\ work' = work /\ db' = db
        /\ failures' = failures
    BY <1>4 DEF AlertsDone, Return, disk, faults
  <2>3. Types'
    BY <2>1, <2>2 DEF IInv, Types, Steps
  <2> QED
    BY <2>2, <2>3 DEF IInv, BetweenBars, InsideBar, InBar, Committed
<1> QED
  BY <1>1, <1>2, <1>3, <1>4

LEMMA StepIInv ==
    ASSUME IInv, [Next]_vars
    PROVE  IInv'
<1>1. ASSUME NEW b \in todo, NEW v \in VerdictsOn(b.sym), Claim(b, v)
      PROVE  IInv'
  <2>1. b \in Bar /\ v \in [Hours -> Verdicts]
    BY DEF IInv, Types, VerdictsOn
  <2> QED
    BY <1>1, <2>1, ClaimIInv
<1>2. ASSUME NEW a \in Accounts, UpdateEngine(a) \/ EnterEngine(a)
      PROVE  IInv'
  BY <1>2, UpdateIInv, EnterIInv
<1>3. CASE Decide \/ Entered \/ LogDecision \/ Commit
  BY <1>3, WalkIInv, CommitIInv
<1>4. CASE Fail \/ CrashAndRestart
  BY <1>4, BackIInv
<1>5. ASSUME NEW healthy \in SUBSET Symbols, NEW last \in [Symbols -> Hours],
             FetchFeeds(healthy, last)
      PROVE  IInv'
  BY <1>5, OutsideIInv
<1>6. CASE HourPasses \/ AlertsDone \/ UNCHANGED vars \/ \E x \in pending : SendAlert(x)
  <2>1. {} \in SUBSET Symbols /\ [s \in Symbols |-> 0] \in [Symbols -> Hours]
    BY PipelineAssumption DEF Hours
  <2> QED
    BY <1>6, <2>1, OutsideIInv
<1> QED
  BY <1>1, <1>2, <1>3, <1>4, <1>5, <1>6 DEF Next, Process

-----------------------------------------------------------------------------
(* The theorems. *)

(* The inductive invariant: in a bar, what the connection has written is    *)
(* the part of the bar that is done, and the memory says the same.          *)
THEOREM InvariantHolds == Spec => []IInv
<1>1. Init => IInv
  BY InitIInv
<1>2. IInv /\ [Next]_vars => IInv'
  BY StepIInv
<1> QED
  BY <1>1, <1>2, PTL DEF Spec

(* The snapshot of _process_closed_bar and the rollback keep the book of    *)
(* self.engine at the committed one between two bars.                       *)
THEOREM MasterStaysInSync == Spec => []MasterInSync
<1>1. IInv => MasterInSync
  BY DEF IInv, BetweenBars, InBar, MasterInSync, InSync, Committed
<1> QED
  BY <1>1, InvariantHolds, PTL

(* A commit is one whole bar of AtomicBars. *)
LEMMA CommitRefines ==
    ASSUME IInv, Commit
    PROVE  Atomic!Next
<1> DEFINE v == verdict
           held == {p \in Committed.open : p.trade.sym = bar.sym}
           exits == {p \in held : v[p.trade.at] = "exit"}
           halves == {p \in held : v[p.trade.at] = "tp1"}
           kept == {Atomic!Judged(p, halves) : p \in held \ exits}
           left == {Atomic!Judged(p, halves) : p \in exits}
           bookAfter == After(Committed, bar.sym, v)
           entry == {NewPosition(bar, failures)}
<1>1. /\ bar \in Bar /\ bar \notin db.done /\ work.done = db.done \cup {bar}
      /\ Committed \in Book /\ bookAfter \in Book
      /\ \/ Working = bookAfter
         \/ RoomFor(bookAfter, bar) /\ Working = WithNew(bookAfter, bar, failures)
      /\ failures \in 0..MaxFailures /\ v \in [Hours -> Verdicts]
  BY CommitBook DEF IInv, Types
<1>2. Committed' = Working /\ db'.done = work.done
  BY DEF Commit, Committed, Working
<1>3. held = Of(Committed, bar.sym) /\ held \subseteq Position
  BY <1>1 DEF Of, Book
<1>4. \A p \in held : Atomic!Judged(p, halves) = JudgedBy(p, v)
  <2> SUFFICES ASSUME NEW p \in held
               PROVE  Atomic!Judged(p, halves) = JudgedBy(p, v)
    OBVIOUS
  <2>1. p \in halves <=> v[p.trade.at] = "tp1"
    OBVIOUS
  <2> HIDE DEF halves, held, v
  <2>2. (p.half \/ p \in halves) = (p.half \/ v[p.trade.at] = "tp1")
    BY <2>1
  <2> QED
    BY <2>2 DEF Atomic!Judged, JudgedBy
<1>5. \A p \in held : JudgedBy(p, v).trade = p.trade
  BY DEF JudgedBy
<1>6. left = GoneIn(Committed, bar.sym, v)
  <2>1. left = {JudgedBy(p, v) : p \in exits}
    BY <1>4
  <2>2. {JudgedBy(p, v) : p \in exits} = GoneIn(Committed, bar.sym, v)
    BY <1>3, <1>5 DEF GoneIn, JudgedIn
  <2> QED
    BY <2>1, <2>2
<1>7. kept = JudgedIn(Committed, bar.sym, v) \ GoneIn(Committed, bar.sym, v)
  <2>1. kept = {JudgedBy(p, v) : p \in held \ exits}
    BY <1>4
  <2>2. {JudgedBy(p, v) : p \in held \ exits}
          = JudgedIn(Committed, bar.sym, v) \ GoneIn(Committed, bar.sym, v)
    BY <1>3, <1>5 DEF GoneIn, JudgedIn
  <2> QED
    BY <2>1, <2>2
<1>8. /\ bookAfter.open = (Committed.open \ held) \cup kept
      /\ bookAfter.closed = Committed.closed \cup left
  BY <1>3, <1>6, <1>7 DEF After
<1>9. exits \in SUBSET Committed.open /\ halves \in SUBSET Committed.open /\ exits \subseteq held
  OBVIOUS
<1>10. CASE Working = bookAfter
  <2>1. Working = [open |-> ((Committed.open \ held) \cup kept) \cup {},
                   closed |-> Committed.closed \cup left]
    BY <1>8, <1>10 DEF After
  <2>2. Atomic!ProcessBar(bar, exits, halves, {})
    BY <1>1, <1>2, <1>9, <2>1 DEF Atomic!ProcessBar, Committed
  <2> QED
    BY <1>1, <1>9, <2>2 DEF Atomic!Next, Committed
<1>11. CASE RoomFor(bookAfter, bar) /\ Working = WithNew(bookAfter, bar, failures)
  <2>1. kept = {}
    <3>1. \A q \in kept : q \in bookAfter.open /\ q.trade.sym = bar.sym
      <4> SUFFICES ASSUME NEW p \in held \ exits
                   PROVE  /\ Atomic!Judged(p, halves) \in bookAfter.open
                          /\ Atomic!Judged(p, halves).trade.sym = bar.sym
        OBVIOUS
      <4>1. Atomic!Judged(p, halves) \in kept
        OBVIOUS
      <4>2. Atomic!Judged(p, halves).trade = p.trade /\ p.trade.sym = bar.sym
        BY DEF Atomic!Judged
      <4> QED
        BY <1>8, <4>1, <4>2
    <3> QED
      BY <1>11, <3>1 DEF RoomFor, Of
  <2>2. Atomic!Cardinality((Committed.open \ held) \cup kept) < MaxOpen
    <3>1. \A S : Atomic!Cardinality(S) = Cardinality(S)
      BY DEF Atomic!Cardinality, Cardinality, Atomic!IsFiniteSet, IsFiniteSet
    <3> QED
      BY <1>8, <1>11, <3>1 DEF RoomFor
  <2>3. Working = [open |-> ((Committed.open \ held) \cup kept) \cup entry,
                   closed |-> Committed.closed \cup left]
    <3>1. WithNew(bookAfter, bar, failures) =
            [open |-> bookAfter.open \cup entry, closed |-> bookAfter.closed]
      BY DEF WithNew
    <3> QED
      BY <1>8, <1>11, <3>1, Zenon
  <2>4. Atomic!ProcessBar(bar, exits, halves, entry)
    BY <1>1, <1>2, <1>9, <2>1, <2>2, <2>3, ZenonT(40) DEF Atomic!ProcessBar, Committed
  <2>5. entry = {Atomic!Entry(bar, failures)}
    BY DEF NewPosition, Atomic!Entry
  <2> QED
    BY <1>1, <1>9, <2>4, <2>5 DEF Atomic!Next, Committed
<1> QED
  BY <1>1, <1>10, <1>11

(* Every other step leaves the database as it is. *)
LEMMA StepRefines ==
    ASSUME IInv, [Next]_vars
    PROVE  [Atomic!Next]_<<db.books[Master], db.done>>
<1>1. CASE Commit
  BY <1>1, CommitRefines
<1>2. CASE ~Commit
  <2>1. db' = db
    BY <1>2 DEF Next, Process, HourPasses, FetchFeeds, Claim, UpdateEngine, EnterEngine, Decide,
       Entered, LogDecision, SendAlert, AlertsDone, Fail, CrashAndRestart, Write, vars, disk
  <2> QED
    BY <2>1
<1> QED
  BY <1>1, <1>2

(* The bar transactions of the worker implement AtomicBars for the master:  *)
(* whatever fails or dies on the way, a bar and its whole effect are        *)
(* committed together, and no bar twice (0002_processed_bars.sql).          *)
THEOREM BarsImplementAtomicBars == Spec => BarsAreAtomic
<1>1. Init => Atomic!Init
  BY PipelineAssumption DEF Init, Empty, NoBook, Atomic!Init
<1>2. IInv /\ [Next]_vars => [Atomic!Next]_<<db.books[Master], db.done>>
  BY StepRefines
<1> QED
  BY <1>1, <1>2, InvariantHolds, PTL DEF Spec, Atomic!Spec, BarsAreAtomic

-----------------------------------------------------------------------------
(* The alerts.  They are about every account, also one whose memory is     *)
(* ahead of its rows since an exception; what they need of the books is    *)
(* which trades these hold, and not what the positions are.                *)

Trades(ps)  == {p.trade : p \in ps}
Rows(book)  == book.open \cup book.closed
Apart(book) == Trades(book.open) \cap Trades(book.closed) = {}

\* No row is lost, and what is closed stays closed.
Grown(old, new) ==
    /\ Trades(Rows(old)) \subseteq Trades(Rows(new))
    /\ Trades(old.closed) \subseteq Trades(new.closed)

\* A trade is of a bar that is committed or of an attempt that has failed;
\* the entry of the bar in process is neither.
NewTrade == [sym |-> bar.sym, at |-> bar.at, attempt |-> failures]
Dated(t) == [sym |-> t.sym, at |-> t.at] \in db.done \/ t.attempt < failures
HadTurn(a) == (pc = "enter" /\ a \notin turn) \/ pc \in {"log", "complete"}

Backed(x, books) ==
    /\ x.trade \in Trades(Rows(books[x.account]))
    /\ x.kind = "TRADE_CLOSE" => x.trade \in Trades(books[x.account].closed)

RowsApart == \A a \in Accounts : Apart(work.books[a]) /\ Apart(db.books[a])
RowsGrow  == \A a \in Accounts : Grown(db.books[a], work.books[a])

\* Nothing that is open in memory is closed in the table.
MemoryAhead ==
    \A a \in Accounts : Trades(mem[a].open) \cap Trades(work.books[a].closed) = {}

TradesDated ==
    \A a \in Accounts :
        /\ \A t \in Trades(Rows(db.books[a])) : Dated(t)
        /\ \A t \in Trades(mem[a].open \cup Rows(work.books[a])) :
              Dated(t) \/ (HadTurn(a) /\ t = NewTrade)

AlertsBacked ==
    /\ \A x \in sent : Backed(x, db.books)
    /\ InBar => \A x \in pending : Backed(x, work.books)
    /\ pc = "alert" => \A x \in pending : Backed(x, db.books)
    /\ pc = "cycle" => pending = {}

AlertsNew == pending \cap sent = {} /\ ~resent

AlertTypes == pending \subseteq Alert /\ sent \subseteq Alert

BookInv  == RowsApart /\ RowsGrow /\ MemoryAhead /\ TradesDated
AlertInv == AlertTypes /\ BookInv /\ AlertsBacked /\ AlertsNew

(* What the writes of one account do to the trades of its rows: those it   *)
(* writes are there, those that were there stay.                           *)
LEMMA UpsertTrades ==
    ASSUME NEW book \in Book, NEW opens \in SUBSET Position, NEW closes \in SUBSET Position,
           Apart(book), Trades(opens) \cap Trades(closes) = {},
           Trades(opens) \cap Trades(book.closed) = {},
           NEW new, new = Upsert(book, opens, closes)
    PROVE  /\ Apart(new) /\ Grown(book, new)
           /\ Trades(new.closed) = Trades(book.closed) \cup Trades(closes)
           /\ Trades(Rows(new)) = Trades(Rows(book)) \cup Trades(opens) \cup Trades(closes)
<1> DEFINE Others(ps) == {p \in ps : \A q \in opens \cup closes : p.trade # q.trade}
           O == Trades(opens)
           C == Trades(closes)
<1>1. new.open = Others(book.open) \cup opens /\ new.closed = Others(book.closed) \cup closes
  BY DEF Upsert
<1>2. /\ Trades(Others(book.open)) = Trades(book.open) \ (O \cup C)
      /\ Trades(Others(book.closed)) = Trades(book.closed) \ (O \cup C)
  BY DEF Trades
<1>3. \A A, B : Trades(A \cup B) = Trades(A) \cup Trades(B)
  BY DEF Trades
<1> HIDE DEF O, C, Others
<1>4. /\ Trades(new.open) = (Trades(book.open) \ (O \cup C)) \cup O
      /\ Trades(new.closed) = (Trades(book.closed) \ (O \cup C)) \cup C
  BY <1>1, <1>2, <1>3 DEF O, C
<1>5. /\ Trades(Rows(new)) = Trades(new.open) \cup Trades(new.closed)
      /\ Trades(Rows(book)) = Trades(book.open) \cup Trades(book.closed)
  BY <1>3 DEF Rows
<1>6. O \cap C = {} /\ O \cap Trades(book.closed) = {}
  BY DEF O, C
<1> QED
  BY <1>4, <1>5, <1>6 DEF Apart, Grown, O, C

(* A step that writes the rows of one account and changes its memory: it   *)
(* may not open what is closed.                                            *)
LEMMA WriteBooks ==
    ASSUME Types, BookInv, NEW a \in Accounts,
           NEW opens \in SUBSET Position, NEW closes \in SUBSET Position,
           Write(a, opens, closes), mem' \in [Accounts -> Book],
           \A c \in Accounts : c # a => mem'[c] = mem[c],
           Trades(opens) \cap Trades(closes) = {},
           Trades(opens) \cap Trades(work.books[a].closed) = {},
           Trades(mem'[a].open) \cap (Trades(work.books[a].closed) \cup Trades(closes)) = {}
    PROVE  /\ RowsApart' /\ RowsGrow' /\ MemoryAhead' /\ db' = db /\ work'.done = work.done
           /\ \A c \in Accounts : Grown(work.books[c], work'.books[c])
           /\ \A c \in Accounts : c # a => work'.books[c] = work.books[c]
           /\ Trades(Rows(work'.books[a])) =
                 Trades(Rows(work.books[a])) \cup Trades(opens) \cup Trades(closes)
           /\ Trades(closes) \subseteq Trades(work'.books[a].closed)
<1>1. work.books[a] \in Book
  BY DEF Types, State
<1>2. Upsert(work.books[a], opens, closes) \in Book
  BY <1>1, UpsertType
<1>3. /\ work'.done = work.done /\ db' = db
      /\ work'.books[a] = Upsert(work.books[a], opens, closes)
      /\ \A c \in Accounts : c # a => work'.books[c] = work.books[c]
  BY <1>2, WriteEffect
<1>4. Apart(work.books[a])
  BY DEF BookInv, RowsApart
<1>5. /\ Apart(work'.books[a]) /\ Grown(work.books[a], work'.books[a])
      /\ Trades(work'.books[a].closed) = Trades(work.books[a].closed) \cup Trades(closes)
      /\ Trades(Rows(work'.books[a])) =
            Trades(Rows(work.books[a])) \cup Trades(opens) \cup Trades(closes)
  BY <1>1, <1>3, <1>4, UpsertTrades
<1>6. \A c \in Accounts : Grown(work.books[c], work'.books[c])
  BY <1>3, <1>5 DEF Grown
<1>7. RowsApart'
  BY <1>3, <1>5 DEF BookInv, RowsApart
<1>8. RowsGrow'
  BY <1>3, <1>6 DEF BookInv, RowsGrow, Grown
<1>9. MemoryAhead'
  BY <1>3, <1>5 DEF BookInv, MemoryAhead
<1> QED
  BY <1>3, <1>5, <1>6, <1>7, <1>8, <1>9

LEMMA BackedGrows ==
    ASSUME NEW x \in Alert, NEW old, NEW new,
           \A a \in Accounts : Grown(old[a], new[a]), Backed(x, old)
    PROVE  Backed(x, new)
<1>1. x.account \in Accounts
  BY DEF Alert
<1> QED
  BY <1>1 DEF Backed, Grown

LEMMA InitAlertInv == Init => AlertInv
<1> SUFFICES ASSUME Init PROVE AlertInv
  OBVIOUS
<1>1. \A a \in Accounts : /\ db.books[a] = NoBook /\ work.books[a] = NoBook /\ mem[a] = NoBook
  BY DEF Init, Empty
<1>2. Trades(NoBook.open) = {} /\ Trades(NoBook.closed) = {} /\ Trades(Rows(NoBook)) = {}
  BY DEF Trades, NoBook, Rows
<1>3. \A a \in Accounts : Trades(mem[a].open \cup Rows(work.books[a])) = {}
  BY <1>1 DEF Trades, NoBook, Rows
<1>4. BookInv
  BY <1>1, <1>2, <1>3 DEF BookInv, RowsApart, RowsGrow, MemoryAhead, TradesDated, Apart, Grown
<1> QED
  BY <1>4 DEF Init, AlertInv, AlertTypes, AlertsBacked, AlertsNew, InBar

(* The turn of an engine: it closes what was open in memory, so no alert   *)
(* of it can have been sent before.                                        *)
LEMMA UpdateAlertInv ==
    ASSUME IInv, AlertInv, NEW a \in Accounts, UpdateEngine(a)
    PROVE  AlertInv'
<1> DEFINE held == Of(mem[a], bar.sym)
           judged == {Judged(p) : p \in held}
           gone == {p \in judged : verdict[p.trade.at] = "exit"}
           told == {CloseAlert(a, p) : p \in gone}
<1>1. /\ pc = "update" /\ pc' = "update"
      /\ mem' = [mem EXCEPT ![a] = [open |-> (@.open \ held) \cup (judged \ gone),
                                    closed |-> @.closed \cup gone]]
      /\ Write(a, judged \ gone, gone) /\ pending' = pending \cup told
      /\ bar' = bar /\ sent' = sent /\ resent' = resent /\ failures' = failures
  BY DEF UpdateEngine, faults
<1>2. mem \in [Accounts -> Book] /\ mem[a] \in Book /\ verdict \in [Hours -> Verdicts]
  BY DEF IInv, Types
<1>3. held \subseteq mem[a].open /\ mem[a].open \subseteq Position
  BY <1>2 DEF Of, Book
<1>4. \A p \in held : Judged(p) \in Position /\ Judged(p).trade = p.trade
  BY <1>3 DEF Judged, Position
<1>5. judged \subseteq Position
  BY <1>4
<1>6. Trades(judged) \subseteq Trades(mem[a].open)
  BY <1>3, <1>4 DEF Trades
<1>7. Trades(judged \ gone) \cap Trades(gone) = {}
  BY DEF Trades
<1>8. Trades(mem[a].open \ held) \cap Trades(gone) = {}
  <2>1. \A p \in mem[a].open \ held : p.trade.sym # bar.sym
    BY DEF Of
  <2>2. \A p \in held : p.trade.sym = bar.sym
    BY DEF Of
  <2>3. \A q \in judged : q.trade.sym = bar.sym
    BY <1>4, <2>2
  <2> QED
    BY <2>1, <2>3 DEF Trades
<1>9. /\ mem' \in [Accounts -> Book] /\ mem'[a].open = (mem[a].open \ held) \cup (judged \ gone)
      /\ \A c \in Accounts : c # a => mem'[c] = mem[c]
  <2>1. [open |-> (mem[a].open \ held) \cup (judged \ gone), closed |-> mem[a].closed \cup gone]
           \in Book
    BY <1>2, <1>5 DEF Book
  <2> QED
    BY <1>1, <1>2, <2>1
<1> HIDE DEF held, judged, gone, told
<1>10. /\ Trades(judged \ gone) \subseteq Trades(mem[a].open)
       /\ Trades(gone) \subseteq Trades(mem[a].open)
  BY <1>6 DEF Trades, gone
<1>11. Trades(mem'[a].open) \subseteq Trades(mem[a].open)
  BY <1>9, <1>10 DEF Trades
<1>12. Trades(mem[a].open) \cap Trades(work.books[a].closed) = {}
  BY DEF AlertInv, BookInv, MemoryAhead
<1>13. Trades(mem'[a].open) \cap (Trades(work.books[a].closed) \cup Trades(gone)) = {}
  <2>1. Trades(mem'[a].open) = Trades(mem[a].open \ held) \cup Trades(judged \ gone)
    BY <1>9 DEF Trades
  <2> QED
    BY <1>7, <1>8, <1>11, <1>12, <2>1
<1>14. judged \ gone \in SUBSET Position /\ gone \in SUBSET Position
  BY <1>5 DEF gone
<1>15. Types /\ BookInv
  BY DEF IInv, AlertInv
<1>16. /\ RowsApart' /\ RowsGrow' /\ MemoryAhead' /\ db' = db
       /\ \A c \in Accounts : Grown(work.books[c], work'.books[c])
       /\ \A c \in Accounts : c # a => work'.books[c] = work.books[c]
       /\ Trades(Rows(work'.books[a])) =
             Trades(Rows(work.books[a])) \cup Trades(judged \ gone) \cup Trades(gone)
       /\ Trades(gone) \subseteq Trades(work'.books[a].closed)
  <2>1. Trades(judged \ gone) \cap Trades(work.books[a].closed) = {}
    BY <1>10, <1>12
  <2>2. /\ Write(a, judged \ gone, gone) /\ mem' \in [Accounts -> Book]
        /\ \A c \in Accounts : c # a => mem'[c] = mem[c]
    BY <1>1, <1>9
  <2> DEFINE opens == judged \ gone
  <2> HIDE DEF opens
  <2>3. /\ opens \in SUBSET Position /\ gone \in SUBSET Position
        /\ Write(a, opens, gone) /\ Trades(opens) \cap Trades(gone) = {}
        /\ Trades(opens) \cap Trades(work.books[a].closed) = {}
    BY <1>7, <1>14, <2>1, <2>2 DEF opens
  <2>4. /\ RowsApart' /\ RowsGrow' /\ MemoryAhead' /\ db' = db /\ work'.done = work.done
        /\ \A c \in Accounts : Grown(work.books[c], work'.books[c])
        /\ \A c \in Accounts : c # a => work'.books[c] = work.books[c]
        /\ Trades(Rows(work'.books[a])) =
              Trades(Rows(work.books[a])) \cup Trades(opens) \cup Trades(gone)
        /\ Trades(gone) \subseteq Trades(work'.books[a].closed)
    BY <1>13, <1>15, <2>2, <2>3, WriteBooks
  <2> QED
    BY <2>4 DEF opens
<1>17. \A A, B : Trades(A \cup B) = Trades(A) \cup Trades(B)
  BY DEF Trades
<1>18. TradesDated'
  <2>1. \A c \in Accounts : ~HadTurn(c)
    BY <1>1 DEF HadTurn
  <2>2. \A c \in Accounts : \A t \in Trades(mem[c].open \cup Rows(work.books[c])) : Dated(t)
    BY <2>1 DEF AlertInv, BookInv, TradesDated
  <2>3. \A t : Dated(t)' <=> Dated(t)
    BY <1>1, <1>16 DEF Dated
  <2>4. \A c \in Accounts : Trades(mem'[c].open \cup Rows(work'.books[c]))
                              \subseteq Trades(mem[c].open \cup Rows(work.books[c]))
    <3>1. \A c \in Accounts : c # a =>
            Trades(mem'[c].open \cup Rows(work'.books[c])) =
              Trades(mem[c].open \cup Rows(work.books[c]))
      BY <1>9, <1>16
    <3>2. /\ Trades(mem'[a].open \cup Rows(work'.books[a])) =
               Trades(mem'[a].open) \cup Trades(Rows(work'.books[a]))
          /\ Trades(mem[a].open \cup Rows(work.books[a])) =
               Trades(mem[a].open) \cup Trades(Rows(work.books[a]))
      BY <1>17
    <3>3. Trades(mem'[a].open) \cup Trades(Rows(work'.books[a]))
             \subseteq Trades(mem[a].open) \cup Trades(Rows(work.books[a]))
      BY <1>10, <1>11, <1>16
    <3> QED
      BY <3>1, <3>2, <3>3
  <2>5. \A c \in Accounts : \A t \in Trades(Rows(db'.books[c])) : Dated(t)
    BY <1>16 DEF AlertInv, BookInv, TradesDated
  <2> QED
    BY <2>2, <2>3, <2>4, <2>5 DEF TradesDated
<1>19. \A x \in told : /\ x \in Alert /\ x.kind = "TRADE_CLOSE" /\ x.account = a
                       /\ x.trade \in Trades(gone)
  <2> SUFFICES ASSUME NEW x \in told
               PROVE  /\ x \in Alert /\ x.kind = "TRADE_CLOSE" /\ x.account = a
                      /\ x.trade \in Trades(gone)
    OBVIOUS
  <2>1. PICK p \in gone : x = CloseAlert(a, p)
    BY DEF told
  <2>2. p.trade \in Trade
    BY <1>14 DEF Position
  <2>3. p.trade \in Trades(gone)
    BY DEF Trades
  <2> QED
    BY <2>1, <2>2, <2>3 DEF CloseAlert, Alert
<1>20. AlertTypes'
  BY <1>1, <1>19 DEF AlertInv, AlertTypes
<1>21. AlertsBacked'
  <2>1. \A x \in pending : Backed(x, work'.books)
    <3>1. \A x \in pending : x \in Alert /\ Backed(x, work.books)
      BY <1>1 DEF AlertInv, AlertTypes, AlertsBacked, InBar
    <3> QED
      BY <1>16, <3>1, BackedGrows
  <2>2. \A x \in told : Backed(x, work'.books)
    BY <1>16, <1>19 DEF Backed
  <2> QED
    BY <1>1, <1>16, <2>1, <2>2 DEF AlertInv, AlertsBacked
<1>22. AlertsNew'
  <2>1. told \cap sent = {}
    <3> SUFFICES ASSUME NEW x \in told, x \in sent PROVE FALSE
      OBVIOUS
    <3>1. x.trade \in Trades(db.books[a].closed) /\ x.trade \in Trades(gone)
      BY <1>19 DEF AlertInv, AlertsBacked, Backed
    <3>2. x.trade \in Trades(work.books[a].closed)
      BY <3>1 DEF AlertInv, BookInv, RowsGrow, Grown
    <3> QED
      BY <1>10, <1>12, <3>1, <3>2
  <2> QED
    BY <1>1, <2>1 DEF AlertInv, AlertsNew
<1> QED
  BY <1>16, <1>18, <1>20, <1>21, <1>22 DEF AlertInv, BookInv

(* The entry of an engine: its trade is of this attempt at this bar, which *)
(* neither the tables nor the alerts can know.                             *)
LEMMA EnterAlertInv ==
    ASSUME IInv, AlertInv, NEW a \in Accounts, EnterEngine(a)
    PROVE  AlertInv'
<1> DEFINE new == NewPosition(bar, failures)
           told == [kind |-> "TRADE_OPEN", account |-> a, trade |-> NewTrade]
<1>1. /\ pc = "enter" /\ pc' = "enter" /\ a \in turn /\ turn' = turn \ {a}
      /\ bar' = bar /\ sent' = sent /\ resent' = resent /\ failures' = failures
  BY DEF EnterEngine, Turn, faults
<1>2. \/ /\ mem' = [mem EXCEPT ![a] = [open |-> @.open \cup {new}, closed |-> @.closed]]
         /\ Write(a, {new}, {})
         /\ pending' \subseteq pending \cup {told}
      \/ mem' = mem /\ pending' = pending /\ work' = work /\ db' = db
  BY DEF EnterEngine, NewPosition, NewTrade, disk
<1>3. /\ mem \in [Accounts -> Book] /\ mem[a] \in Book /\ bar \in Bar
      /\ failures \in 0..MaxFailures
  BY DEF IInv, Types
<1>4. new \in Position /\ new.trade = NewTrade /\ NewTrade \in Trade
  BY <1>3 DEF NewPosition, Position, NewTrade, Trade, Bar
<1> HIDE DEF new
<1>5. InBar /\ InBar'
  BY <1>1 DEF InBar
<1>6. ~Dated(NewTrade)
  <2>1. bar \notin db.done
    BY <1>5 DEF IInv, InsideBar
  <2>2. [sym |-> NewTrade.sym, at |-> NewTrade.at] = bar /\ NewTrade.attempt = failures
    BY <1>3 DEF NewTrade, Bar
  <2> QED
    BY <1>3, <2>1, <2>2 DEF Dated
<1>7. ~HadTurn(a) /\ HadTurn(a)' /\ \A c \in Accounts : HadTurn(c) => HadTurn(c)'
  BY <1>1 DEF HadTurn
<1>8. NewTrade' = NewTrade
  BY <1>1 DEF NewTrade
<1>9. \A t : db' = db => (Dated(t)' <=> Dated(t))
  BY <1>1 DEF Dated
<1>10. CASE mem' = mem /\ pending' = pending /\ work' = work /\ db' = db
  <2>1. RowsApart' /\ RowsGrow' /\ MemoryAhead'
    BY <1>10 DEF AlertInv, BookInv, RowsApart, RowsGrow, MemoryAhead
  <2>2. TradesDated'
    BY <1>7, <1>8, <1>9, <1>10 DEF AlertInv, BookInv, TradesDated
  <2>3. AlertTypes' /\ AlertsNew'
    BY <1>1, <1>10 DEF AlertInv, AlertTypes, AlertsNew
  <2>4. AlertsBacked'
    <3>1. \A x : Backed(x, db'.books) <=> Backed(x, db.books)
      BY <1>10
    <3>2. \A x : Backed(x, work'.books) <=> Backed(x, work.books)
      BY <1>10
    <3> QED
      BY <1>1, <1>5, <1>10, <3>1, <3>2 DEF AlertInv, AlertsBacked
  <2> QED
    BY <2>1, <2>2, <2>3, <2>4 DEF AlertInv, BookInv
<1>11. CASE /\ mem' = [mem EXCEPT ![a] = [open |-> @.open \cup {new}, closed |-> @.closed]]
            /\ Write(a, {new}, {})
            /\ pending' \subseteq pending \cup {told}
  <2>1. /\ mem' \in [Accounts -> Book] /\ mem'[a].open = mem[a].open \cup {new}
        /\ \A c \in Accounts : c # a => mem'[c] = mem[c]
    <3>1. [open |-> mem[a].open \cup {new}, closed |-> mem[a].closed] \in Book
      BY <1>3, <1>4 DEF Book
    <3> QED
      BY <1>3, <1>11, <3>1
  <2>2. Trades({new}) = {NewTrade} /\ Trades({}) = {}
    BY <1>4 DEF Trades
  <2>3. \A A, B : Trades(A \cup B) = Trades(A) \cup Trades(B)
    BY DEF Trades
  <2>4. NewTrade \notin Trades(Rows(work.books[a]))
    <3>1. \A t \in Trades(mem[a].open \cup Rows(work.books[a])) : Dated(t)
      BY <1>7 DEF AlertInv, BookInv, TradesDated
    <3> QED
      BY <1>6, <2>3, <3>1
  <2>5. NewTrade \notin Trades(work.books[a].closed)
    BY <2>3, <2>4 DEF Rows
  <2>6. Types /\ BookInv
    BY DEF IInv, AlertInv
  <2>7. Trades(mem'[a].open) = Trades(mem[a].open) \cup {NewTrade}
    BY <2>1, <2>2, <2>3
  <2>8. /\ RowsApart' /\ RowsGrow' /\ MemoryAhead' /\ db' = db /\ work'.done = work.done
        /\ \A c \in Accounts : Grown(work.books[c], work'.books[c])
        /\ \A c \in Accounts : c # a => work'.books[c] = work.books[c]
        /\ Trades(Rows(work'.books[a])) =
              Trades(Rows(work.books[a])) \cup Trades({new}) \cup Trades({})
    <3>1. Trades(mem'[a].open) \cap (Trades(work.books[a].closed) \cup Trades({})) = {}
      BY <2>2, <2>5, <2>7 DEF AlertInv, BookInv, MemoryAhead
    <3>2. /\ {new} \in SUBSET Position /\ {} \in SUBSET Position
          /\ Trades({new}) \cap Trades({}) = {}
          /\ Trades({new}) \cap Trades(work.books[a].closed) = {}
      BY <1>4, <2>2, <2>5
    <3>3. Write(a, {new}, {})
      BY <1>11
    <3> QED
      BY <2>1, <2>6, <3>1, <3>2, <3>3, WriteBooks
  <2>9. TradesDated'
    <3>1. \A c \in Accounts : c # a =>
            /\ mem'[c].open \cup Rows(work'.books[c]) = mem[c].open \cup Rows(work.books[c])
      BY <2>1, <2>8
    <3>2. Trades(mem'[a].open \cup Rows(work'.books[a])) =
            Trades(mem[a].open \cup Rows(work.books[a])) \cup {NewTrade}
      BY <2>2, <2>3, <2>7, <2>8
    <3>3. \A c \in Accounts : \A t \in Trades(mem'[c].open \cup Rows(work'.books[c])) :
             Dated(t)' \/ (HadTurn(c)' /\ t = NewTrade')
      <4> SUFFICES ASSUME NEW c \in Accounts,
                          NEW t \in Trades(mem'[c].open \cup Rows(work'.books[c]))
                   PROVE  Dated(t)' \/ (HadTurn(c)' /\ t = NewTrade')
        OBVIOUS
      <4>1. \A u \in Trades(mem[c].open \cup Rows(work.books[c])) :
               Dated(u) \/ (HadTurn(c) /\ u = NewTrade)
        BY DEF AlertInv, BookInv, TradesDated
      <4> QED
        BY <1>7, <1>8, <1>9, <2>8, <3>1, <3>2, <4>1
    <3>4. \A c \in Accounts : \A t \in Trades(Rows(db'.books[c])) : Dated(t)'
      BY <1>9, <2>8 DEF AlertInv, BookInv, TradesDated
    <3> QED
      BY <3>3, <3>4 DEF TradesDated
  <2>10. told \in Alert
    BY <1>4 DEF Alert
  <2>11. AlertTypes'
    BY <1>1, <1>11, <2>10 DEF AlertInv, AlertTypes
  <2>12. AlertsBacked'
    <3>1. \A x \in pending : Backed(x, work'.books)
      <4>1. \A x \in pending : x \in Alert /\ Backed(x, work.books)
        BY <1>5 DEF AlertInv, AlertTypes, AlertsBacked
      <4> QED
        BY <2>8, <4>1, BackedGrows
    <3>2. Backed(told, work'.books)
      BY <2>2, <2>8 DEF Backed
    <3> QED
      BY <1>1, <1>11, <2>8, <3>1, <3>2 DEF AlertInv, AlertsBacked
  <2>13. AlertsNew'
    <3>1. ASSUME told \in sent PROVE FALSE
      <4>1. NewTrade \in Trades(Rows(db.books[a]))
        BY <3>1 DEF AlertInv, AlertsBacked, Backed
      <4> QED
        BY <1>6, <4>1 DEF AlertInv, BookInv, TradesDated
    <3> QED
      BY <1>1, <1>11, <3>1 DEF AlertInv, AlertsNew
  <2> QED
    BY <2>8, <2>9, <2>11, <2>12, <2>13 DEF AlertInv, BookInv
<1> QED
  BY <1>2, <1>10, <1>11

(* A claim starts a bar with its list of alerts empty.                     *)
LEMMA ClaimAlertInv ==
    ASSUME IInv, AlertInv, NEW b \in Bar, NEW v, Claim(b, v)
    PROVE  AlertInv'
<1>1. /\ pc = "cycle" /\ pending' = {} /\ mem' = mem /\ db' = db
      /\ sent' = sent /\ resent' = resent /\ failures' = failures
      /\ work'.books = work.books /\ pc' \in {"cycle", "update"}
  BY DEF Claim, faults
<1>2. \A c \in Accounts : ~HadTurn(c)
  BY <1>1 DEF HadTurn
<1>3. \A t : Dated(t)' <=> Dated(t)
  BY <1>1 DEF Dated
<1>4. RowsApart' /\ RowsGrow' /\ MemoryAhead'
  BY <1>1 DEF AlertInv, BookInv, RowsApart, RowsGrow, MemoryAhead
<1>5. TradesDated'
  BY <1>1, <1>2, <1>3 DEF AlertInv, BookInv, TradesDated
<1>6. \A x : Backed(x, db'.books) <=> Backed(x, db.books)
  BY <1>1
<1> QED
  BY <1>1, <1>4, <1>5, <1>6 DEF AlertInv, BookInv, AlertTypes, AlertsBacked, AlertsNew, InBar

(* The steps between the writes change no book and no alert.               *)
LEMMA WalkAlertInv ==
    ASSUME IInv, AlertInv, Decide \/ Entered \/ LogDecision
    PROVE  AlertInv'
<1>1. /\ mem' = mem /\ work' = work /\ db' = db /\ bar' = bar /\ failures' = failures
      /\ pending' = pending /\ sent' = sent /\ resent' = resent
  BY DEF Decide, Entered, LogDecision, disk, faults, plan, locals, alerts
<1>2. InBar /\ InBar'
  BY DEF Decide, Entered, LogDecision, InBar
<1>3. \A c \in Accounts : HadTurn(c) => HadTurn(c)'
  BY DEF Decide, Entered, LogDecision, HadTurn
<1>4. NewTrade' = NewTrade /\ \A t : Dated(t)' <=> Dated(t)
  BY <1>1 DEF NewTrade, Dated
<1>5. RowsApart' /\ RowsGrow' /\ MemoryAhead'
  BY <1>1 DEF AlertInv, BookInv, RowsApart, RowsGrow, MemoryAhead
<1>6. TradesDated'
  BY <1>1, <1>3, <1>4 DEF AlertInv, BookInv, TradesDated
<1>7. /\ \A x : Backed(x, db'.books) <=> Backed(x, db.books)
      /\ \A x : Backed(x, work'.books) <=> Backed(x, work.books)
  BY <1>1
<1>8. AlertsBacked'
  BY <1>1, <1>2, <1>7 DEF AlertInv, AlertsBacked, InBar
<1> QED
  BY <1>1, <1>5, <1>6, <1>8 DEF AlertInv, BookInv, AlertTypes, AlertsNew

(* With the commit the rows behind the alerts are in the database.         *)
LEMMA CommitAlertInv ==
    ASSUME IInv, AlertInv, Commit
    PROVE  AlertInv'
<1>1. /\ pc = "complete" /\ pc' = "alert" /\ db' = work /\ work' = work /\ mem' = mem
      /\ pending' = pending /\ sent' = sent /\ resent' = resent
      /\ failures' = failures /\ bar' = bar
  BY DEF Commit, faults, plan, locals, alerts
<1>2. bar \in Bar /\ work.done = db.done \cup {bar}
  BY CommitBook DEF IInv, Types
<1>3. RowsApart' /\ MemoryAhead'
  BY <1>1 DEF AlertInv, BookInv, RowsApart, MemoryAhead
<1>4. RowsGrow'
  BY <1>1 DEF RowsGrow, Grown
<1>5. \A t : Dated(t) => Dated(t)'
  BY <1>1, <1>2 DEF Dated
<1>6. Dated(NewTrade)'
  BY <1>1, <1>2 DEF Dated, NewTrade, Bar
<1>7. \A c \in Accounts : Trades(Rows(work.books[c]))
                            \subseteq Trades(mem[c].open \cup Rows(work.books[c]))
  BY DEF Trades
<1>8. TradesDated'
  <2>1. \A t : t = NewTrade => Dated(t)'
    <3>1. NewTrade' = NewTrade
      BY <1>1 DEF NewTrade
    <3> QED
      BY <1>6, <3>1
  <2>2. \A c \in Accounts : \A t \in Trades(mem[c].open \cup Rows(work.books[c])) : Dated(t)'
    BY <1>5, <2>1 DEF AlertInv, BookInv, TradesDated
  <2> QED
    BY <1>1, <1>7, <2>2 DEF TradesDated
<1>9. /\ \A x \in pending : Backed(x, work.books)
      /\ \A x \in sent : x \in Alert /\ Backed(x, db.books)
  BY <1>1 DEF AlertInv, AlertsBacked, AlertTypes, InBar
<1>10. \A x \in sent : Backed(x, work.books)
  BY <1>9, BackedGrows DEF AlertInv, BookInv, RowsGrow
<1>11. AlertsBacked'
  BY <1>1, <1>9, <1>10 DEF AlertsBacked, InBar
<1> QED
  BY <1>1, <1>3, <1>4, <1>8, <1>11 DEF AlertInv, BookInv, AlertTypes, AlertsNew

(* After an exception or a death nothing is told; the memory of another    *)
(* account may keep what the rows have lost.                               *)
LEMMA BackAlertInv ==
    ASSUME IInv, AlertInv, Fail \/ CrashAndRestart
    PROVE  AlertInv'
<1>1. /\ pc' = "cycle" /\ work' = db /\ db' = db /\ pending' = {}
      /\ sent' = sent /\ resent' = resent
  BY DEF Fail, CrashAndRestart, Return
<1>2. /\ failures \in 0..MaxFailures /\ failures' \in {failures, failures + 1}
      /\ Fail => failures' = failures + 1
      /\ mem \in [Accounts -> Book] /\ db.books \in [Accounts -> Book]
      /\ work.books \in [Accounts -> Book]
  BY DEF IInv, Types, State, Fail, CrashAndRestart
<1>3. \A c \in Accounts : /\ Apart(db.books[c])
                          /\ Trades(db.books[c].closed) \subseteq Trades(work.books[c].closed)
                          /\ Trades(mem[c].open) \cap Trades(work.books[c].closed) = {}
  BY DEF AlertInv, BookInv, RowsApart, RowsGrow, Grown, MemoryAhead
<1>4. \A c \in Accounts : mem'[c] = db.books[c] \/ (Fail /\ mem'[c] = mem[c])
  <2>1. CASE Fail
    <3>1. mem' = [mem EXCEPT ![Master] = snapshot] /\ snapshot = db.books[Master]
      BY <2>1 DEF Fail, IInv, InsideBar, InBar, Committed
    <3> QED
      BY <1>2, <2>1, <3>1
  <2>2. CASE CrashAndRestart
    BY <2>2 DEF CrashAndRestart
  <2> QED
    BY <2>1, <2>2
<1>5. RowsApart' /\ RowsGrow'
  BY <1>1, <1>3 DEF RowsApart, RowsGrow, Grown
<1>6. MemoryAhead'
  BY <1>1, <1>3, <1>4 DEF MemoryAhead, Apart
<1>7. \A c \in Accounts : \A p \in mem[c].open \cup Rows(db.books[c]) : p.trade.attempt \in Nat
  <2>1. \A c \in Accounts : mem[c].open \cup Rows(db.books[c]) \subseteq Position
    BY <1>2 DEF Rows, Book
  <2> QED
    BY <2>1 DEF Position, Trade
<1>8. \A c \in Accounts : \A p \in mem[c].open \cup Rows(db.books[c]) :
          Dated(p.trade) => Dated(p.trade)'
  BY <1>1, <1>2, <1>7 DEF Dated
<1>9. \A c \in Accounts : \A p \in Rows(db.books[c]) : Dated(p.trade)'
  <2>1. \A c \in Accounts : \A p \in Rows(db.books[c]) : p.trade \in Trades(Rows(db.books[c]))
    BY DEF Trades
  <2>2. \A c \in Accounts : \A p \in Rows(db.books[c]) : Dated(p.trade)
    BY <2>1 DEF AlertInv, BookInv, TradesDated
  <2> QED
    BY <1>8, <2>2
<1>10. \A t : Fail /\ t = NewTrade => Dated(t)'
  <2>1. NewTrade.attempt = failures
    BY DEF NewTrade
  <2> QED
    BY <1>2, <2>1 DEF Dated
<1>11. Fail => \A c \in Accounts : \A p \in mem[c].open : Dated(p.trade)'
  <2>1. \A c \in Accounts : \A p \in mem[c].open :
           p.trade \in Trades(mem[c].open \cup Rows(work.books[c]))
    BY DEF Trades
  <2>2. \A c \in Accounts : \A p \in mem[c].open : Dated(p.trade) \/ p.trade = NewTrade
    BY <2>1 DEF AlertInv, BookInv, TradesDated
  <2> QED
    BY <1>8, <1>10, <2>2
<1>12. TradesDated'
  BY <1>1, <1>4, <1>9, <1>11 DEF TradesDated, Trades, Rows
<1> QED
  BY <1>1, <1>5, <1>6, <1>12 DEF AlertInv, BookInv, AlertTypes, AlertsBacked, AlertsNew, InBar

(* Alerts go out after the commit, each once; clock and feeds touch none.  *)
LEMMA OutsideAlertInv ==
    ASSUME IInv, AlertInv, NEW healthy, NEW last, NEW x,
           \/ HourPasses \/ FetchFeeds(healthy, last) \/ SendAlert(x) \/ AlertsDone
           \/ UNCHANGED vars
    PROVE  AlertInv'
<1>1. mem' = mem /\ work' = work /\ db' = db /\ failures' = failures
  BY DEF HourPasses, FetchFeeds, SendAlert, AlertsDone, Return, vars, disk, faults
<1>2. \A t : Dated(t)' <=> Dated(t)
  BY <1>1 DEF Dated
<1>3. /\ \A y : Backed(y, db'.books) <=> Backed(y, db.books)
      /\ \A y : Backed(y, work'.books) <=> Backed(y, work.books)
  BY <1>1
<1>4. RowsApart' /\ RowsGrow' /\ MemoryAhead'
  BY <1>1 DEF AlertInv, BookInv, RowsApart, RowsGrow, MemoryAhead
<1>5. TradesDated'
  <2>1. CASE UNCHANGED vars
    <3>1. NewTrade' = NewTrade /\ \A c \in Accounts : HadTurn(c)' <=> HadTurn(c)
      BY <2>1 DEF vars, plan, locals, faults, NewTrade, HadTurn
    <3> QED
      BY <1>1, <1>2, <3>1 DEF AlertInv, BookInv, TradesDated
  <2>2. CASE ~UNCHANGED vars
    <3>1. \A c \in Accounts : ~HadTurn(c)
      BY <2>2 DEF HourPasses, FetchFeeds, SendAlert, AlertsDone, HadTurn
    <3> QED
      BY <1>1, <1>2, <3>1 DEF AlertInv, BookInv, TradesDated
  <2> QED
    BY <2>1, <2>2
<1>6. CASE HourPasses \/ FetchFeeds(healthy, last) \/ UNCHANGED vars
  <2>1. pc' = pc /\ pending' = pending /\ sent' = sent /\ resent' = resent
    BY <1>6 DEF HourPasses, FetchFeeds, vars, alerts
  <2> QED
    BY <1>3, <1>4, <1>5, <2>1 DEF AlertInv, BookInv, AlertTypes, AlertsBacked, AlertsNew, InBar
<1>7. CASE SendAlert(x)
  <2>1. /\ pc = "alert" /\ pc' = "alert" /\ x \in pending /\ pending' = pending \ {x}
        /\ \/ sent' = sent \cup {x} /\ resent' = (resent \/ x \in sent)
           \/ sent' = sent /\ resent' = resent
    BY <1>7 DEF SendAlert
  <2>2. x \in Alert /\ x \notin sent /\ ~resent
    BY <2>1 DEF AlertInv, AlertTypes, AlertsNew
  <2>3. ~resent' /\ sent' \subseteq sent \cup {x} /\ (sent' = sent \cup {x} \/ sent' = sent)
    <3>1. ~resent'
      BY <2>1, <2>2, Zenon
    <3> QED
      BY <2>1, <3>1
  <2>4. /\ \A y \in pending \cup sent : Backed(y, db.books)
        /\ pending' \subseteq pending /\ sent' \subseteq pending \cup sent
    BY <2>1, <2>3 DEF AlertInv, AlertsBacked
  <2>5. \A y \in pending' \cup sent' : Backed(y, db'.books)
    BY <1>3, <2>4
  <2>6. pc' = "alert" /\ ~InBar'
    BY <2>1 DEF InBar
  <2>7. AlertsBacked'
    BY <2>5, <2>6 DEF AlertsBacked
  <2>8. AlertTypes' /\ AlertsNew'
    BY <2>1, <2>2, <2>3 DEF AlertInv, AlertTypes, AlertsNew
  <2> QED
    BY <1>4, <1>5, <2>7, <2>8 DEF AlertInv, BookInv
<1>8. CASE AlertsDone
  <2>1. pc' = "cycle" /\ pending = {} /\ pending' = {} /\ sent' = sent /\ resent' = resent
    BY <1>8 DEF AlertsDone, Return, alerts
  <2> QED
    BY <1>3, <1>4, <1>5, <2>1 DEF AlertInv, BookInv, AlertTypes, AlertsBacked, AlertsNew, InBar
<1> QED
  BY <1>6, <1>7, <1>8

LEMMA StepAlertInv ==
    ASSUME IInv, AlertInv, [Next]_vars
    PROVE  AlertInv'
<1>1. ASSUME NEW b \in todo, NEW v \in VerdictsOn(b.sym), Claim(b, v)
      PROVE  AlertInv'
  <2>1. b \in Bar
    BY DEF IInv, Types
  <2> QED
    BY <1>1, <2>1, ClaimAlertInv
<1>2. ASSUME NEW a \in Accounts, UpdateEngine(a) \/ EnterEngine(a)
      PROVE  AlertInv'
  BY <1>2, UpdateAlertInv, EnterAlertInv
<1>3. CASE Decide \/ Entered \/ LogDecision \/ Commit
  BY <1>3, WalkAlertInv, CommitAlertInv
<1>4. CASE Fail \/ CrashAndRestart
  BY <1>4, BackAlertInv
<1>5. ASSUME NEW healthy \in SUBSET Symbols, NEW last \in [Symbols -> Hours],
             FetchFeeds(healthy, last)
      PROVE  AlertInv'
  BY <1>5, OutsideAlertInv
<1>6. CASE HourPasses \/ AlertsDone \/ UNCHANGED vars \/ \E x \in pending : SendAlert(x)
  BY <1>6, OutsideAlertInv
<1> QED
  BY <1>1, <1>2, <1>3, <1>4, <1>5, <1>6 DEF Next, Process

(* An alert is only ever of a trade that the database has, closed if it    *)
(* says so, and goes out once: for any accounts, also one whose memory is  *)
(* ahead of its rows, any failures and deaths (worker.py:495-508).         *)
THEOREM AlertsHold == Spec => []AlertsAreExact
<1>1. Init => IInv /\ AlertInv
  BY InitIInv, InitAlertInv
<1>2. IInv /\ AlertInv /\ [Next]_vars => IInv' /\ AlertInv'
  BY StepIInv, StepAlertInv
<1>3. IInv /\ AlertInv => AlertsAreExact
  <2> SUFFICES ASSUME IInv, AlertInv, NEW x \in sent
               PROVE  \E p \in Rows(db.books[x.account]) :
                         /\ p.trade = x.trade
                         /\ x.kind = "TRADE_CLOSE" => p \in db.books[x.account].closed
    BY DEF AlertInv, AlertsNew, AlertsAreExact, AlertsTrue, AlertsOnce, Rows
  <2>1. Backed(x, db.books)
    BY DEF AlertInv, AlertsBacked
  <2>2. CASE x.kind = "TRADE_CLOSE"
    BY <2>1, <2>2 DEF Backed, Trades, Rows
  <2>3. CASE x.kind # "TRADE_CLOSE"
    BY <2>1, <2>3 DEF Backed, Trades
  <2> QED
    BY <2>2, <2>3
<1> QED
  BY <1>1, <1>2, <1>3, PTL DEF Spec

-----------------------------------------------------------------------------
(* The count of the bars.  If the exchange never goes back, the bars of a  *)
(* symbol are committed in the order of their hours, so that a bar counts  *)
(* for every position that is open when it is judged.                      *)

FeedTypes == served \in [Symbols -> Hours \cup {-1}]

\* Nothing is recorded or waits that is newer than what was served; what
\* waits is no older than what is recorded, one bar of a symbol.
FeedOrder ==
    /\ \A d \in work.done : d.at <= served[d.sym]
    /\ \A b \in todo : \A d \in work.done : d.sym = b.sym => d.at <= b.at
    /\ \A b \in todo : b.at <= served[b.sym]
    /\ \A b, c \in todo : b.sym = c.sym => b = c

\* The bar in process is newer than all that is committed of its symbol.
BarIsNewest ==
    InBar => /\ \A b \in todo : b.sym # bar.sym
             /\ \A d \in db.done : d.sym = bar.sym => d.at < bar.at

CountInv == FeedTypes /\ FeedOrder /\ BarIsNewest /\ JudgedOnce

BarOf(t) == [sym |-> t.sym, at |-> t.at]

Since(done, t) == {b \in done : b.sym = t.sym /\ b.at > t.at}

(* The bars of one symbol are finitely many, whatever the symbols are.     *)
LEMMA SinceFinite ==
    ASSUME NEW done \in SUBSET Bar, NEW t
    PROVE  IsFiniteSet(Since(done, t))
<1> DEFINE at(h) == [sym |-> t.sym, at |-> h]
           all == {at(h) : h \in Hours}
           pick == [h \in Hours |-> at(h)]
<1>1. IsFiniteSet(Hours)
  BY PipelineAssumption, FS_Interval DEF Hours
<1>2. IsFiniteSet(all)
  <2>1. pick \in Surjection(Hours, all)
    BY DEF Surjection
  <2> HIDE DEF pick, all
  <2> QED
    BY <1>1, <2>1, FS_Surjection
<1>3. Since(done, t) \subseteq all
  BY DEF Since, Bar
<1> QED
  BY <1>2, <1>3, FS_Subset

(* A bar that is newer than a trade of its symbol is one more.             *)
LEMMA OneMore ==
    ASSUME NEW done \in SUBSET Bar, NEW b \in Bar, b \notin done, NEW t \in Trade
    PROVE  /\ t.sym = b.sym /\ t.at < b.at =>
                Cardinality(Since(done \cup {b}, t)) = Cardinality(Since(done, t)) + 1
           /\ t.sym # b.sym => Since(done \cup {b}, t) = Since(done, t)
<1>1. CASE t.sym = b.sym /\ t.at < b.at
  <2>1. Since(done \cup {b}, t) = Since(done, t) \cup {b} /\ b \notin Since(done, t)
    BY <1>1 DEF Since, Bar, Trade, Hours
  <2> QED
    BY <1>1, <2>1, SinceFinite, FS_AddElement
<1>2. CASE t.sym # b.sym
  BY <1>2 DEF Since
<1> QED
  BY <1>1, <1>2

LEMMA InitCountInv == Init => CountInv
<1> SUFFICES ASSUME Init PROVE CountInv
  OBVIOUS
<1>1. db.books[Master] = NoBook /\ work.done = {} /\ db.done = {} /\ todo = {}
  BY PipelineAssumption DEF Init, Empty
<1>2. FeedTypes
  BY DEF Init, FeedTypes
<1>3. ~InBar
  BY DEF Init, InBar
<1> QED
  BY <1>1, <1>2, <1>3 DEF CountInv, FeedOrder, BarIsNewest, JudgedOnce, NoBook

(* A cycle fetches bars no older than those it has fetched before.         *)
LEMMA FetchCountInv ==
    ASSUME FeedMonotone, IInv, CountInv, NEW healthy \in SUBSET Symbols,
           NEW last \in [Symbols -> Hours], FetchFeeds(healthy, last)
    PROVE  CountInv'
<1>1. /\ pc = "cycle" /\ pc' = pc /\ work' = work /\ db' = db
      /\ \A s \in healthy : last[s] >= served[s]
      /\ served' = [s \in Symbols |-> IF s \in healthy /\ last[s] > served[s]
                                      THEN last[s] ELSE served[s]]
      /\ todo' = {[sym |-> s, at |-> last[s]] : s \in healthy}
  BY DEF FetchFeeds, disk
<1>2. served \in [Symbols -> Hours \cup {-1}] /\ work.done \subseteq Bar
  BY DEF CountInv, FeedTypes, IInv, Types, State
<1>3. FeedTypes'
  BY <1>1, <1>2 DEF FeedTypes
<1>4. \A s \in Symbols : served'[s] >= served[s] /\ (s \in healthy => served'[s] = last[s])
  BY <1>1, <1>2, PipelineAssumption DEF Hours
<1>5. \A d \in work.done : d.sym \in Symbols /\ d.at \in Hours /\ d.at <= served[d.sym]
  BY <1>2 DEF CountInv, FeedOrder, Bar
<1>6. \A b \in todo' : b.sym \in healthy /\ b.at = last[b.sym] /\ b = [sym |-> b.sym, at |-> b.at]
  BY <1>1
<1>7. \A d \in work.done : d.at <= served'[d.sym]
  BY <1>2, <1>3, <1>4, <1>5, PipelineAssumption DEF FeedTypes, Hours
<1>8. \A b \in todo' : \A d \in work.done : d.sym = b.sym => d.at <= b.at
  <2> SUFFICES ASSUME NEW b \in todo', NEW d \in work.done, d.sym = b.sym PROVE d.at <= b.at
    OBVIOUS
  <2>1. d.at <= served[b.sym] /\ last[b.sym] >= served[b.sym] /\ b.at = last[b.sym]
    BY <1>1, <1>5, <1>6
  <2>2. d.at \in Int /\ served[b.sym] \in Int /\ last[b.sym] \in Int
    BY <1>2, <1>5, <1>6, PipelineAssumption DEF Hours
  <2> QED
    BY <2>1, <2>2
<1>9. \A b \in todo' : b.at <= served'[b.sym]
  BY <1>4, <1>6, PipelineAssumption DEF Hours
<1>10. \A b, c \in todo' : b.sym = c.sym => b = c
  BY <1>6
<1>11. FeedOrder'
  BY <1>1, <1>7, <1>8, <1>9, <1>10 DEF FeedOrder
<1> QED
  BY <1>1, <1>3, <1>11 DEF CountInv, BarIsNewest, InBar, JudgedOnce

(* A claimed bar is newer than what is recorded of its symbol.             *)
LEMMA ClaimCountInv ==
    ASSUME IInv, CountInv, NEW b \in Bar, NEW v, Claim(b, v)
    PROVE  CountInv'
<1>1. /\ pc = "cycle" /\ b \in todo /\ todo' = todo \ {b} /\ db' = db /\ served' = served
      /\ work = db
  BY DEF Claim, feed, IInv, BetweenBars, InBar
<1>2. JudgedOnce' /\ FeedTypes'
  BY <1>1 DEF CountInv, JudgedOnce, FeedTypes
<1>3. CASE b \in work.done
  BY <1>1, <1>2, <1>3 DEF Claim, locals, CountInv, FeedOrder, BarIsNewest, InBar
<1>4. CASE b \notin work.done
  <2>1. bar' = b /\ work'.done = work.done \cup {b}
    BY <1>4 DEF Claim
  <2>2. FeedOrder'
    BY <1>1, <2>1 DEF CountInv, FeedOrder
  <2>3. \A d \in db.done : d.sym = b.sym => d.at < b.at
    <3> SUFFICES ASSUME NEW d \in db.done, d.sym = b.sym PROVE d.at < b.at
      OBVIOUS
    <3>1. d \in Bar /\ d # b /\ d.at <= b.at
      BY <1>1, <1>4 DEF IInv, Types, State, CountInv, FeedOrder
    <3> QED
      BY <3>1 DEF Bar, Hours
  <2>4. BarIsNewest'
    BY <1>1, <2>1, <2>3 DEF BarIsNewest, CountInv, FeedOrder
  <2> QED
    BY <1>2, <2>2, <2>4 DEF CountInv
<1> QED
  BY <1>3, <1>4

LEMMA CommittedCounts ==
    ASSUME IInv, CountInv
    PROVE  \A p \in Committed.open :
              /\ p \in Position /\ p.judged = Cardinality(Since(db.done, p.trade))
              /\ BarOf(p.trade) \in db.done
<1>1. \A p \in Committed.open : p \in Position
  BY PipelineAssumption DEF IInv, Types, State, Committed, Book
<1>2. \A p \in Committed.open : p.judged = Cardinality(Since(db.done, p.trade))
  BY DEF CountInv, JudgedOnce, Since, Committed
<1>3. \A p \in Committed.open : BarOf(p.trade) \in db.done
  <2>1. Keyed(Committed, db.done)
    BY DEF IInv
  <2> QED
    BY <2>1, Zenon DEF Keyed, BarOf
<1> QED
  BY <1>1, <1>2, <1>3

(* A committed bar has judged every position that was open of its symbol.  *)
LEMMA CommitCountInv ==
    ASSUME IInv, CountInv, Commit
    PROVE  CountInv'
<1> DEFINE s == bar.sym
           v == verdict
           bookAfter == After(Committed, s, v)
<1>1. /\ bar \notin db.done /\ work.done = db.done \cup {bar} /\ Committed \in Book
      /\ \/ Working = bookAfter
         \/ Working = WithNew(bookAfter, bar, failures)
      /\ bar \in Bar /\ db.done \in SUBSET Bar
  BY CommitBook DEF IInv, Types, State
<1>2. /\ pc = "complete" /\ pc' = "alert" /\ db' = work /\ work' = work /\ todo' = todo
      /\ served' = served
  BY DEF Commit, feed, plan
<1>3. \A d \in db.done : d.sym = s => d.at < bar.at
  BY <1>2 DEF CountInv, BarIsNewest, InBar
<1>4. \A p \in Committed.open : /\ p \in Position /\ p.judged = Cardinality(Since(db.done, p.trade))
                                /\ BarOf(p.trade) \in db.done
  BY CommittedCounts
<1>5. \A p \in Committed.open \ Of(Committed, s) :
         p.judged = Cardinality(Since(work.done, p.trade))
  <2> SUFFICES ASSUME NEW p \in Committed.open, p.trade.sym # s
               PROVE  p.judged = Cardinality(Since(work.done, p.trade))
    BY DEF Of
  <2>1. p.trade \in Trade
    BY <1>4 DEF Position
  <2>2. Since(db.done \cup {bar}, p.trade) = Since(db.done, p.trade)
    BY <1>1, <2>1, OneMore
  <2> QED
    BY <1>1, <1>4, <2>2
<1>6. \A q \in JudgedIn(Committed, s, v) : q.judged = Cardinality(Since(work.done, q.trade))
  <2> SUFFICES ASSUME NEW p \in Committed.open, p.trade.sym = s
               PROVE  p.judged + 1 = Cardinality(Since(work.done, p.trade))
    BY DEF JudgedIn, JudgedBy, Of
  <2>1. p.trade \in Trade
    BY <1>4 DEF Position
  <2>2. p.trade.at < bar.at
    <3>1. BarOf(p.trade) \in db.done
      BY <1>4
    <3> QED
      BY <1>3, <3>1 DEF BarOf
  <2>3. Cardinality(Since(db.done \cup {bar}, p.trade)) = Cardinality(Since(db.done, p.trade)) + 1
    BY <1>1, <2>1, <2>2, OneMore
  <2> QED
    BY <1>1, <1>4, <2>3
<1>7. \A p \in bookAfter.open : p.judged = Cardinality(Since(work.done, p.trade))
  BY <1>5, <1>6 DEF After
<1>8. NewPosition(bar, failures).judged = Cardinality(Since(work.done, NewPosition(bar, failures).trade))
  <2>1. Since(work.done, NewPosition(bar, failures).trade) = {}
    BY <1>1, <1>3 DEF Since, NewPosition, Bar, Hours
  <2> QED
    BY <2>1, FS_EmptySet DEF NewPosition
<1>9. \A p \in Working.open : p.judged = Cardinality(Since(work.done, p.trade))
  <2>1. Working.open \subseteq bookAfter.open \cup {NewPosition(bar, failures)}
    BY <1>1 DEF WithNew
  <2> QED
    BY <1>7, <1>8, <2>1
<1>10. JudgedOnce'
  BY <1>2, <1>9 DEF JudgedOnce, Working, Since
<1> QED
  BY <1>2, <1>10 DEF CountInv, FeedTypes, FeedOrder, BarIsNewest, InBar

(* The other steps leave the committed book alone, and record nothing.     *)
LEMMA OtherCountInv ==
    ASSUME IInv, CountInv, NEW a \in Accounts, NEW x,
           \/ UpdateEngine(a) \/ EnterEngine(a) \/ Decide \/ Entered \/ LogDecision
           \/ Fail \/ CrashAndRestart \/ HourPasses \/ SendAlert(x) \/ AlertsDone
           \/ UNCHANGED vars
    PROVE  CountInv'
<1>1. db' = db /\ served' = served /\ todo' \subseteq todo
  BY DEF UpdateEngine, EnterEngine, Decide, Entered, LogDecision, Fail, CrashAndRestart,
     HourPasses, SendAlert, AlertsDone, Write, vars, feed, plan, disk
<1>2. work'.done = work.done \/ work' = db
  BY DEF UpdateEngine, EnterEngine, Decide, Entered, LogDecision, Fail, CrashAndRestart,
     HourPasses, SendAlert, AlertsDone, Write, vars, disk
<1>3. db.done \subseteq work.done
  BY DEF IInv, BetweenBars, InsideBar
<1>4. work'.done \subseteq work.done
  BY <1>2, <1>3
<1>5. FeedOrder' /\ FeedTypes' /\ JudgedOnce'
  BY <1>1, <1>4 DEF CountInv, FeedOrder, FeedTypes, JudgedOnce
<1>6. InBar' => InBar /\ bar' = bar
  BY DEF UpdateEngine, EnterEngine, Decide, Entered, LogDecision, Fail, CrashAndRestart,
     HourPasses, SendAlert, AlertsDone, Return, vars, plan, locals, InBar
<1>7. BarIsNewest'
  BY <1>1, <1>6 DEF CountInv, BarIsNewest
<1> QED
  BY <1>5, <1>7 DEF CountInv

LEMMA StepCountInv ==
    ASSUME FeedMonotone, IInv, CountInv, [Next]_vars
    PROVE  CountInv'
<1>1. ASSUME NEW b \in todo, NEW v \in VerdictsOn(b.sym), Claim(b, v)
      PROVE  CountInv'
  <2>1. b \in Bar
    BY DEF IInv, Types
  <2> QED
    BY <1>1, <2>1, ClaimCountInv
<1>2. ASSUME NEW a \in Accounts, UpdateEngine(a) \/ EnterEngine(a)
      PROVE  CountInv'
  BY <1>2, OtherCountInv
<1>3. CASE Commit
  BY <1>3, CommitCountInv
<1>4. ASSUME NEW healthy \in SUBSET Symbols, NEW last \in [Symbols -> Hours],
             FetchFeeds(healthy, last)
      PROVE  CountInv'
  BY <1>4, FetchCountInv
<1>5. CASE \/ Decide \/ Entered \/ LogDecision \/ Fail \/ CrashAndRestart
           \/ HourPasses \/ AlertsDone \/ UNCHANGED vars \/ \E x \in pending : SendAlert(x)
  BY <1>5, OtherCountInv, PipelineAssumption
<1> QED
  BY <1>1, <1>2, <1>3, <1>4, <1>5 DEF Next, Process

(* Bars are processed exactly once (0002_processed_bars.sql:1), provided    *)
(* that the exchange never serves an older bar after a newer one: every    *)
(* committed bar has judged every position that was open before it, for    *)
(* any failures and deaths.                                                *)
THEOREM EveryBarJudged == ASSUME FeedMonotone PROVE Spec => []JudgedOnce
<1>1. Init => IInv /\ CountInv
  BY InitIInv, InitCountInv
<1>2. IInv /\ CountInv /\ [Next]_vars => IInv' /\ CountInv'
  BY StepIInv, StepCountInv
<1>3. CountInv => JudgedOnce
  BY DEF CountInv
<1> QED
  BY <1>1, <1>2, <1>3, PTL DEF Spec

-----------------------------------------------------------------------------
(* Every engine, as long as no bar has failed.                             *)

\* The bars that the trades of an account may be of: the one under way only
\* once the account has had its turn to enter.
Booked(a) ==
    IF pc \in {"log", "complete"} \/ (pc = "enter" /\ a \notin turn) THEN work.done ELSE db.done

\* The memory of an engine is what the connection has written of it.
Whole(a) ==
    /\ mem[a] = work.books[a]
    /\ Keyed(mem[a], Booked(a)) /\ Keyed(db.books[a], db.done)

AllWhole == failures = 0 => \A a \in Accounts : Whole(a)

(* The turn of an engine: memory and rows take the same bar. *)
LEMMA UpdateWhole ==
    ASSUME IInv, AllWhole, NEW a \in Accounts, UpdateEngine(a)
    PROVE  AllWhole'
<1> SUFFICES ASSUME failures' = 0, NEW c \in Accounts PROVE Whole(c)'
  BY DEF AllWhole
<1> DEFINE judged == JudgedIn(mem[a], bar.sym, verdict)
           gone == GoneIn(mem[a], bar.sym, verdict)
<1>1. judged = {Judged(p) : p \in Of(mem[a], bar.sym)}
  BY DEF JudgedIn, JudgedBy, Judged
<1>2. gone = {p \in judged : verdict[p.trade.at] = "exit"}
  BY DEF GoneIn
<1>3. /\ pc = "update" /\ pc' = "update" /\ failures = 0
      /\ mem' = [mem EXCEPT ![a] = [open |-> (@.open \ Of(@, bar.sym)) \cup (judged \ gone),
                                    closed |-> @.closed \cup gone]]
      /\ Write(a, judged \ gone, gone)
  BY <1>1, <1>2 DEF UpdateEngine, faults
<1>4. /\ mem \in [Accounts -> Book] /\ mem[a] \in Book /\ work.books[a] \in Book
      /\ verdict \in [Hours -> Verdicts]
  BY DEF IInv, Types, State
<1>5. judged \subseteq Position /\ gone \subseteq judged
  BY <1>4, JudgedType DEF JudgedIn, GoneIn, Of, Book
<1>6. mem' = [mem EXCEPT ![a] = After(mem[a], bar.sym, verdict)]
  BY <1>3 DEF After
<1>7. Whole(a) /\ Whole(c) /\ Booked(a) = db.done /\ Booked(c) = db.done
  BY <1>3 DEF AllWhole, Booked
<1> HIDE DEF judged, gone
<1>8. Upsert(work.books[a], judged \ gone, gone) \in Book
  BY <1>4, <1>5, UpsertType
<1>9. /\ db' = db
      /\ work'.books[a] = Upsert(work.books[a], judged \ gone, gone)
      /\ \A d \in Accounts : d # a => work'.books[d] = work.books[d]
  BY <1>3, <1>8, WriteEffect DEF IInv
<1>10. Booked(c)' = db.done
  BY <1>3, <1>9 DEF Booked
<1>11. CASE c = a
  <2>1. Upsert(work.books[a], judged \ gone, gone) = After(mem[a], bar.sym, verdict)
    BY <1>4, <1>7, UpsertJudged DEF Whole, judged, gone
  <2>2. Keyed(After(mem[a], bar.sym, verdict), db.done)
    BY <1>4, <1>7, KeyedAfter DEF Whole
  <2> QED
    BY <1>4, <1>6, <1>7, <1>9, <1>10, <1>11, <2>1, <2>2 DEF Whole
<1>12. CASE c # a
  BY <1>4, <1>6, <1>7, <1>9, <1>10, <1>12 DEF Whole
<1> QED
  BY <1>11, <1>12

(* The entry of an engine: memory and rows take the same position. *)
LEMMA EnterWhole ==
    ASSUME IInv, AllWhole, NEW a \in Accounts, EnterEngine(a)
    PROVE  AllWhole'
<1> SUFFICES ASSUME failures' = 0, NEW c \in Accounts PROVE Whole(c)'
  BY DEF AllWhole
<1> DEFINE new == NewPosition(bar, failures)
<1>1. /\ pc = "enter" /\ pc' = "enter" /\ a \in turn /\ turn' = turn \ {a}
      /\ failures = 0 /\ bar' = bar
  BY DEF EnterEngine, faults, Turn
<1>2. \/ /\ mem' = [mem EXCEPT ![a] = WithNew(mem[a], bar, failures)]
         /\ Write(a, {new}, {})
      \/ mem' = mem /\ work' = work /\ db' = db
  BY DEF EnterEngine, NewPosition, WithNew, disk
<1>3. /\ mem \in [Accounts -> Book] /\ mem[a] \in Book /\ bar \in Bar
      /\ work.books[a] \in Book /\ failures \in 0..MaxFailures
  BY DEF IInv, Types, State
<1>4. new \in Position
  BY <1>3 DEF NewPosition, Position, Trade, Bar
<1>5. bar \notin db.done /\ work.done = db.done \cup {bar}
  BY <1>1 DEF IInv, InsideBar, InBar
<1>6. Whole(a) /\ Whole(c) /\ Booked(a) = db.done
  BY <1>1 DEF AllWhole, Booked
<1>7. Booked(a)' = work.done' /\ (c # a => Booked(c)' = IF c \in turn THEN db.done' ELSE work.done')
  BY <1>1 DEF Booked
<1>8. c # a => Booked(c) = IF c \in turn THEN db.done ELSE work.done
  BY <1>1 DEF Booked
<1>9. /\ Keyed(mem[a], db.done \cup {bar})
      /\ Keyed(WithNew(mem[a], bar, failures), db.done \cup {bar})
  BY <1>3, <1>5, <1>6, KeyedNew DEF Whole
<1>10. CASE mem' = mem /\ work' = work /\ db' = db
  BY <1>5, <1>6, <1>7, <1>8, <1>9, <1>10 DEF Whole
<1>11. CASE /\ mem' = [mem EXCEPT ![a] = WithNew(mem[a], bar, failures)]
            /\ Write(a, {new}, {})
  <2> HIDE DEF new
  <2>1. Upsert(work.books[a], {new}, {}) \in Book
    BY <1>3, <1>4, UpsertType
  <2>2. /\ db' = db /\ work'.done = work.done
        /\ work'.books[a] = Upsert(work.books[a], {new}, {})
        /\ \A d \in Accounts : d # a => work'.books[d] = work.books[d]
    BY <1>11, <2>1, WriteEffect DEF IInv
  <2>3. Upsert(work.books[a], {new}, {}) = WithNew(mem[a], bar, failures)
    BY <1>3, <1>5, <1>6, UpsertNew DEF Whole, new
  <2>4. CASE c = a
    BY <1>3, <1>5, <1>6, <1>7, <1>9, <1>11, <2>2, <2>3, <2>4 DEF Whole
  <2>5. CASE c # a
    BY <1>3, <1>6, <1>7, <1>8, <1>11, <2>2, <2>5 DEF Whole
  <2> QED
    BY <2>4, <2>5
<1> QED
  BY <1>2, <1>10, <1>11

(* The steps between the writes, the commit, a death and what is outside of *)
(* the bar leave memory and rows alike.                                     *)
LEMMA OtherWhole ==
    ASSUME IInv, AllWhole,
           \/ \E b \in todo, v \in [Hours -> Verdicts] : Claim(b, v)
           \/ Decide \/ Entered \/ LogDecision \/ Commit \/ CrashAndRestart \/ AlertsDone
           \/ HourPasses \/ UNCHANGED vars \/ \E x \in pending : SendAlert(x)
           \/ \E healthy \in SUBSET Symbols, last \in [Symbols -> Hours] : FetchFeeds(healthy, last)
    PROVE  AllWhole'
<1> SUFFICES ASSUME failures' = 0, NEW a \in Accounts PROVE Whole(a)'
  BY DEF AllWhole
<1>1. ~InBar => work = db
  BY DEF IInv, BetweenBars
<1>2. InBar => work.done = db.done \cup {bar}
  BY DEF IInv, InsideBar
<1>3. ASSUME NEW done, Keyed(mem[a], db.done) PROVE Keyed(mem[a], db.done \cup done)
  BY <1>3 DEF Keyed
<1>4. ASSUME failures = 0 PROVE Whole(a)
  BY <1>4 DEF AllWhole
<1>5. CASE \E b \in todo, v \in [Hours -> Verdicts] : Claim(b, v)
  <2>1. /\ failures = 0 /\ mem' = mem /\ db' = db /\ work'.books = work.books
        /\ pc = "cycle" /\ pc' \in {"cycle", "update"}
    BY <1>5 DEF Claim, faults, locals
  <2>2. Booked(a) = db.done /\ Booked(a)' = db.done
    BY <2>1 DEF Booked
  <2> QED
    BY <1>4, <2>1, <2>2 DEF Whole
<1>6. CASE Decide \/ Entered \/ LogDecision
  <2>1. /\ failures = 0 /\ mem' = mem /\ db' = db /\ work' = work
        /\ InBar
    BY <1>6 DEF Decide, Entered, LogDecision, InBar, faults, disk, plan, locals
  <2>2. Keyed(mem[a], work.done) \/ Booked(a)' = db.done
    <3>1. CASE Booked(a) = work.done
      BY <1>4, <2>1, <3>1 DEF Whole
    <3>2. CASE Booked(a) = db.done
      BY <1>2, <1>3, <1>4, <2>1, <3>2 DEF Whole
    <3> QED
      BY <3>1, <3>2 DEF Booked
  <2>3. Booked(a)' \in {db.done, work.done}
    BY <2>1 DEF Booked
  <2>4. Booked(a)' = db.done => Booked(a) = db.done \/ work.done = db.done
    BY <1>6, <2>1 DEF Booked, Decide, Entered, LogDecision
  <2>5. Keyed(mem[a], Booked(a)')
    <3>1. CASE Booked(a)' = db.done
      <4>1. Booked(a) = db.done
        BY <2>4, <3>1 DEF Booked
      <4> QED
        BY <1>4, <2>1, <3>1, <4>1 DEF Whole
    <3>2. CASE Booked(a)' # db.done
      BY <2>2, <2>3, <3>2
    <3> QED
      BY <3>1, <3>2
  <2> QED
    BY <1>4, <2>1, <2>5 DEF Whole
<1>7. CASE Commit
  <2>1. /\ failures = 0 /\ mem' = mem /\ db' = work /\ work' = work
        /\ pc = "complete" /\ pc' = "alert"
    BY <1>7 DEF Commit, faults, plan
  <2>2. Booked(a) = work.done /\ Booked(a)' = work.done
    BY <2>1 DEF Booked
  <2> QED
    BY <1>4, <2>1, <2>2 DEF Whole
<1>8. CASE CrashAndRestart
  <2>1. failures = 0 /\ mem' = db.books /\ work' = db /\ db' = db /\ pc' = "cycle"
    BY <1>8 DEF CrashAndRestart, Return
  <2>2. Booked(a)' = db.done
    BY <2>1 DEF Booked
  <2> QED
    BY <1>4, <2>1, <2>2 DEF Whole
<1>9. CASE AlertsDone \/ HourPasses \/ (\E x \in pending : SendAlert(x)) \/ UNCHANGED vars
           \/ \E healthy \in SUBSET Symbols, last \in [Symbols -> Hours] : FetchFeeds(healthy, last)
  <2>1. failures = 0 /\ mem' = mem /\ work' = work /\ db' = db
    BY <1>9 DEF AlertsDone, HourPasses, SendAlert, FetchFeeds, vars, faults, disk, plan, locals
  <2>2. \/ pc' = pc /\ turn' = turn
        \/ pc = "alert" /\ pc' = "cycle"
    BY <1>9 DEF AlertsDone, HourPasses, SendAlert, FetchFeeds, Return, vars, plan, locals
  <2>3. Booked(a)' = Booked(a)
    BY <2>1, <2>2 DEF Booked
  <2> QED
    BY <1>4, <2>1, <2>3 DEF Whole
<1> QED
  BY <1>5, <1>6, <1>7, <1>8, <1>9

(* What worker.py:498 promises holds of every engine until a bar fails: all *)
(* books in memory are those of the database, across every restart.  It is  *)
(* the exception alone, the rollback of which resets self.engine only, that *)
(* takes the engines apart.                                                 *)
THEOREM EnginesSyncUntilFailure == Spec => [](failures = 0 => EnginesInSync)
<1>1. Init => AllWhole
  <2> SUFFICES ASSUME Init, NEW a \in Accounts PROVE Whole(a)
    BY DEF AllWhole
  <2>1. mem[a] = NoBook /\ work.books[a] = NoBook /\ db.books[a] = NoBook
    BY DEF Init, Empty
  <2> QED
    BY <2>1 DEF Whole, Keyed, NoBook
<1>2. IInv /\ AllWhole /\ [Next]_vars => AllWhole'
  <2> SUFFICES ASSUME IInv, AllWhole, [Next]_vars PROVE AllWhole'
    OBVIOUS
  <2>1. ASSUME NEW b \in todo, NEW v \in VerdictsOn(b.sym), Claim(b, v)
        PROVE  AllWhole'
    <3>1. v \in [Hours -> Verdicts]
      BY DEF VerdictsOn
    <3> QED
      BY <2>1, <3>1, OtherWhole
  <2>2. ASSUME NEW a \in Accounts, UpdateEngine(a) \/ EnterEngine(a)
        PROVE  AllWhole'
    BY <2>2, UpdateWhole, EnterWhole
  <2>3. CASE Fail
    <3>1. failures' = failures + 1 /\ failures \in Nat
      BY <2>3, PipelineAssumption DEF Fail, IInv, Types
    <3> QED
      BY <3>1 DEF AllWhole
  <2>4. CASE \/ Decide \/ Entered \/ LogDecision \/ Commit \/ CrashAndRestart \/ AlertsDone
             \/ HourPasses \/ UNCHANGED vars \/ \E x \in pending : SendAlert(x)
             \/ \E healthy \in SUBSET Symbols, last \in [Symbols -> Hours] : FetchFeeds(healthy, last)
    BY <2>4, OtherWhole
  <2> QED
    BY <2>1, <2>2, <2>3, <2>4 DEF Next, Process
<1>3. IInv /\ AllWhole => (failures = 0 => EnginesInSync)
  <2> SUFFICES ASSUME IInv, AllWhole, failures = 0, NEW a \in Accounts, pc \in {"cycle", "alert"}
               PROVE  mem[a] = db.books[a]
    BY DEF EnginesInSync, InSync
  <2>1. work = db
    BY DEF IInv, BetweenBars, InBar
  <2> QED
    BY <2>1 DEF AllWhole, Whole
<1> QED
  BY <1>1, <1>2, <1>3, InvariantHolds, PTL DEF Spec

=============================================================================
