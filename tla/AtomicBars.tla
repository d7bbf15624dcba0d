------------------------------ MODULE AtomicBars ------------------------------
(***************************************************************************)
(* What the bar transaction of the worker promises for one account         *)
(* (0002_processed_bars.sql: exactly-once closed-bar decisions): a bar is  *)
(* recorded together with everything it does to the book, or not at all,   *)
(* and never a second time.                                                *)
(***************************************************************************)
EXTENDS Integers, FiniteSets

CONSTANTS Bars, Attempts, Limit

VARIABLES book, done

Init == book = [open |-> {}, closed |-> {}] /\ done = {}

\* Every open position of the symbol is judged by the bar; "exits" are closed
\* by it, "halves" sell one half, and one new position may follow if the symbol
\* is then flat and the account not full.
Judged(p, halves) ==
    [trade |-> p.trade, half |-> p.half \/ p \in halves, judged |-> p.judged + 1]

Entry(b, n) ==
    [trade |-> [sym |-> b.sym, at |-> b.at, attempt |-> n], half |-> FALSE, judged |-> 0]

ProcessBar(b, exits, halves, entries) ==
    LET held == {p \in book.open : p.trade.sym = b.sym}
        kept == {Judged(p, halves) : p \in held \ exits}
        open == (book.open \ held) \cup kept
    IN
    /\ b \notin done
    /\ exits \subseteq held
    /\ entries # {} => kept = {} /\ Cardinality(open) < Limit
    /\ book' = [open |-> open \cup entries,
                closed |-> book.closed \cup {Judged(p, halves) : p \in exits}]
    /\ done' = done \cup {b}

Next ==
    \E b \in Bars : \E exits \in SUBSET book.open : \E halves \in SUBSET book.open :
        \/ ProcessBar(b, exits, halves, {})
        \/ \E n \in Attempts : ProcessBar(b, exits, halves, {Entry(b, n)})

Spec == Init /\ [][Next]_<<book, done>>

===============================================================================
