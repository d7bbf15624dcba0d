------------------------------ MODULE StateView ------------------------------
(***************************************************************************)
(* What the API shows of the trades while the worker writes them.  Two     *)
(* ways lead to an answer (api/routes.py, api/app.py):                     *)
(*                                                                         *)
(*   - /state builds an engine of its own, which reads the open trades and *)
(*     then the closed ones, in two statements without a transaction;      *)
(*   - most other requests first reload the one engine all requests share  *)
(*     (get_paper_engine), under its lock; /api/state reads that engine    *)
(*     without the lock and without a reload.                              *)
(*                                                                         *)
(* Requests run in threads.  A trade is an id; what it adds to the equity  *)
(* is abstracted to the ids a load has counted.                            *)
(***************************************************************************)
EXTENDS Integers, Sequences, FiniteSets, SequencesExt, Selection

CONSTANTS
    Requests,      \* threads of the API
    TradeNos,      \* trades, numbered as they are opened: the order of the rows
    NoRequest

ASSUME ViewAssumption ==
    /\ IsFiniteSet(TradeNos) /\ TradeNos = 1..Cardinality(TradeNos)
    /\ NoRequest \notin Requests

VARIABLES
    rows,            \* status of each trade: "none", "open", "closed", "deleted"
    openPositions,   \* of the shared engine; a dict keeps its insertion order
    closedPositions, \* of the shared engine
    engineLock,      \* _lock of the shared engine
    at,              \* where a request is
    selected,        \* rows a request has fetched and not yet copied
    position,        \* index and size of the iteration of a request
    answer,          \* [open, closed]: what the request has collected
    seen,            \* history: rows when the request began
    gone,            \* history: trades closed when the last load began, and
    floor            \* when the last load before a request began

viewVars == <<rows, openPositions, closedPositions, engineLock, at, selected,
              position, answer, seen, gone, floor>>

engine  == <<openPositions, closedPositions>>
history == <<seen, gone, floor>>

With(status) == {i \in TradeNos : rows[i] = status}

\* A statement scans the table in the order of its rows.
InOrder(S) == Where(rows, S)

Nothing == [open |-> <<>>, closed |-> <<>>]

-----------------------------------------------------------------------------

ViewInit ==
    /\ rows = [i \in TradeNos |-> "none"]
    /\ openPositions = <<>>
    /\ closedPositions = <<>>
    /\ engineLock = NoRequest
    /\ at = [t \in Requests |-> "idle"]
    /\ selected = [t \in Requests |-> <<>>]
    /\ position = [t \in Requests |-> <<0, 0>>]
    /\ answer = [t \in Requests |-> Nothing]
    /\ seen = [t \in Requests |-> [i \in TradeNos |-> "none"]]
    /\ gone = [last |-> {}, loading |-> {}]
    /\ floor = [t \in Requests |-> {}]

(* The worker opens or closes a trade, ...                                  *)
WorkerWrites(i) ==
    /\ rows[i] \in {"none", "open"}
    /\ \A j \in TradeNos : j < i => rows[j] # "none"
    /\ rows' = [rows EXCEPT ![i] = IF @ = "none" THEN "open" ELSE "closed"]
    /\ UNCHANGED <<engine, engineLock, at, selected, position, answer, history>>

Deleted(S) ==
    /\ S # {}
    /\ rows' = [i \in TradeNos |-> IF i \in S THEN "deleted" ELSE rows[i]]
    /\ UNCHANGED <<engine, engineLock, at, selected, position, answer, history>>

(* ... or deletes all, for a reset; the API itself clears the history.      *)
AccountReset == Deleted(With("open") \cup With("closed"))

HistoryCleared == Deleted(With("closed"))

RowsChange == (\E i \in TradeNos : WorkerWrites(i)) \/ AccountReset \/ HistoryCleared

Go(t, where) == at' = [at EXCEPT ![t] = where]

\* A request ends, and with it all it had in its hands.
Forget(t) ==
    /\ Go(t, "idle")
    /\ position' = [position EXCEPT ![t] = <<0, 0>>]
    /\ answer' = [answer EXCEPT ![t] = Nothing]
    /\ seen' = [seen EXCEPT ![t] = [i \in TradeNos |-> "none"]]
    /\ floor' = [floor EXCEPT ![t] = {}]

-----------------------------------------------------------------------------
(* The load of the shared engine (_load_state_from_db_if_available). *)

\* Variant for mutation: no lock.
LockFreeAlways == TRUE

LockFree == engineLock = NoRequest

\* Variant for mutation: the lists are not reset.
StartLoadAppending(t) ==
    /\ at[t] = "idle"
    /\ LockFree
    /\ engineLock' = t
    /\ gone' = [gone EXCEPT !.loading = With("closed") \cup With("deleted")]
    /\ Go(t, "selectOpen")
    /\ UNCHANGED <<rows, engine, selected, position, answer, seen, floor>>

StartLoad(t) ==
    /\ at[t] = "idle"
    /\ LockFree
    /\ engineLock' = t
    /\ openPositions' = <<>>
    /\ closedPositions' = <<>>
    /\ gone' = [gone EXCEPT !.loading = With("closed") \cup With("deleted")]
    /\ Go(t, "selectOpen")
    /\ UNCHANGED <<rows, selected, position, answer, seen, floor>>

SelectOpen(t) ==
    /\ at[t] = "selectOpen"
    /\ selected' = [selected EXCEPT ![t] = InOrder(With("open"))]
    /\ Go(t, "fillOpen")
    /\ UNCHANGED <<rows, engine, engineLock, position, answer, history>>

\* A dict: the position of a trade that is there already is replaced.
FillOpen(t) ==
    /\ at[t] = "fillOpen"
    /\ selected[t] # <<>>
    /\ openPositions' = IF Contains(openPositions, Head(selected[t])) THEN openPositions
                        ELSE Append(openPositions, Head(selected[t]))
    /\ selected' = [selected EXCEPT ![t] = Tail(@)]
    /\ UNCHANGED <<rows, closedPositions, engineLock, at, position, answer, history>>

SelectClosed(t) ==
    /\ at[t] = "fillOpen"
    /\ selected[t] = <<>>
    /\ selected' = [selected EXCEPT ![t] = InOrder(With("closed"))]
    /\ Go(t, "fillClosed")
    /\ UNCHANGED <<rows, engine, engineLock, position, answer, history>>

FillClosed(t) ==
    /\ at[t] = "fillClosed"
    /\ selected[t] # <<>>
    /\ closedPositions' = Append(closedPositions, Head(selected[t]))
    /\ selected' = [selected EXCEPT ![t] = Tail(@)]
    /\ UNCHANGED <<rows, openPositions, engineLock, at, position, answer, history>>

EndLoad(t) ==
    /\ at[t] = "fillClosed"
    /\ selected[t] = <<>>
    /\ engineLock' = NoRequest
    /\ gone' = [last |-> gone.loading, loading |-> {}]
    /\ Go(t, "idle")
    /\ UNCHANGED <<rows, engine, selected, position, answer, seen, floor>>

-----------------------------------------------------------------------------
(* /state: an engine of its own. *)

\* Variant for mutation: the closed trades first.
ClosedFirst == <<"closed", "open">>

Lists == <<"open", "closed">>

\* Variant for mutation: the statement has no condition on the status.
FetchedAll(list) ==
    InOrder(IF list = "open" THEN With("open") \cup With("closed") ELSE With("closed"))

Fetched(list) == InOrder(With(list))

ViewFirst(t) ==
    /\ at[t] = "idle"
    /\ seen' = [seen EXCEPT ![t] = rows]
    /\ answer' = [answer EXCEPT ![t][Lists[1]] = Fetched(Lists[1])]
    /\ Go(t, "viewSecond")
    /\ UNCHANGED <<rows, engine, engineLock, selected, position, gone, floor>>

ViewSecond(t) ==
    /\ at[t] = "viewSecond"
    /\ answer' = [answer EXCEPT ![t][Lists[2]] = Fetched(Lists[2])]
    /\ Go(t, "viewed")
    /\ UNCHANGED <<rows, engine, engineLock, selected, position, history>>

-----------------------------------------------------------------------------
(* /api/state: a list comprehension over the positions of the shared engine. *)

Iterate(t) ==
    /\ at[t] = "idle"
    /\ position' = [position EXCEPT ![t] = <<0, Len(openPositions)>>]
    /\ answer' = [answer EXCEPT ![t] = Nothing]
    /\ floor' = [floor EXCEPT ![t] = gone.last]
    /\ Go(t, "iterating")
    /\ UNCHANGED <<rows, engine, engineLock, selected, seen, gone>>

\* A dict whose size has changed ends the iteration with a RuntimeError.
Changed(t) == Len(openPositions) # position[t][2]

IterationRaises(t) ==
    /\ at[t] = "iterating"
    /\ Changed(t)
    /\ Forget(t)
    /\ UNCHANGED <<rows, engine, engineLock, selected, gone>>

NextPosition(t) ==
    LET n == position[t][1] + 1 IN
    /\ at[t] = "iterating"
    /\ ~Changed(t)
    /\ n <= Len(openPositions)
    /\ position' = [position EXCEPT ![t] = <<n, @[2]>>]
    /\ answer' = [answer EXCEPT ![t].open = Append(@, openPositions[n])]
    /\ UNCHANGED <<rows, engine, engineLock, at, selected, history>>

EndIteration(t) ==
    /\ at[t] = "iterating"
    /\ ~Changed(t)
    /\ position[t][1] = Len(openPositions)
    /\ Go(t, "listed")
    /\ UNCHANGED <<rows, engine, engineLock, selected, position, answer, history>>

Respond(t) ==
    /\ at[t] \in {"viewed", "listed"}
    /\ Forget(t)
    /\ UNCHANGED <<rows, engine, engineLock, selected, gone>>

Request(t) ==
    \/ StartLoad(t) \/ SelectOpen(t) \/ FillOpen(t)
    \/ SelectClosed(t) \/ FillClosed(t) \/ EndLoad(t)
    \/ ViewFirst(t) \/ ViewSecond(t)
    \/ Iterate(t) \/ IterationRaises(t) \/ NextPosition(t) \/ EndIteration(t)
    \/ Respond(t)

ViewNext ==
    \/ \E t \in Requests : Request(t)
    \/ RowsChange

ViewSpec == ViewInit /\ [][ViewNext]_viewVars

-----------------------------------------------------------------------------
(* Properties *)

ViewTypeOK ==
    /\ rows \in [TradeNos -> {"none", "open", "closed", "deleted"}]
    /\ openPositions \in Seq(TradeNos) /\ closedPositions \in Seq(TradeNos)
    /\ engineLock \in Requests \cup {NoRequest}
    /\ at \in [Requests -> {"idle", "selectOpen", "fillOpen", "fillClosed",
                            "viewSecond", "viewed", "iterating", "listed"}]
    /\ selected \in [Requests -> Seq(TradeNos)]
    /\ position \in [Requests -> Nat \X Nat]
    /\ answer \in [Requests -> [open : Seq(TradeNos), closed : Seq(TradeNos)]]

(* /state loses no trade: whatever the worker opens and closes between its  *)
(* two statements, a trade that was there when it began is in the answer,   *)
(* unless it was deleted.                                                   *)
NothingMissing ==
    \A t \in Requests : at[t] = "viewed" =>
        \A i \in TradeNos :
            seen[t][i] \in {"open", "closed"} =>
                \/ Contains(answer[t].open, i) \/ Contains(answer[t].closed, i)
                \/ rows[i] = "deleted"

(* A trade is counted twice, in the lists and in the equity of /state, only *)
(* if it was closed between the two statements.                             *)
TwiceOnlyIfClosing ==
    \A t \in Requests : at[t] = "viewed" =>
        \A i \in TradeNos :
            Contains(answer[t].open, i) /\ Contains(answer[t].closed, i) =>
                seen[t][i] = "open" /\ rows[i] \in {"closed", "deleted"}

(* However many requests reload it at once, the shared engine holds every   *)
(* trade once, and none it has not read: no two loads are mixed.            *)
SharedHoldsOnce ==
    /\ IsInjective(openPositions) /\ IsInjective(closedPositions)
    /\ \A i \in TradeNos :
          /\ Contains(openPositions, i) => rows[i] # "none"
          /\ Contains(closedPositions, i) => rows[i] \in {"closed", "deleted"}

(* A list of /api/state that is given at all never shows as open a trade    *)
(* that was closed before the last complete reload began, nor one twice.    *)
ListedWasOpen ==
    \A t \in Requests : at[t] = "listed" =>
        /\ IsInjective(answer[t].open)
        /\ \A i \in floor[t] : ~Contains(answer[t].open, i)

(* What the API shows of the trades, on either way to an answer, is what    *)
(* was in the table, but for a trade that was being closed.                 *)
ViewsAreSound == NothingMissing /\ TwiceOnlyIfClosing /\ SharedHoldsOnce /\ ListedWasOpen

=============================================================================
