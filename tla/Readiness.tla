------------------------------ MODULE Readiness ------------------------------
(***************************************************************************)
(* What /ready and /status/worker (api/app.py) say of the worker, against  *)
(* what the worker may do.  They read the row runner_state, which the      *)
(* worker publishes at its start and after each cycle, and which halt and  *)
(* resume of the API (api/routes.py) write as well, after they have put    *)
(* their command into the queue; nobody but the worker knows its machine.  *)
(*                                                                         *)
(* Real time passes; the clock both containers stamp with may be set back. *)
(***************************************************************************)
EXTENDS Integers, Sequences

CONSTANTS
    Threshold,      \* _STALE_THRESHOLD_S
    Tolerance,      \* _FUTURE_SKEW_TOLERANCE_S
    NoState,        \* a row or a command that is missing
    MaxTime,        \* bound on the time
    MaxBack,        \* bound on how far the clock is set back
    MaxOrders,      \* bound on the halts and resumes
    MaxReadyCrashes \* bound on crashes of the worker and its failing cycles

ASSUME ReadinessAssumption ==
    /\ Threshold \in Nat /\ Tolerance \in Nat
    /\ MaxTime \in Nat /\ MaxBack \in Nat
    /\ MaxOrders \in Nat /\ MaxReadyCrashes \in Nat
    /\ NoState \notin {"halt", "resume"}

VARIABLES
    time, back,   \* real time; how far the clock is behind it
    alive,        \* whether the worker runs
    machine,      \* its machine: "RUNNING", "DEGRADED", "HALTED"
    cycle,        \* "drain" or "publish"
    queue,        \* pending commands, in their order
    unwritten,    \* orders whose request has not written the row yet
    newest,       \* the newest order
    obeyed,       \* the order the worker has acknowledged last as applied
    state,        \* runner_state: [fsm, stamp] or NoState
    orders, readyCrashes,
    forgot,       \* history: the last start could not read what to restore
    lastOpen,     \* history: when the worker was last able to open a trade
    lastResume    \* history: when a resume last wrote the row

readyVars == <<time, back, alive, machine, cycle, queue, unwritten, newest,
               obeyed, state, orders, readyCrashes, forgot, lastOpen, lastResume>>

worker == <<alive, machine, cycle, queue, obeyed, readyCrashes, forgot, lastOpen>>
api    == <<unwritten, newest, orders, lastResume>>

Clock == time - back

\* can_open_new_trades of a worker that runs
CanTrade == alive /\ machine = "RUNNING"

-----------------------------------------------------------------------------
(* The endpoints. *)

Age == Clock - state.stamp

\* Variant for mutation: only a stamp of the future is stale.
StaleNever == state = NoState \/ Age < -Tolerance

Stale == state = NoState \/ Age > Threshold \/ Age < -Tolerance

\* bot_enabled; otherwise entries_locked
Enabled == ~Stale /\ state.fsm = "RUNNING"

-----------------------------------------------------------------------------

ReadyInit ==
    /\ time = 0 /\ back = 0
    /\ alive = FALSE /\ machine = "DEGRADED" /\ cycle = "drain"
    /\ queue = <<>> /\ unwritten = {} /\ newest = NoState /\ obeyed = NoState
    /\ state = NoState
    /\ orders = 0 /\ readyCrashes = 0 /\ forgot = FALSE
    /\ lastOpen = -1 /\ lastResume = -1

\* The worker is able to open trades until the instant after this step.
Noted(running, fsm, t) ==
    lastOpen' = IF running /\ fsm = "RUNNING" THEN t ELSE lastOpen

TimePasses ==
    /\ time < MaxTime
    /\ time' = time + 1
    /\ Noted(alive, machine, time + 1)
    /\ UNCHANGED <<back, alive, machine, cycle, queue, obeyed, readyCrashes, forgot,
                   api, state>>

ClockSetBack ==
    /\ back < MaxBack
    /\ back' = back + 1
    /\ UNCHANGED <<time, worker, api, state>>

Published(fsm) == state' = [fsm |-> fsm, stamp |-> Clock]

\* Variant for mutation: the restart looks at the row alone.
RestoredFromRow == state # NoState /\ state.fsm = "HALTED"

\* The last order applied was a halt, or else the row says so.
RestoredHalt == obeyed = "halt" \/ (state # NoState /\ state.fsm = "HALTED")

(* The restore, whose reads may fail, the warm-up, the first publication. *)
WorkerStarts(feedsOk, read) ==
    /\ ~alive
    /\ alive' = TRUE
    /\ machine' = IF read /\ RestoredHalt THEN "HALTED"
                  ELSE IF feedsOk THEN "RUNNING" ELSE "DEGRADED"
    /\ forgot' = ~read
    /\ cycle' = "drain"
    /\ Published(machine')
    /\ Noted(TRUE, machine', time)
    /\ UNCHANGED <<time, back, queue, obeyed, readyCrashes, api>>

(* The last order applied after the first n commands: a resume is rejected  *)
(* unless the machine is halted.                                            *)
ObeyedAfter(n) ==
    IF n = 0 THEN obeyed
    ELSE IF queue[n] = "halt" THEN "halt"
    ELSE IF machine = "HALTED" \/ \E i \in 1..n : queue[i] = "halt" THEN "resume"
    ELSE obeyed

(* The first part of a cycle: the commands, then the feeds. *)
WorkerDrains(feedsOk) ==
    /\ alive /\ cycle = "drain"
    /\ LET n == Len(queue)
           halted == IF n = 0 THEN machine = "HALTED" ELSE queue[n] = "halt"
       IN
         /\ machine' = IF halted THEN "HALTED" ELSE IF feedsOk THEN "RUNNING" ELSE "DEGRADED"
         /\ obeyed' = ObeyedAfter(n)
    /\ queue' = <<>>
    /\ cycle' = "publish"
    /\ Noted(TRUE, machine', time)
    /\ UNCHANGED <<time, back, alive, readyCrashes, forgot, api, state>>

WorkerPublishes ==
    /\ alive /\ cycle = "publish"
    /\ cycle' = "drain"
    /\ Published(machine)
    /\ UNCHANGED <<time, back, alive, machine, queue, obeyed, readyCrashes, forgot,
                   lastOpen, api>>

Failing == readyCrashes < MaxReadyCrashes /\ readyCrashes' = readyCrashes + 1

(* An exception ends the cycle before it publishes. *)
CycleRaises ==
    /\ alive /\ cycle = "publish"
    /\ Failing
    /\ cycle' = "drain"
    /\ machine' = IF machine = "HALTED" THEN machine ELSE "DEGRADED"
    /\ UNCHANGED <<time, back, alive, queue, obeyed, forgot, lastOpen, api, state>>

(* The drain ends, with an exception or with the worker, between the effect *)
(* of a command and its acknowledgement; n commands are acknowledged.       *)
DrainBreaksOff(n, dies) ==
    /\ alive /\ cycle = "drain"
    /\ n < Len(queue)
    /\ Failing
    /\ obeyed' = ObeyedAfter(n)
    /\ queue' = SubSeq(queue, n + 1, Len(queue))
    /\ machine' = IF queue[n + 1] = "halt" THEN "HALTED" ELSE "DEGRADED"
    /\ alive' = ~dies
    /\ UNCHANGED <<time, back, cycle, forgot, lastOpen, api, state>>

WorkerDies ==
    /\ alive
    /\ Failing
    /\ alive' = FALSE
    /\ UNCHANGED <<time, back, machine, cycle, queue, obeyed, forgot, lastOpen, api, state>>

(* halt and resume: the command, and then the row, which is left alone if   *)
(* it does not exist or the write fails.                                    *)
Order(kind) ==
    /\ orders < MaxOrders
    /\ orders' = orders + 1
    /\ queue' = Append(queue, kind)
    /\ newest' = kind
    /\ unwritten' = unwritten \cup {kind}
    /\ UNCHANGED <<time, back, alive, machine, cycle, obeyed, readyCrashes, forgot,
                   lastOpen, lastResume, state>>

OrderWrites(kind, fails) ==
    /\ kind \in unwritten
    /\ unwritten' = unwritten \ {kind}
    /\ IF fails \/ state = NoState
       THEN UNCHANGED <<state, lastResume>>
       ELSE /\ Published(IF kind = "halt" THEN "HALTED" ELSE "RUNNING")
            /\ lastResume' = IF kind = "resume" THEN time ELSE lastResume
    /\ UNCHANGED <<time, back, worker, newest, orders>>

WorkerLoop ==
    \/ \E feedsOk, read \in BOOLEAN : WorkerStarts(feedsOk, read)
    \/ \E feedsOk \in BOOLEAN : WorkerDrains(feedsOk)
    \/ WorkerPublishes

OrderEnds == \E kind \in {"halt", "resume"}, fails \in BOOLEAN : OrderWrites(kind, fails)

ReadyNext ==
    \/ TimePasses \/ ClockSetBack
    \/ WorkerLoop \/ CycleRaises \/ WorkerDies
    \/ \E n \in 0..MaxOrders, dies \in BOOLEAN : DrainBreaksOff(n, dies)
    \/ \E kind \in {"halt", "resume"} : Order(kind)
    \/ OrderEnds

\* The container restarts the worker, its loop goes on, a request ends.
ReadyFairness == WF_readyVars(WorkerLoop) /\ WF_readyVars(OrderEnds)

ReadySpec == ReadyInit /\ [][ReadyNext]_readyVars /\ ReadyFairness

-----------------------------------------------------------------------------
(* Properties *)

ReadyTypeOK ==
    /\ time \in Nat /\ back \in Nat
    /\ alive \in BOOLEAN /\ machine \in {"RUNNING", "DEGRADED", "HALTED"}
    /\ cycle \in {"drain", "publish"}
    /\ queue \in Seq({"halt", "resume"})
    /\ unwritten \subseteq {"halt", "resume"}
    /\ newest \in {"halt", "resume", NoState} /\ obeyed \in {"halt", "resume", NoState}
    /\ state = NoState \/
       (state.fsm \in {"RUNNING", "DEGRADED", "HALTED"} /\ state.stamp \in Int)
    /\ forgot \in BOOLEAN /\ lastOpen \in Int /\ lastResume \in Int

(* /ready reports a bot that cannot trade as enabled only for a while: the  *)
(* worker was able to trade, or an operator has resumed it, no longer ago   *)
(* than the threshold (and what the clock was set back).  Whatever dies,    *)
(* hangs or raises, the report ends without anybody's doing.                *)
ReadyIsBounded ==
    Enabled /\ ~CanTrade =>
        \/ lastOpen >= 0 /\ time - lastOpen <= Threshold + back
        \/ lastResume >= 0 /\ time - lastResume <= Threshold + back

(* Once a halt is the last word, /ready comes to report the bot as disabled *)
(* for good: neither a publication of a cycle that had not read the halt,   *)
(* nor the late write of an earlier resume, nor a drain that breaks off     *)
(* before the acknowledgement, nor a restart that can read its database     *)
(* lasts.                                                                   *)
HaltIsShown == <>[](newest = "halt" /\ ~forgot) => <>[]~Enabled

=============================================================================
