---------------------------- MODULE ControlPlane ----------------------------
(***************************************************************************)
(* The control plane of AURA v3.  The API process turns operator requests  *)
(* into rows of the commands table (and, for halt and resume, touches its  *)
(* own state machine and the runner_state row); the worker process drains  *)
(* the pending rows at the head of every cycle, one effect and one status  *)
(* update at a time, then checks its feeds, processes the closed bars and  *)
(* publishes its state.  Both may crash between any two steps; the worker  *)
(* rebuilds its halt state from the tables when it starts again.           *)
(*                                                                         *)
(* Every step is one database transaction (or one read) of one process.    *)
(* set_config commands and the revisions they carry are module             *)
(* ConfigRevisions.                                                        *)
(***************************************************************************)
EXTENDS Naturals, StateMachine

CONSTANTS
    Cmds,          \* command ids; random UUIDs, compared as the column is
    Kinds,         \* the kinds of command the operator issues
    Trades,        \* trade ids; an id is never used twice
    Accounts,
    Master,        \* the account self.engine points to
    AccountOf,     \* the account of a trade
    NoRow,         \* runner_state has no row yet
    None,
    MaxNow,        \* bound on the clock ticks between steps
    MaxCrashes,    \* bound on process crashes
    MaxFaults      \* bound on failing database transactions of the worker

CommandKinds == {"halt", "resume", "close_trade", "reset_account"}

ASSUME ConstantsAssumption ==
    /\ Cmds \subseteq Nat
    /\ Kinds \subseteq CommandKinds
    /\ Master \in Accounts
    /\ AccountOf \in [Trades -> Accounts]
    /\ NoRow \notin SystemStates
    /\ None \notin Cmds /\ None \notin Trades /\ None \notin Accounts
    /\ MaxNow \in Nat /\ MaxCrashes \in Nat /\ MaxFaults \in Nat

VARIABLES
    now,       \* the wall clock in ms; both containers run on one host
    cmds,      \* table commands, with the requests still in flight
    row,       \* runner_state.fsm_state
    db,        \* table trades: status of each id
    tails,     \* halt and resume requests that still have to touch runner_state
    apiSm,     \* state machine of the API process
    pc,        \* where the worker is
    sm,        \* state machine of the worker process
    open,      \* open_positions of both engines of the worker
    batch,     \* rows of the drain's SELECT that are not finished yet
    result,    \* the status the drain is about to write
    visible,   \* history: every row the SELECT of this cycle returned
    lastAck,   \* history: the halt or resume whose status was written last
    told,      \* history: the worker can know of lastAck: it has written the
               \* status itself, or its restore could read, and no other halt
               \* or resume was stamped in the same millisecond
    crashes, faults

apiVars    == <<tails, apiSm>>
dbVars     == <<cmds, row, db>>
workerVars == <<pc, sm, open, batch, result, visible, lastAck, told>>
budget     == <<crashes, faults>>
vars       == <<now, dbVars, apiVars, workerVars, budget>>

-----------------------------------------------------------------------------

Args == Trades \cup Accounts \cup {None}

Statuses == {"free", "inflight", "pending", "applied", "rejected"}
Finished == {"applied", "rejected"}

(* A row of the table commands.  "free" is an id nobody drew yet and        *)
(* "inflight" a request whose INSERT has taken its timestamp but not        *)
(* committed; neither is visible to the worker.  "after" is history: the    *)
(* rows that were committed before this request took its timestamp.         *)
Command == [status  : Statuses,
            kind    : CommandKinds \cup {None},
            arg     : Args,
            created : Nat,
            applied : Nat,
            after   : SUBSET Cmds]

FreeCommand == [status |-> "free", kind |-> None, arg |-> None,
                created |-> 0, applied |-> 0, after |-> {}]

WithStatus(s) == {c \in Cmds : cmds[c].status \in s}

\* the payloads of the four routes
ArgsOf(k) == CASE k \in {"halt", "resume"} -> {None}
               [] k = "close_trade"        -> Trades
               [] k = "reset_account"      -> Accounts

HaltOrResume(c) == cmds[c].kind \in {"halt", "resume"}

\* Variant for mutation: ORDER BY id.
DrainedById(c, d) == c < d

\* ORDER BY created_at_ms, id
DrainedBefore(c, d) ==
    \/ cmds[c].created < cmds[d].created
    \/ cmds[c].created = cmds[d].created /\ c < d

\* ORDER BY applied_at_ms DESC, id DESC
RestoredBefore(c, d) ==
    \/ cmds[d].applied < cmds[c].applied
    \/ cmds[c].applied = cmds[d].applied /\ d < c

IsCurrent(c) ==
    /\ c \in batch
    /\ \A d \in batch \ {c} : DrainedBefore(c, d)

Open(account) == {t \in Trades : db[t] = "open" /\ AccountOf[t] = account}

-----------------------------------------------------------------------------

(* A fresh database, or one that the legacy importer has left HALTED. *)
Init ==
    /\ now = 0
    /\ cmds = [c \in Cmds |-> FreeCommand]
    /\ row \in {NoRow, "HALTED"}
    /\ db = [t \in Trades |-> "unused"]
    /\ tails = {}
    /\ apiSm = NewMachine("STARTING")
    /\ pc = "down"
    /\ sm = NewMachine("STARTING")
    /\ open = {}
    /\ batch = {}
    /\ result = "none"
    /\ visible = {}
    /\ lastAck = None
    /\ told = FALSE
    /\ crashes = 0
    /\ faults = 0

Tick ==
    /\ now < MaxNow
    /\ now' = now + 1
    /\ UNCHANGED <<dbVars, apiVars, workerVars, budget>>

-----------------------------------------------------------------------------
(* The API process.  Requests run on a thread pool, each with a connection *)
(* of its own, so their steps interleave.                                  *)

(* _enqueue_command draws an id and a timestamp, then waits for the write  *)
(* lock of the INSERT.                                                     *)
ApiEnqueue(c, k, a) ==
    /\ cmds[c].status = "free"
    /\ cmds' = [cmds EXCEPT ![c] =
                  [status |-> "inflight", kind |-> k, arg |-> a, created |-> now,
                   applied |-> 0, after |-> WithStatus({"pending"} \cup Finished)]]
    /\ UNCHANGED <<now, row, db, apiVars, workerVars, budget>>

ApiCommit(c) ==
    /\ cmds[c].status = "inflight"
    /\ cmds' = [cmds EXCEPT ![c].status = "pending"]
    /\ tails' = IF HaltOrResume(c) THEN tails \cup {c} ELSE tails
    /\ UNCHANGED <<now, row, db, apiSm, workerVars, budget>>

(* The write lock was not granted within the busy timeout: error 500. *)
ApiRefused(c) ==
    /\ cmds[c].status = "inflight"
    /\ cmds' = [cmds EXCEPT ![c] = FreeCommand]
    /\ UNCHANGED <<now, row, db, apiVars, workerVars, budget>>

(* The rest of the routes halt and resume: the state machine of the API    *)
(* process, then an UPDATE of runner_state in a transaction of its own     *)
(* whose failure is swallowed.  UPDATE finds nothing while there is no row.*)
ApiFinish(c, updated) ==
    /\ c \in tails
    /\ tails' = tails \ {c}
    /\ apiSm' = IF cmds[c].kind = "halt"
                THEN EmergencyHalt(apiSm)
                ELSE TransitionTo([apiSm EXCEPT !.halted = FALSE], "RUNNING")
    /\ row' = IF ~updated \/ row = NoRow THEN row
              ELSE IF cmds[c].kind = "halt" THEN "HALTED" ELSE "RUNNING"
    /\ UNCHANGED <<now, cmds, db, workerVars, budget>>

(* POST /history/clear deletes behind the worker's back. *)
ApiClearHistory(account) ==
    /\ \E t \in Trades : db[t] = "closed" /\ AccountOf[t] = account
    /\ db' = [t \in Trades |->
                IF db[t] = "closed" /\ AccountOf[t] = account
                THEN "deleted" ELSE db[t]]
    /\ UNCHANGED <<now, cmds, row, apiVars, workerVars, budget>>

(* A new API process: requests that were not committed are gone. *)
ApiCrash ==
    /\ crashes < MaxCrashes
    /\ crashes' = crashes + 1
    /\ cmds' = [c \in Cmds |-> IF cmds[c].status = "inflight"
                               THEN FreeCommand ELSE cmds[c]]
    /\ tails' = {}
    /\ apiSm' = NewMachine("STARTING")
    /\ UNCHANGED <<now, row, db, workerVars, faults>>

-----------------------------------------------------------------------------
(* The worker process: start. *)

HaltAndResumeApplied ==
    {c \in Cmds : HaltOrResume(c) /\ cmds[c].status = "applied"}

\* Variant for mutation: only the published state counts.
ShouldHaltByRow == row = "HALTED"

(* _restore_persisted_state: halted if the newest applied halt or resume   *)
(* is a halt, or else if runner_state says HALTED.  A read that raises is  *)
(* logged and leaves the state machine as it is.                           *)
ShouldHalt ==
    \/ \E c \in HaltAndResumeApplied :
          /\ cmds[c].kind = "halt"
          /\ \A d \in HaltAndResumeApplied \ {c} : RestoredBefore(c, d)
    \/ row = "HALTED"

Restored(m, read) ==
    IF read /\ ShouldHalt /\ ~m.halted THEN EmergencyHalt(m) ELSE m

\* No other halt or resume has the stamp of the one that was confirmed last.
StampedAlone ==
    \A d \in HaltAndResumeApplied \ {lastAck} : cmds[d].applied # cmds[lastAck].applied

(* __init__: both engines load their trades, then the first restore. *)
WorkerBoot(read) ==
    /\ pc = "down"
    /\ pc' = "booted"
    /\ sm' = Restored(NewMachine("STARTING"), read)
    /\ open' = {t \in Trades : db[t] = "open"}
    /\ told' = (read /\ StampedAlone)
    /\ UNCHANGED <<now, dbVars, apiVars, batch, result, visible, lastAck, budget>>

(* start: the second restore; a halted worker skips the warm-up. *)
WorkerStart(read) ==
    /\ pc = "booted"
    /\ LET m == Restored(sm, read) IN
         IF m.halted
         THEN sm' = m /\ pc' = "announce"
         ELSE sm' = TransitionTo(m, "WARMING_UP") /\ pc' = "warmup"
    /\ told' = (told \/ (read /\ StampedAlone))
    /\ UNCHANGED <<now, dbVars, apiVars, open, batch, result, visible, lastAck, budget>>

Warmup(healthy) ==
    /\ pc = "warmup"
    /\ pc' = "announce"
    /\ sm' = IF healthy THEN TransitionTo(sm, "RUNNING") ELSE MarkDegraded(sm)
    /\ UNCHANGED <<now, dbVars, apiVars, open, batch, result, visible, lastAck, told, budget>>

(* _update_runner_state(0), before the loop. *)
Announce ==
    /\ pc = "announce"
    /\ pc' = "idle"
    /\ row' = sm.state
    /\ UNCHANGED <<now, cmds, db, apiVars, sm, open, batch, result, visible, lastAck, told, budget>>

-----------------------------------------------------------------------------
(* The worker process: one cycle. *)

(* An exception that leaves the cycle: start logs it, marks the machine    *)
(* degraded and runs the next cycle, which reads the commands anew.        *)
AbortCycle ==
    /\ faults < MaxFaults
    /\ faults' = faults + 1
    /\ sm' = MarkDegraded(sm)
    /\ pc' = "idle"
    /\ batch' = {}
    /\ visible' = {}
    /\ result' = "none"
    /\ UNCHANGED <<now, dbVars, apiVars, open, lastAck, told, crashes>>

\* Variant for mutation: halts overtake the other commands.
DrainHaltsFirst ==
    /\ pc = "idle"
    /\ pc' = "drain"
    /\ batch' = LET halts == {c \in WithStatus({"pending"}) : cmds[c].kind = "halt"}
                IN  IF halts # {} THEN halts ELSE WithStatus({"pending"})
    /\ visible' = batch'
    /\ UNCHANGED <<now, dbVars, apiVars, sm, open, result, lastAck, told, budget>>

Drain ==
    /\ pc = "idle"
    /\ pc' = "drain"
    /\ batch' = WithStatus({"pending"})
    /\ visible' = batch'
    /\ UNCHANGED <<now, dbVars, apiVars, sm, open, result, lastAck, told, budget>>

Applying(c, k) == pc = "drain" /\ IsCurrent(c) /\ cmds[c].kind = k

ApplyHalt(c) ==
    /\ Applying(c, "halt")
    /\ sm' = EmergencyHalt(sm)
    /\ result' = "applied"
    /\ pc' = "ack"
    /\ UNCHANGED <<now, dbVars, apiVars, open, batch, visible, lastAck, told, budget>>

\* Variant for mutation: a resume stays pending until the feeds are back.
ApplyResumeDeferred(c) ==
    /\ Applying(c, "resume")
    /\ sm' = ResumeFromHalt(sm)
    /\ result' = "pending"
    /\ pc' = "ack"
    /\ UNCHANGED <<now, dbVars, apiVars, open, batch, visible, lastAck, told, budget>>

ApplyResume(c) ==
    /\ Applying(c, "resume")
    /\ sm' = ResumeFromHalt(sm)
    /\ result' = IF CanReach(sm, "RECOVERING") THEN "applied" ELSE "rejected"
    /\ pc' = "ack"
    /\ UNCHANGED <<now, dbVars, apiVars, open, batch, visible, lastAck, told, budget>>

\* Variant for mutation: the row is written only by the next bar.
ApplyCloseInMemory(c) ==
    /\ Applying(c, "close_trade")
    /\ open' = open \ {cmds[c].arg}
    /\ result' = IF cmds[c].arg \in open THEN "applied" ELSE "rejected"
    /\ pc' = "ack"
    /\ UNCHANGED <<now, dbVars, apiVars, sm, batch, visible, lastAck, told, budget>>

(* _apply_close_trade_command: memory and row change in one transaction.   *)
ApplyClose(c) ==
    /\ Applying(c, "close_trade")
    /\ LET t == cmds[c].arg IN
         IF t \in open
         THEN /\ db' = [db EXCEPT ![t] = "closed"]
              /\ open' = open \ {t}
              /\ result' = "applied"
         ELSE result' = "rejected" /\ UNCHANGED <<db, open>>
    /\ pc' = "ack"
    /\ UNCHANGED <<now, cmds, row, apiVars, sm, batch, visible, lastAck, told, budget>>

\* Variants for mutation: the API deletes, or the open trades are kept.
ApplyResetRows(c) ==
    /\ Applying(c, "reset_account")
    /\ db' = [t \in Trades |-> IF AccountOf[t] = cmds[c].arg /\ db[t] # "unused"
                              THEN "deleted" ELSE db[t]]
    /\ result' = "applied"
    /\ pc' = "ack"
    /\ UNCHANGED <<now, cmds, row, apiVars, sm, open, batch, visible, lastAck, told, budget>>

ApplyResetClosed(c) ==
    /\ Applying(c, "reset_account")
    /\ db' = [t \in Trades |-> IF AccountOf[t] = cmds[c].arg /\ db[t] = "closed"
                              THEN "deleted" ELSE db[t]]
    /\ result' = "applied"
    /\ pc' = "ack"
    /\ UNCHANGED <<now, cmds, row, apiVars, sm, open, batch, visible, lastAck, told, budget>>

(* _apply_reset_account_command: the rows first, then the memory. *)
ApplyReset(c) ==
    /\ Applying(c, "reset_account")
    /\ LET mine(t) == AccountOf[t] = cmds[c].arg IN
         /\ db' = [t \in Trades |-> IF mine(t) /\ db[t] # "unused"
                                   THEN "deleted" ELSE db[t]]
         /\ open' = {t \in open : ~mine(t)}
    /\ result' = "applied"
    /\ pc' = "ack"
    /\ UNCHANGED <<now, cmds, row, apiVars, sm, batch, visible, lastAck, told, budget>>

(* The transaction of a close or a reset fails: the snapshot is restored,  *)
(* or the memory has not been touched yet, and the exception is raised.    *)
ApplyFails(c) ==
    /\ Applying(c, "close_trade") \/ Applying(c, "reset_account")
    /\ cmds[c].kind = "close_trade" => cmds[c].arg \in open
    /\ AbortCycle

Answered(r, s, t) ==
    [status |-> s, kind |-> r.kind, arg |-> r.arg, created |-> r.created,
     applied |-> t, after |-> r.after]

\* history
Confirmed(c) ==
    IF HaltOrResume(c) /\ result = "applied"
    THEN lastAck' = c /\ told' = TRUE
    ELSE UNCHANGED <<lastAck, told>>

\* Variant for mutation: only an applied command is written.
AckApplied(c) ==
    /\ pc = "ack"
    /\ IsCurrent(c)
    /\ cmds' = IF result = "applied"
               THEN [cmds EXCEPT ![c] = Answered(@, result, now)] ELSE cmds
    /\ Confirmed(c)
    /\ batch' = batch \ {c}
    /\ result' = "none"
    /\ pc' = "drain"
    /\ UNCHANGED <<now, row, db, apiVars, sm, open, visible, budget>>

(* The UPDATE of the command's status, in a second transaction. *)
Ack(c) ==
    /\ pc = "ack"
    /\ IsCurrent(c)
    /\ cmds' = [cmds EXCEPT ![c] = Answered(@, result, now)]
    /\ Confirmed(c)
    /\ batch' = batch \ {c}
    /\ result' = "none"
    /\ pc' = "drain"
    /\ UNCHANGED <<now, row, db, apiVars, sm, open, visible, budget>>

\* Variant for mutation: one command a cycle.
CheckFeedsEarly(valid) ==
    /\ pc = "drain"
    /\ sm' = IF valid = "all" THEN MarkHealthy(sm)
             ELSE IF sm.state = "RUNNING" THEN MarkDegraded(sm) ELSE sm
    /\ pc' = IF valid = "none" THEN "publish" ELSE "bars"
    /\ batch' = {}
    /\ UNCHANGED <<now, dbVars, apiVars, open, result, visible, lastAck, told, budget>>

(* Phase 1 of the cycle: "all" feeds are valid, "some" are, or "none" is.  *)
CheckFeeds(valid) ==
    /\ pc = "drain"
    /\ batch = {}
    /\ sm' = IF valid = "all" THEN MarkHealthy(sm)
             ELSE IF sm.state = "RUNNING" THEN MarkDegraded(sm) ELSE sm
    /\ pc' = IF valid = "none" THEN "publish" ELSE "bars"
    /\ UNCHANGED <<now, dbVars, apiVars, open, batch, result, visible, lastAck, told, budget>>

(* The transaction of one closed bar: exits of either account, and entries *)
(* (at most one an account) only while the state machine allows them.  The *)
(* positions of the bar's symbol that are kept are written again, which    *)
(* shows only in those of which a failed bar has lost the row.             *)
BarOutcome(exits, entries) ==
    /\ pc = "bars"
    /\ exits \subseteq open
    /\ \A t \in entries : db[t] = "unused"
    /\ \A s, t \in entries : AccountOf[s] = AccountOf[t] => s = t
    /\ entries # {} => CanOpen(sm)

BarCommits(exits, kept, entries) ==
    /\ BarOutcome(exits, entries)
    /\ kept \subseteq {t \in open \ exits : db[t] # "open"}
    /\ exits \cup kept \cup entries # {}
    /\ db' = [t \in Trades |-> IF t \in exits THEN "closed"
                             ELSE IF t \in kept \cup entries THEN "open" ELSE db[t]]
    /\ open' = (open \ exits) \cup entries
    /\ UNCHANGED <<now, cmds, row, apiVars, pc, sm, batch, result, visible, lastAck, told, budget>>

(* The transaction is rolled back and the exception swallowed.  Only the   *)
(* master's memory is restored; the ids drawn for entries are lost.        *)
BarFails(exits, entries) ==
    /\ faults < MaxFaults
    /\ BarOutcome(exits, entries)
    /\ exits \cup entries # {}
    /\ db' = [t \in Trades |-> IF t \in entries THEN "deleted" ELSE db[t]]
    /\ open' = {t \in open : t \in exits => AccountOf[t] = Master}
               \cup {t \in entries : AccountOf[t] # Master}
    /\ faults' = faults + 1
    /\ UNCHANGED <<now, cmds, row, apiVars, pc, sm, batch, result, visible, lastAck, told, crashes>>

BarsDone ==
    /\ pc = "bars"
    /\ pc' = "publish"
    /\ UNCHANGED <<now, dbVars, apiVars, sm, open, batch, result, visible, lastAck, told, budget>>

(* _update_runner_state at the end of the cycle. *)
Publish ==
    /\ pc = "publish"
    /\ row' = sm.state
    /\ pc' = "idle"
    /\ visible' = {}
    /\ UNCHANGED <<now, cmds, db, apiVars, sm, open, batch, result, lastAck, told, budget>>

(* The SELECT of the drain, a status update or the last write raises. *)
CycleFails == pc \in {"idle", "ack", "publish"} /\ AbortCycle

(* The process dies, or stops at a signal: only the database is left. *)
WorkerCrash ==
    /\ pc # "down"
    /\ crashes < MaxCrashes
    /\ crashes' = crashes + 1
    /\ pc' = "down"
    /\ sm' = NewMachine("STARTING")
    /\ open' = {}
    /\ batch' = {}
    /\ visible' = {}
    /\ result' = "none"
    /\ told' = FALSE
    /\ UNCHANGED <<now, dbVars, apiVars, lastAck, faults>>

-----------------------------------------------------------------------------

ApiStep ==
    \/ \E c \in Cmds :
          \/ \E k \in Kinds : \E a \in ArgsOf(k) : ApiEnqueue(c, k, a)
          \/ ApiCommit(c)
          \/ ApiRefused(c)
          \/ \E updated \in BOOLEAN : ApiFinish(c, updated)
    \/ \E account \in Accounts : ApiClearHistory(account)
    \/ ApiCrash

WorkerStep ==
    \/ \E read \in BOOLEAN : WorkerBoot(read) \/ WorkerStart(read)
    \/ \E healthy \in BOOLEAN : Warmup(healthy)
    \/ Announce
    \/ Drain
    \/ \E c \in Cmds :
          ApplyHalt(c) \/ ApplyResume(c) \/ ApplyClose(c) \/ ApplyReset(c)
          \/ ApplyFails(c) \/ Ack(c)
    \/ \E valid \in {"all", "some", "none"} : CheckFeeds(valid)
    \/ \E exits, kept, entries \in SUBSET Trades :
          BarCommits(exits, kept, entries) \/ BarFails(exits, entries)
    \/ BarsDone
    \/ Publish
    \/ CycleFails

Next == Tick \/ ApiStep \/ WorkerStep \/ WorkerCrash

Spec == Init /\ [][Next]_vars

(* The loop of start() never waits for anybody, and the container is       *)
(* restarted when it exits: the worker always takes its next step.         *)
FairSpec == Spec /\ WF_vars(WorkerStep)

-----------------------------------------------------------------------------
(* Properties *)

(* Every variable of the control plane (tables, API, worker) stays within   *)
(* the values its code can give it.                                         *)
TypeOK ==
    /\ now \in Nat
    /\ cmds \in [Cmds -> Command]
    /\ row \in SystemStates \cup {NoRow}
    /\ db \in [Trades -> {"unused", "open", "closed", "deleted"}]
    /\ tails \subseteq Cmds
    /\ apiSm \in Machine
    /\ pc \in {"down", "booted", "warmup", "announce", "idle", "drain", "ack",
              "bars", "publish"}
    /\ sm \in Machine
    /\ open \subseteq Trades
    /\ batch \subseteq Cmds
    /\ result \in (IF pc = "ack" THEN Finished ELSE {"none"})
    /\ visible \subseteq Cmds
    /\ lastAck \in Cmds \cup {None}
    /\ told \in BOOLEAN
    /\ crashes \in Nat
    /\ faults \in Nat

\* The halt or resume that the operator saw confirmed last is a halt.
HaltAcknowledged == lastAck # None /\ cmds[lastAck].kind = "halt"

(* The worker's flag and its state never disagree: recovering feeds, failed *)
(* cycles, repeated commands and restarts neither leave HALTED behind nor   *)
(* enter it without the flag (state_machine.py, worker.py).                 *)
HaltSync == pc # "down" => (sm.halted <=> sm.state = "HALTED")

(* A position is never opened while a halt is the last word the operator    *)
(* got, nor while a halt that was committed before the cycle read its       *)
(* commands is still unanswered (worker.py drains before it trades).  The   *)
(* first may happen only in a worker that at its start could not read the   *)
(* tables or found the stamp of the halt on another command as well, until  *)
(* it answers a halt or a resume of its own.                                *)
EntryRespectsHalt ==
    [][(\E t \in Trades : db[t] = "unused" /\ db'[t] = "open")
         => /\ told => ~HaltAcknowledged
            /\ \A c \in visible : cmds[c].kind = "halt" => cmds[c].status = "applied"]_vars

(* An acknowledged halt is in force in every worker that has been started   *)
(* since, from its warm-up on, if one of the two restores of its start      *)
(* could read and nothing else was stamped in the millisecond of the halt   *)
(* (worker.py _restore_persisted_state).                                    *)
HaltSurvivesRestart ==
    pc \in {"warmup", "announce"} /\ HaltAcknowledged /\ told => sm.halted

(* The strengthening of HaltSurvivesRestart and EntryRespectsHalt that the  *)
(* steps preserve, named by the part of the argument it carries.            *)

\* What the drain fetched and has not finished is still pending.
DrainShape ==
    /\ batch \subseteq visible
    /\ batch # {} => pc \in {"drain", "ack"}
    /\ visible # {} => pc \in {"drain", "ack", "bars", "publish"}
    /\ \A c \in batch : cmds[c].status = "pending"
    /\ \A c \in visible \ batch : cmds[c].status \in Finished

\* From its first cycle on the worker is past its start, so no resume is refused.
PastStart ==
    /\ pc = "booted" => sm.state \in {"STARTING", "HALTED"}
    /\ pc = "warmup" => sm.state = "WARMING_UP"
    /\ pc \in {"announce", "idle", "drain", "ack", "bars", "publish"}
         => sm.state \notin {"STARTING", "WARMING_UP"}

\* The effect that is about to be confirmed has been done.
AckShape ==
    /\ \A c \in Cmds : cmds[c].kind = "halt" => cmds[c].status # "rejected"
    /\ pc = "ack" => \A c \in batch : IsCurrent(c) =>
         /\ cmds[c].kind = "halt" => sm.halted /\ result = "applied"
         /\ cmds[c].kind = "resume" => result = "applied"

\* No halt or resume has a later stamp than the one confirmed last.
StampOrder ==
    /\ \A c \in Cmds : cmds[c].applied <= now
    /\ lastAck = None => HaltAndResumeApplied = {}
    /\ lastAck # None =>
         /\ lastAck \in HaltAndResumeApplied
         /\ \A d \in HaltAndResumeApplied \ {lastAck} :
              cmds[d].applied <= cmds[lastAck].applied

\* A running worker ignores a confirmed halt it can know of only while a resume
\* that has taken effect waits for its confirmation.
HaltHeld ==
    HaltAcknowledged /\ told /\ ~sm.halted =>
        /\ pc \in {"down", "idle", "drain", "ack"}
        /\ pc = "idle" => \E r \in WithStatus({"pending"}) : cmds[r].kind = "resume"
        /\ pc \in {"drain", "ack"} => \E r \in batch : cmds[r].kind = "resume"

HaltInv ==
    TypeOK /\ HaltSync /\ DrainShape /\ PastStart /\ AckShape /\ StampOrder /\ HaltHeld

(* Commands are answered in the order they were issued: a request that      *)
(* started in a later millisecond, after another was accepted, is not       *)
(* answered before it, whatever fails or restarts in between.               *)
AnsweredInOrder ==
    \A d \in Cmds : cmds[d].status \in Finished =>
        \A c \in cmds[d].after :
            cmds[c].created < cmds[d].created => cmds[c].status \in Finished

\* The strengthening of AnsweredInOrder: what was accepted before a fetched
\* command was fetched with it, unless it is answered already.
OrderInv ==
    /\ AnsweredInOrder
    /\ \A d \in Cmds : cmds[d].after \subseteq WithStatus({"pending"} \cup Finished)
    /\ \A d \in batch : cmds[d].status = "pending"
    /\ \A d \in batch : \A c \in cmds[d].after : cmds[c].status = "pending" => c \in batch

(* A trade whose closing was confirmed is not open in the database, now or  *)
(* later: the effect is committed before the confirmation.                  *)
ConfirmedCloseIsClosed ==
    \A c \in Cmds : cmds[c].kind = "close_trade" /\ cmds[c].status = "applied"
        => db[cmds[c].arg] # "open"

(* A reset is confirmed only when no open trade of the account is left, in  *)
(* the database or in the worker's memory.                                  *)
ConfirmedResetIsEmpty ==
    [][\A c \in Cmds :
         cmds[c].kind = "reset_account" /\ cmds[c].status = "pending"
           /\ cmds'[c].status = "applied"
         => /\ Open(cmds[c].arg)' = {}
            /\ \A t \in open' : AccountOf[t] # cmds[c].arg]_vars

(* The master's open positions in memory are those of the table after every *)
(* command, bar, failure and restart.                                       *)
MasterInSync ==
    pc # "down" => {t \in open : AccountOf[t] = Master} = Open(Master)

(* Every accepted command is answered, across failures and restarts.        *)
CommandsAnswered ==
    \A c \in Cmds : cmds[c].status = "pending" ~> cmds[c].status \in Finished

=============================================================================
