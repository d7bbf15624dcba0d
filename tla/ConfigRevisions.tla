--------------------------- MODULE ConfigRevisions ---------------------------
(***************************************************************************)
(* Configuration revisions of AURA v3: POST /config inserts a row into     *)
(* config_revisions and, in the same transaction, a set_config command.    *)
(* The worker drains the commands, writes the values into its own fields   *)
(* and into the EngineConfig object of the master engine, marks the        *)
(* revision active in one transaction and the command applied in another.  *)
(* A new worker takes the active revision with the highest number.         *)
(*                                                                         *)
(* A request stands for its payload, its revision row and its command: all *)
(* three are created together.  Default stands for the values of __init__. *)
(***************************************************************************)
EXTENDS Naturals, FiniteSets

CONSTANTS
    Requests,     \* ids of the commands: random UUIDs, compared as the column is
    Default,      \* the configuration the worker is constructed with
    MaxNow,       \* bound on the clock ticks between steps
    MaxCrashes,   \* bound on worker crashes
    MaxFaults     \* bound on failing transactions of the worker

ASSUME RevisionsAssumption ==
    /\ Requests \subseteq Nat
    /\ Default \notin Requests
    /\ MaxNow \in Nat /\ MaxCrashes \in Nat /\ MaxFaults \in Nat

VARIABLES
    now,
    phase,     \* life of a request; from "pending" on it is the command's status
    expected,  \* the active revision the operator's client has seen
    created,   \* the timestamp in both rows
    rev,       \* rev in config_revisions, 0 before the INSERT
    lastRev,   \* AUTOINCREMENT
    active,    \* requests whose revision has an applied_at_ms
    pc,        \* where the worker is
    batch,     \* rows of the drain's SELECT that are not finished yet
    own,       \* the configuration in the fields of the worker
    object,    \* the configuration in the EngineConfig object of each engine
    shared,    \* whether both engines hold the same object
    latest,    \* history: the request whose revision was marked active last
    crashes, faults

tables  == <<phase, expected, created, rev, lastRev, active>>
memory  == <<own, object, shared>>
budget  == <<crashes, faults>>
vars    == <<now, tables, pc, batch, memory, latest, budget>>

Engines == {"master", "buddy"}
Configs == Requests \cup {Default}
Phases  == {"new", "checked", "pending", "applied", "conflict"}

WithPhase(s) == {c \in Requests : phase[c] \in s}

\* SELECT rev ... WHERE applied_at_ms IS NOT NULL ORDER BY rev DESC LIMIT 1
IsNewest(c) == c \in active /\ \A d \in active : rev[d] <= rev[c]

\* ... and 0 when there is none.
IsActiveRev(r) ==
    \/ active = {} /\ r = 0
    \/ \E c \in active : IsNewest(c) /\ rev[c] = r

\* Variant for mutation: ORDER BY id.
DrainedById(c, d) == c < d

\* ORDER BY created_at_ms, id
DrainedBefore(c, d) ==
    \/ created[c] < created[d]
    \/ created[c] = created[d] /\ c < d

IsCurrent(c) ==
    /\ c \in batch
    /\ \A d \in batch \ {c} : DrainedBefore(c, d)

Init ==
    /\ now = 0
    /\ phase = [c \in Requests |-> "new"]
    /\ expected = [c \in Requests |-> 0]
    /\ created = [c \in Requests |-> 0]
    /\ rev = [c \in Requests |-> 0]
    /\ lastRev = 0
    /\ active = {}
    /\ pc = "down"
    /\ batch = {}
    /\ own = Default
    /\ object = [e \in Engines |-> Default]
    /\ shared = TRUE
    /\ latest = Default
    /\ crashes = 0
    /\ faults = 0

Tick ==
    /\ now < MaxNow
    /\ now' = now + 1
    /\ UNCHANGED <<tables, pc, batch, memory, latest, budget>>

-----------------------------------------------------------------------------
(* POST /config, on the thread pool of the API: requests overlap, and share *)
(* a millisecond.                                                           *)

(* The check of expected_rev against the active revision, outside of any   *)
(* transaction, and the timestamp of the rows.  A request that states no   *)
(* revision is treated as one that states the active revision.             *)
CheckRequest(c, r) ==
    /\ phase[c] = "new"
    /\ expected' = [expected EXCEPT ![c] = r]
    /\ phase' = [phase EXCEPT ![c] = IF IsActiveRev(r) THEN "checked" ELSE "conflict"]
    /\ created' = [created EXCEPT ![c] = IF IsActiveRev(r) THEN now ELSE 0]
    /\ UNCHANGED <<now, rev, lastRev, active, pc, batch, memory, latest, budget>>

(* One transaction inserts the revision and its command. *)
InsertRequest(c) ==
    /\ phase[c] = "checked"
    /\ phase' = [phase EXCEPT ![c] = "pending"]
    /\ lastRev' = lastRev + 1
    /\ rev' = [rev EXCEPT ![c] = lastRev + 1]
    /\ UNCHANGED <<now, expected, created, active, pc, batch, memory, latest, budget>>

-----------------------------------------------------------------------------
(* The worker. *)

\* Variant for mutation: no revision is restored.
StartFresh ==
    /\ pc = "down"
    /\ pc' = "idle"
    /\ UNCHANGED <<now, tables, batch, memory, latest, budget>>

(* __init__ and the restores: the engines share one object until an active *)
(* revision gives the master an object of its own.                         *)
Start ==
    /\ pc = "down"
    /\ pc' = "idle"
    /\ IF active = {}
       THEN /\ own' = Default
            /\ object' = [e \in Engines |-> Default]
            /\ shared' = TRUE
       ELSE \E c \in active :
            /\ IsNewest(c)
            /\ own' = c
            /\ object' = [e \in Engines |-> IF e = "master" THEN c ELSE Default]
            /\ shared' = FALSE
    /\ UNCHANGED <<now, tables, batch, latest, budget>>

Drain ==
    /\ pc = "idle"
    /\ pc' = "drain"
    /\ batch' = WithPhase({"pending"})
    /\ UNCHANGED <<now, tables, memory, latest, budget>>

\* Variant for mutation: the fields are taken from an empty payload.
ApplyZero(c) ==
    /\ pc = "drain"
    /\ IsCurrent(c)
    /\ own' = 0
    /\ object' = [e \in Engines |-> IF e = "master" \/ shared THEN c ELSE object[e]]
    /\ pc' = "activate"
    /\ UNCHANGED <<now, tables, batch, shared, latest, budget>>

(* The values are written into the worker's fields and the master's object,*)
(* and so into the buddy's while it is the same one.                       *)
Apply(c) ==
    /\ pc = "drain"
    /\ IsCurrent(c)
    /\ own' = c
    /\ object' = [e \in Engines |-> IF e = "master" \/ shared THEN c ELSE object[e]]
    /\ pc' = "activate"
    /\ UNCHANGED <<now, tables, batch, shared, latest, budget>>

\* Variant for mutation: the command is answered before the revision is active.
ActivateLate(c) ==
    /\ pc = "activate"
    /\ IsCurrent(c)
    /\ phase' = [phase EXCEPT ![c] = "applied"]
    /\ latest' = c
    /\ pc' = "ack"
    /\ UNCHANGED <<now, expected, created, rev, lastRev, active, batch, memory, budget>>

\* Variant for mutation: an UPDATE that finds the revision active is an error.
ActivateStuck(c) ==
    /\ pc = "activate"
    /\ IsCurrent(c)
    /\ active' = active \cup {c}
    /\ latest' = c
    /\ IF c \in active THEN pc' = "idle" /\ batch' = {} ELSE pc' = "ack" /\ batch' = batch
    /\ UNCHANGED <<now, phase, expected, created, rev, lastRev, memory, budget>>

(* UPDATE config_revisions SET applied_at_ms ... AND applied_at_ms IS NULL *)
Activate(c) ==
    /\ pc = "activate"
    /\ IsCurrent(c)
    /\ active' = active \cup {c}
    /\ latest' = IF c \in active THEN latest ELSE c
    /\ pc' = "ack"
    /\ UNCHANGED <<now, phase, expected, created, rev, lastRev, batch, memory, budget>>

(* UPDATE commands SET status = 'applied', in a transaction of its own. *)
Ack(c) ==
    /\ pc = "ack"
    /\ IsCurrent(c)
    /\ phase' = [phase EXCEPT ![c] = "applied"]
    /\ batch' = batch \ {c}
    /\ pc' = "drain"
    /\ UNCHANGED <<now, expected, created, rev, lastRev, active, memory, latest, budget>>

(* The rest of the cycle does not touch the configuration. *)
CycleEnds ==
    /\ pc = "drain"
    /\ batch = {}
    /\ pc' = "idle"
    /\ UNCHANGED <<now, tables, batch, memory, latest, budget>>

(* A transaction fails: the cycle is left, the memory stays as it is. *)
CycleFails ==
    /\ faults < MaxFaults
    /\ pc \in {"idle", "activate", "ack"}
    /\ faults' = faults + 1
    /\ pc' = "idle"
    /\ batch' = {}
    /\ UNCHANGED <<now, tables, memory, latest, crashes>>

Crash ==
    /\ crashes < MaxCrashes
    /\ pc # "down"
    /\ crashes' = crashes + 1
    /\ pc' = "down"
    /\ batch' = {}
    /\ own' = Default
    /\ object' = [e \in Engines |-> Default]
    /\ shared' = TRUE
    /\ UNCHANGED <<now, tables, latest, faults>>

ApiStep ==
    \E c \in Requests :
        \/ \E r \in 0..Cardinality(Requests) : CheckRequest(c, r)
        \/ InsertRequest(c)

WorkerStep ==
    \/ Start
    \/ Drain
    \/ \E c \in Requests : Apply(c) \/ Activate(c) \/ Ack(c)
    \/ CycleEnds
    \/ CycleFails

Next == Tick \/ ApiStep \/ WorkerStep \/ Crash

Spec == Init /\ [][Next]_vars

(* As in ControlPlane: the worker's loop waits for nobody and the container *)
(* is restarted.                                                            *)
FairSpec == Spec /\ WF_vars(WorkerStep)

-----------------------------------------------------------------------------
(* Properties *)

Inserted == WithPhase({"pending", "applied"})

(* Tables and memory hold nothing but requests, their numbers and stamps.   *)
TypeOK ==
    /\ now \in Nat
    /\ phase \in [Requests -> Phases]
    /\ expected \in [Requests -> Nat]
    /\ created \in [Requests -> Nat]
    /\ rev \in [Requests -> Nat]
    /\ lastRev \in Nat
    /\ active \subseteq Requests
    /\ pc \in {"down", "idle", "drain", "activate", "ack"}
    /\ batch \subseteq Requests
    /\ own \in Configs
    /\ object \in [Engines -> Configs]
    /\ shared \in BOOLEAN
    /\ latest \in Configs
    /\ crashes \in Nat
    /\ faults \in Nat

\* No active revision is later than that of c in both number and stamp.  Of
\* requests that overlap the one with the higher number may have the lower stamp;
\* the worker applies it first, and a restart takes it for the newest.
IsLast(c) ==
    /\ c \in active
    /\ \A d \in active : rev[d] <= rev[c] \/ created[d] <= created[c]

(* Between two cycles the worker runs the last revision that the database,  *)
(* and so the dashboard and the next worker, call active, by number or by   *)
(* stamp; or one it has written into its fields but could not mark yet,     *)
(* which is still pending (worker.py, routes.py update_config).             *)
WorkerRunsActive ==
    pc = "idle" =>
        \/ active = {} /\ own = Default
        \/ IsLast(own)
        \/ own \in WithPhase({"pending"})

(* A set_config command that was confirmed has an active revision, and none *)
(* is later in number and stamp than the one marked last: configurations    *)
(* are never rolled back to an older request, across failures and restarts, *)
(* but among requests that overlapped.                                      *)
ConfirmedInOrder ==
    /\ WithPhase({"applied"}) \subseteq active
    /\ latest # Default => IsLast(latest)

(* The strengthening of both that the steps preserve.                       *)

\* Numbers are drawn in order.
Numbered == \A c \in Requests : rev[c] <= lastRev

\* What the drain holds is pending and misses nothing with a lower number.
BatchShape ==
    /\ batch \subseteq WithPhase({"pending"})
    /\ \A c \in batch : \A d \in WithPhase({"pending"}) : rev[d] < rev[c] => d \in batch
    /\ pc \in {"down", "idle"} => batch = {}

\* No active revision is later in number and stamp than one that is pending.
PendingLater ==
    /\ active \subseteq Inserted
    /\ \A c \in WithPhase({"pending"}) : \A d \in active :
          rev[d] <= rev[c] \/ created[d] <= created[c]
    /\ active # {} => latest \in active

\* The current command is what the fields hold, and active when it is acked.
CurrentShape ==
    /\ pc \in {"activate", "ack"} => own \in batch /\ IsCurrent(own)
    /\ pc = "ack" => own \in active

Running ==
    \/ active = {} /\ own = Default
    \/ IsLast(own)
    \/ own \in WithPhase({"pending"})

RevisionInv ==
    /\ TypeOK
    /\ ConfirmedInOrder
    /\ Numbered
    /\ BatchShape
    /\ PendingLater
    /\ CurrentShape
    /\ pc # "down" => Running

(* Every accepted revision is confirmed, across failures and restarts.      *)
RevisionsConfirmed ==
    \A c \in Requests : phase[c] = "pending" ~> phase[c] = "applied"

(* Optimistic locking: a revision becomes active only on top of the         *)
(* revision its client has seen (schemas.py: "aktive/letzte Revision").     *)
NoLostUpdate ==
    [][\A c \in Requests : c \in active' \ active => IsActiveRev(expected[c])]_vars

(* Both engines of a worker trade with the active configuration.            *)
EnginesAgree ==
    pc = "idle" => object["buddy"] = object["master"]

=============================================================================
