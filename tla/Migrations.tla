----------------------------- MODULE Migrations -----------------------------
(***************************************************************************)
(* connect and migrate of store/db.py: every process, and every request of *)
(* the API, brings the shared database to its schema before it goes on.    *)
(* Two containers do so at the same time, and may be of different          *)
(* versions.  The version is read outside of any transaction; each script  *)
(* runs in one of its own, together with the row that records it.          *)
(***************************************************************************)
EXTENDS Integers, FiniteSetsExt

CONSTANTS
    Processes,
    Supported,     \* SUPPORTED_SCHEMA_VERSION, and the scripts, of a process
    Statements,    \* number of statements of each script
    Repeatable,    \* scripts that do not fail when they are run again (0006)
    NoProcess,
    MaxMigFaults   \* bound on crashes, time-outs and failing reads

MaxVersion == Max({Supported[p] : p \in Processes})
Versions   == 1..MaxVersion

ASSUME MigrationAssumption ==
    /\ Supported \in [Processes -> Nat \ {0}]
    /\ Statements \in [Versions -> Nat \ {0}]
    /\ Repeatable \subseteq Versions
    /\ NoProcess \notin Processes
    /\ MaxMigFaults \in Nat

VARIABLES
    stage,      \* "read", "apply", "ready", "down", "refused"
    script,     \* the script it is at
    ran,        \* statements of it that it has executed
    recorded,   \* schema_migrations
    objects,    \* objects (or updates) in the database: <<version, statement>>
    applied,    \* how often a script was committed
    writer,     \* the process that holds the write lock
    began,      \* history: the version of the database when a process connected
    migFaults

migVars == <<stage, script, ran, recorded, objects, applied, writer, began,
             migFaults>>

ObjectsOf(v) == {<<v, i>> : i \in 1..Statements[v]}

CurrentVersion == IF recorded = {} THEN 0 ELSE Max(recorded)

-----------------------------------------------------------------------------

MigInit ==
    /\ stage = [p \in Processes |-> "down"]
    /\ script = [p \in Processes |-> 0]
    /\ ran = [p \in Processes |-> 0]
    /\ recorded = {}
    /\ objects = {}
    /\ applied = [v \in Versions |-> 0]
    /\ writer = NoProcess
    /\ began = [p \in Processes |-> 0]
    /\ migFaults = 0

MigFault == migFaults < MaxMigFaults /\ migFaults' = migFaults + 1

Connecting(p) ==
    /\ stage' = [stage EXCEPT ![p] = "read"]
    /\ began' = [began EXCEPT ![p] = CurrentVersion]
    /\ UNCHANGED <<script, ran, recorded, objects, applied, writer, migFaults>>

(* The container starts its process again (restart: unless-stopped). *)
Connect(p) ==
    /\ stage[p] \in {"down", "refused"}
    /\ Connecting(p)

(* A request of the API connects anew. *)
ConnectAgain(p) ==
    /\ stage[p] = "ready"
    /\ Connecting(p)

\* Variant for mutation: only a version far ahead is refused.
TooNewLenient(p, v) == v > Supported[p] + 1

TooNew(p, v) == v > Supported[p]

\* Variant for mutation: the script of the version that is there runs again.
NextScriptFromHave(v) == IF v = 0 THEN 1 ELSE v

NextScript(v) == v + 1

\* Go to the first script that is missing, or to the end of the loop.
GoTo(p, v) ==
    /\ script' = [script EXCEPT ![p] = v]
    /\ ran' = [ran EXCEPT ![p] = 0]
    /\ stage' = [stage EXCEPT ![p] = IF v > Supported[p] THEN "ready" ELSE "apply"]

(* current_version: a database newer than the process is refused. *)
ReadVersion(p) ==
    /\ stage[p] = "read"
    /\ IF TooNew(p, CurrentVersion)
       THEN /\ stage' = [stage EXCEPT ![p] = "refused"]
            /\ UNCHANGED <<script, ran>>
       ELSE GoTo(p, NextScript(CurrentVersion))
    /\ UNCHANGED <<recorded, objects, applied, writer, began, migFaults>>

\* Variant for mutation: a database that cannot be read is taken as current.
ReadFailsReady(p) ==
    /\ stage[p] = "read"
    /\ MigFault
    /\ GoTo(p, Supported[p] + 1)
    /\ UNCHANGED <<recorded, objects, applied, writer, began>>

(* Any OperationalError of the SELECT counts as an empty database. *)
ReadFails(p) ==
    /\ stage[p] = "read"
    /\ MigFault
    /\ GoTo(p, NextScript(0))
    /\ UNCHANGED <<recorded, objects, applied, writer, began>>

Executing(p) == stage[p] = "apply" /\ writer \in {NoProcess, p}

\* What a script finds: the object it creates exists already.
Conflicts(v, i) == v \notin Repeatable /\ <<v, i>> \in objects

(* One statement of the script; the first one takes the write lock.  What   *)
(* the transaction has written is seen by others only after COMMIT.         *)
RunStatement(p) ==
    LET v == script[p] IN
    /\ Executing(p)
    /\ ran[p] < Statements[v]
    /\ ~Conflicts(v, ran[p] + 1)
    /\ writer' = p
    /\ ran' = [ran EXCEPT ![p] = @ + 1]
    /\ UNCHANGED <<stage, script, recorded, objects, applied, began, migFaults>>

\* The transaction is rolled back and the process ends with a SchemaError.
RolledBack(p) ==
    /\ stage' = [stage EXCEPT ![p] = "down"]
    /\ ran' = [ran EXCEPT ![p] = 0]
    /\ writer' = IF writer = p THEN NoProcess ELSE writer
    /\ UNCHANGED <<script, recorded, objects, applied, began>>

(* A statement fails: its object is there, or the version is recorded. *)
StatementFails(p) ==
    LET v == script[p] IN
    /\ Executing(p)
    /\ \/ ran[p] < Statements[v] /\ Conflicts(v, ran[p] + 1)
       \/ ran[p] = Statements[v] /\ v \in recorded
    /\ RolledBack(p)
    /\ UNCHANGED migFaults

(* The lock is not free for 30 s, the disk is full, or the process dies. *)
MigrationFails(p) ==
    /\ stage[p] # "down"
    /\ MigFault
    /\ RolledBack(p)

\* Variant for mutation: the statements commit before the version is recorded.
CommitScriptFirst(p) ==
    LET v == script[p] IN
    /\ Executing(p)
    /\ ran[p] = Statements[v]
    /\ v \notin recorded
    /\ IF ObjectsOf(v) \subseteq objects
       THEN recorded' = recorded \cup {v} /\ GoTo(p, v + 1) /\ objects' = objects
       ELSE /\ objects' = objects \cup ObjectsOf(v)
            /\ UNCHANGED <<recorded, script, ran, stage>>
    /\ applied' = [applied EXCEPT ![v] = @ + 1]
    /\ writer' = NoProcess
    /\ UNCHANGED <<began, migFaults>>

\* Variant for mutation: the row has the number of the next version.
CommitScriptNumbered(p) ==
    LET v == script[p] IN
    /\ Executing(p)
    /\ ran[p] = Statements[v]
    /\ v \notin recorded
    /\ recorded' = recorded \cup {v + 1}
    /\ objects' = objects \cup ObjectsOf(v)
    /\ applied' = [applied EXCEPT ![v] = @ + 1]
    /\ writer' = NoProcess
    /\ GoTo(p, v + 1)
    /\ UNCHANGED <<began, migFaults>>

(* The version is inserted and the transaction commits. *)
CommitScript(p) ==
    LET v == script[p] IN
    /\ Executing(p)
    /\ ran[p] = Statements[v]
    /\ v \notin recorded
    /\ recorded' = recorded \cup {v}
    /\ objects' = objects \cup ObjectsOf(v)
    /\ applied' = [applied EXCEPT ![v] = @ + 1]
    /\ writer' = NoProcess
    /\ GoTo(p, v + 1)
    /\ UNCHANGED <<began, migFaults>>

Migrate(p) ==
    ReadVersion(p) \/ RunStatement(p) \/ StatementFails(p) \/ CommitScript(p)

MigNext ==
    \E p \in Processes :
        \/ Connect(p) \/ ConnectAgain(p)
        \/ Migrate(p)
        \/ ReadFails(p) \/ MigrationFails(p)

\* A process that runs goes on, and a container restarts what has ended.
MigFairness ==
    \A p \in Processes : WF_migVars(Migrate(p)) /\ WF_migVars(Connect(p))

MigSpec == MigInit /\ [][MigNext]_migVars /\ MigFairness

-----------------------------------------------------------------------------
(* Properties *)

MigTypeOK ==
    /\ stage \in [Processes -> {"read", "apply", "ready", "down", "refused"}]
    /\ script \in [Processes -> 0..(MaxVersion + 1)]
    /\ ran \in [Processes -> Nat]
    /\ recorded \subseteq Versions
    /\ objects \subseteq UNION {ObjectsOf(v) : v \in Versions}
    /\ applied \in [Versions -> Nat]
    /\ writer \in Processes \cup {NoProcess}
    /\ began \in [Processes -> 0..MaxVersion]
    /\ migFaults \in 0..MaxMigFaults

(* Whoever migrates, fails, dies or is restarted in the middle of whichever *)
(* script: the database is always at one version, with all the objects of   *)
(* the scripts up to it, each run once, and with none of the others.        *)
OneSchema ==
    /\ recorded = 1..CurrentVersion
    /\ objects = UNION {ObjectsOf(v) : v \in recorded}
    /\ \A v \in Versions : applied[v] = IF v \in recorded THEN 1 ELSE 0

(* A process that goes on from connect finds every object of its schema,    *)
(* also when another one has migrated between its look at the version and   *)
(* its scripts.                                                             *)
ReadyHasSchema ==
    \A p \in Processes :
        stage[p] = "ready" => \A v \in 1..Supported[p] : ObjectsOf(v) \subseteq objects

(* Fail closed: a process does not go on with a database that was newer      *)
(* than the process when it connected, not even when the read of the        *)
(* version fails and counts as an empty database.                           *)
NewerIsRefused ==
    \A p \in Processes : stage[p] = "ready" => began[p] <= Supported[p]

(* Processes that keep failing on each other's migration all get their      *)
(* schema in the end; only one that is older than the database does not.    *)
EveryoneConnects ==
    \A p \in Processes :
        []<>(stage[p] = "ready" \/ (stage[p] = "refused" /\ CurrentVersion > Supported[p]))

(* Containers that start at the same time share one schema, which all that  *)
(* go on from connect can work with (db.py:139-145).                        *)
SchemaIsSound == OneSchema /\ ReadyHasSchema /\ NewerIsRefused

=============================================================================
