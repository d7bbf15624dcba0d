---------------------------- MODULE LegacyImport ----------------------------
(***************************************************************************)
(* store/legacy_import.py: the state of the previous program is copied     *)
(* into a database, which may already trade, in one transaction; a marker  *)
(* with the hash of the state file keeps it from being copied twice.  The  *)
(* import may be started again, twice at once, with a later state file or  *)
(* a later shadow log, and may fail anywhere.                              *)
(*                                                                         *)
(* The transaction begins with a read.  In WAL mode its first write fails  *)
(* when anybody has committed since, which is what makes the look at the   *)
(* marker and the writes one step.                                         *)
(***************************************************************************)
EXTENDS Naturals, FiniteSets

CONSTANTS
    Importers,
    Files,            \* contents of the state directory
    TradeIds,
    Rows,             \* lines of a shadow log
    NoTrade,
    NoImporter,
    MaxImports,       \* bound on the imports that are started
    MaxCommits        \* bound on the commits of the running system

(* f.open and f.closed are the ids of the trades in the state file,         *)
(* f.lacking those of them without a field of a NOT NULL column, and        *)
(* f.shadow is the shadow log beside it.                                    *)
File == [open : SUBSET TradeIds, closed : SUBSET TradeIds, lacking : SUBSET TradeIds,
         shadow : SUBSET Rows, config : BOOLEAN, equity : Nat]

\* The hash is of the state file: it tells nothing of the shadow log.
Hash(f) == [f EXCEPT !.shadow = {}]

ASSUME ImportAssumption ==
    /\ Files \subseteq File /\ Files # {}
    /\ NoImporter \notin Importers
    /\ NoTrade \notin {"open", "closed"}
    /\ MaxImports \in Nat /\ MaxCommits \in Nat

VARIABLES
    trades,       \* status of each trade or NoTrade
    shadowLog,    \* how often each line is in shadow_log
    revisions,    \* rows of config_revisions that were imported
    runner,       \* runner_state: [fsm, equity]; fsm "none" without a row
    markers,      \* audit_log: imports that are recorded, by what they read
    commits,      \* commits of the database
    importing,    \* the step of each importer: "idle", "checked", "writing"
    source,       \* the file it imports
    snapshot,     \* commits when its transaction began
    lockHolder,   \* the importer that holds the write lock
    imports,
    touched       \* history: what the system has made of trades: id -> status

importVars == <<trades, shadowLog, revisions, runner, markers, commits, importing,
                source, snapshot, lockHolder, imports, touched>>

database == <<trades, shadowLog, revisions, runner, markers, commits>>

-----------------------------------------------------------------------------

ImportInit ==
    /\ trades = [i \in TradeIds |-> NoTrade]
    /\ shadowLog = [r \in Rows |-> 0]
    /\ revisions = 0
    /\ runner = [fsm |-> "none", equity |-> 0]
    /\ markers = {}
    /\ commits = 0
    /\ importing = [p \in Importers |-> "idle"]
    /\ source = [p \in Importers |-> CHOOSE f \in Files : TRUE]
    /\ snapshot = [p \in Importers |-> 0]
    /\ lockHolder = NoImporter
    /\ imports = 0
    /\ touched = [i \in TradeIds |-> NoTrade]

\* Variant for mutation: the marker is of the state file and the shadow log.
RecordedAsIs(f) == f \in markers

\* The marker of this state file is in audit_log.
Recorded(f) == \E g \in markers : Hash(g) = Hash(f)

(* BEGIN and the look at the marker; nothing is written if it is there. *)
Check(p, f) ==
    /\ importing[p] = "idle"
    /\ imports < MaxImports
    /\ imports' = imports + 1
    /\ source' = [source EXCEPT ![p] = f]
    /\ snapshot' = [snapshot EXCEPT ![p] = commits]
    /\ importing' = [importing EXCEPT ![p] = IF Recorded(f) THEN "idle" ELSE "checked"]
    /\ UNCHANGED <<database, lockHolder, touched>>

\* Variant for mutation: the look at the marker is not part of the transaction.
CurrentAlways(p) == TRUE

\* Nobody has committed since the transaction began to read.
Current(p) == snapshot[p] = commits

(* The first INSERT takes the write lock. *)
FirstWrite(p) ==
    /\ importing[p] = "checked"
    /\ lockHolder = NoImporter
    /\ Current(p)
    /\ lockHolder' = p
    /\ importing' = [importing EXCEPT ![p] = "writing"]
    /\ UNCHANGED <<database, source, snapshot, imports, touched>>

\* Any exception, a crash, or a first write on an old snapshot: ROLLBACK.
ImportFails(p) ==
    /\ importing[p] # "idle"
    /\ importing' = [importing EXCEPT ![p] = "idle"]
    /\ lockHolder' = IF lockHolder = p THEN NoImporter ELSE lockHolder
    /\ UNCHANGED <<database, source, snapshot, imports, touched>>

\* Variant for mutation: INSERT OR REPLACE.
MergedReplacing(f, i) ==
    IF i \in f.lacking THEN trades[i]
    ELSE IF i \in f.open THEN "open"
    ELSE IF i \in f.closed THEN "closed"
    ELSE trades[i]

\* INSERT OR IGNORE, the open trades first: a trade that is there is kept, and
\* one that lacks a required field is dropped and counted as a duplicate.
Merged(f, i) ==
    IF trades[i] # NoTrade \/ i \in f.lacking THEN trades[i]
    ELSE IF i \in f.open THEN "open"
    ELSE IF i \in f.closed THEN "closed"
    ELSE NoTrade

\* A new row is halted, an existing one keeps its state.
Upsert(f) ==
    [fsm |-> IF runner.fsm = "none" THEN "HALTED" ELSE runner.fsm,
     equity |-> f.equity]

(* The rest of the transaction, the marker and COMMIT. *)
Finish(p) ==
    LET f == source[p] IN
    /\ importing[p] = "writing"
    /\ trades' = [i \in TradeIds |-> Merged(f, i)]
    /\ shadowLog' = [r \in Rows |-> shadowLog[r] + IF r \in f.shadow THEN 1 ELSE 0]
    /\ revisions' = revisions + IF f.config THEN 1 ELSE 0
    /\ runner' = Upsert(f)
    /\ markers' = markers \cup {f}
    /\ commits' = commits + 1
    /\ importing' = [importing EXCEPT ![p] = "idle"]
    /\ lockHolder' = NoImporter
    /\ UNCHANGED <<source, snapshot, imports, touched>>

SystemCommits ==
    /\ lockHolder = NoImporter
    /\ commits < MaxCommits
    /\ commits' = commits + 1
    /\ UNCHANGED <<shadowLog, revisions, markers, importing, source, snapshot,
                   lockHolder, imports>>

(* The running system opens or closes a trade, or publishes its state. *)
TradeStep(i) ==
    /\ SystemCommits
    /\ runner.fsm # "none"
    /\ trades[i] # "closed"
    /\ trades' = [trades EXCEPT ![i] = IF @ = NoTrade THEN "open" ELSE "closed"]
    /\ touched' = [touched EXCEPT ![i] = trades'[i]]
    /\ UNCHANGED runner

PublishState(fsm, equity) ==
    /\ SystemCommits
    /\ runner' = [fsm |-> fsm, equity |-> equity]
    /\ UNCHANGED <<trades, touched>>

ImportNext ==
    \/ \E p \in Importers :
          \/ \E f \in Files : Check(p, f)
          \/ FirstWrite(p) \/ Finish(p) \/ ImportFails(p)
    \/ \E i \in TradeIds : TradeStep(i)
    \/ \E fsm \in {"RUNNING", "HALTED"}, equity \in {f.equity : f \in Files} :
          PublishState(fsm, equity)

ImportSpec == ImportInit /\ [][ImportNext]_importVars

-----------------------------------------------------------------------------
(* Properties *)

ImportTypeOK ==
    /\ trades \in [TradeIds -> {NoTrade, "open", "closed"}]
    /\ shadowLog \in [Rows -> Nat]
    /\ revisions \in Nat
    /\ runner \in [fsm : {"none", "RUNNING", "HALTED"}, equity : Nat]
    /\ markers \subseteq Files
    /\ commits \in Nat
    /\ importing \in [Importers -> {"idle", "checked", "writing"}]
    /\ source \in [Importers -> Files]
    /\ snapshot \in [Importers -> Nat]
    /\ lockHolder \in Importers \cup {NoImporter}
    /\ imports \in 0..MaxImports
    /\ touched \in [TradeIds -> {NoTrade, "open", "closed"}]

\* The trades of a state file that have every required field.
Complete(f) == (f.open \cup f.closed) \ f.lacking

(* Whatever is started again, overlaps or fails: every state file is        *)
(* imported once, in one piece, with the shadow log that was beside it      *)
(* then; what is logged later is not imported while the state file stays    *)
(* the same.  Its complete trades are there and the others are not: they    *)
(* are dropped, with a warning or none, and never looked at again, where    *)
(* legacy_import.py:6 says that missing fields are imported as NULL.        *)
ImportsAreWhole ==
    /\ \A f, g \in markers : Hash(f) = Hash(g) => f = g
    /\ \A r \in Rows : shadowLog[r] = Cardinality({f \in markers : r \in f.shadow})
    /\ revisions = Cardinality({f \in markers : f.config})
    /\ \A f \in markers : \A i \in Complete(f) : trades[i] # NoTrade
    /\ \A i \in TradeIds :
          trades[i] = NoTrade \/ touched[i] # NoTrade \/ \E f \in markers : i \in Complete(f)

(* What the running system has made of a trade is not undone by an import   *)
(* that comes later or was under way: no trade it closed is open again.     *)
ImportKeepsTrades ==
    \A i \in TradeIds : touched[i] # NoTrade => trades[i] = touched[i]

(* An import may be repeated at any time, also beside the running system    *)
(* (legacy_import.py:4).                                                    *)
ImportIsSafe == ImportsAreWhole /\ ImportKeepsTrades

=============================================================================
