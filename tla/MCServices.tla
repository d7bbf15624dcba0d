------------------------------ MODULE MCServices ------------------------------
(***************************************************************************)
(* Small instances of the services around the trading path for TLC.  They  *)
(* share no variable, so one run checks them side by side: a behaviour     *)
(* picks one of them at its start and moves only that one.                 *)
(***************************************************************************)
EXTENDS SafeConnection, Migrations, LegacyImport, StateView, Readiness,
        AuthSession, MarketCache, Notifier

CONSTANTS newer, older, candles, ticker, book

VARIABLE part

\* The API knows a script more than the worker, which was not rebuilt.
MCSupported  == newer :> 3 @@ older :> 2
MCStatements == 1 :> 2 @@ 2 :> 1 @@ 3 :> 1

\* A state directory, the same with a longer shadow log, and what it holds
\* later, when a trade has been closed and one lacks its price.
MCFiles ==
    LET first == [open |-> {1}, closed |-> {}, lacking |-> {}, shadow |-> {"line1"},
                  config |-> TRUE, equity |-> 1]
    IN  {first, [first EXCEPT !.shadow = {"line1", "line2"}],
         [open |-> {2}, closed |-> {1}, lacking |-> {2}, shadow |-> {"line1", "line2"},
          config |-> FALSE, equity |-> 2]}

MCTTL == candles :> 2 @@ ticker :> 1 @@ book :> 1

Parts == {"connection", "migrations", "import", "view", "readiness", "sessions",
          "cache", "notifier"}

vars == <<part, connVars, migVars, importVars, viewVars, readyVars, authVars,
          cacheVars, notifyVars>>

-----------------------------------------------------------------------------

Init ==
    /\ part \in Parts
    /\ ConnInit /\ MigInit /\ ImportInit /\ ViewInit
    /\ ReadyInit /\ AuthInit /\ CacheInit /\ NotifyInit

Moves(p) == part = p /\ part' = p

StillButConnection ==
    UNCHANGED <<migVars, importVars, viewVars, readyVars, authVars, cacheVars, notifyVars>>
StillButMigrations ==
    UNCHANGED <<connVars, importVars, viewVars, readyVars, authVars, cacheVars, notifyVars>>
StillButImport ==
    UNCHANGED <<connVars, migVars, viewVars, readyVars, authVars, cacheVars, notifyVars>>
StillButView ==
    UNCHANGED <<connVars, migVars, importVars, readyVars, authVars, cacheVars, notifyVars>>
StillButReadiness ==
    UNCHANGED <<connVars, migVars, importVars, viewVars, authVars, cacheVars, notifyVars>>
StillButSessions ==
    UNCHANGED <<connVars, migVars, importVars, viewVars, readyVars, cacheVars, notifyVars>>
StillButCache ==
    UNCHANGED <<connVars, migVars, importVars, viewVars, readyVars, authVars, notifyVars>>
StillButNotifier ==
    UNCHANGED <<connVars, migVars, importVars, viewVars, readyVars, authVars, cacheVars>>

Next ==
    \/ Moves("connection") /\ ConnNext /\ StillButConnection
    \/ Moves("migrations") /\ MigNext /\ StillButMigrations
    \/ Moves("import") /\ ImportNext /\ StillButImport
    \/ Moves("view") /\ ViewNext /\ StillButView
    \/ Moves("readiness") /\ ReadyNext /\ StillButReadiness
    \/ Moves("sessions") /\ AuthNext /\ StillButSessions
    \/ Moves("cache") /\ CacheNext /\ StillButCache
    \/ Moves("notifier") /\ NotifyNext /\ StillButNotifier

\* MigFairness and ReadyFairness, of the one that moves.
Fairness ==
    /\ \A p \in Processes :
          /\ WF_vars(Moves("migrations") /\ Migrate(p) /\ StillButMigrations)
          /\ WF_vars(Moves("migrations") /\ Connect(p) /\ StillButMigrations)
    /\ WF_vars(Moves("readiness") /\ WorkerLoop /\ StillButReadiness)
    /\ WF_vars(Moves("readiness") /\ OrderEnds /\ StillButReadiness)

Spec == Init /\ [][Next]_vars /\ Fairness

-----------------------------------------------------------------------------
(* Properties *)

(* Types of all the services' variables. *)
TypeOK ==
    /\ ConnTypeOK /\ MigTypeOK /\ ImportTypeOK /\ ViewTypeOK
    /\ ReadyTypeOK /\ AuthTypeOK /\ CacheTypeOK /\ NotifyTypeOK

(* EveryoneConnects of Migrations, in the behaviours that are its own. *)
MigrationsEnd == part = "migrations" => EveryoneConnects

(* HaltIsShown of Readiness, in the behaviours that are its own. *)
ReadinessShowsHalt == part = "readiness" => HaltIsShown

=============================================================================
