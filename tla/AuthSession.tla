----------------------------- MODULE AuthSession -----------------------------
(***************************************************************************)
(* Sessions and the limit on failed logins (api/auth.py, login and logout  *)
(* of api/routes.py).  Both are dictionaries in the memory of the API that *)
(* its request threads use without a lock; a login is a sequence of calls  *)
(* between which other threads run, and so is the look at a session.       *)
(*                                                                         *)
(* The attempts of one client are a bag of time stamps, of which the code  *)
(* only keeps the recent ones, adds one and counts them: two logins may    *)
(* fail at the same instant, and one may overwrite what the other counts.  *)
(***************************************************************************)
EXTENDS Integers, Functions

CONSTANTS
    Clients,       \* threads with a request, all of one address
    SessionIds,    \* what token_hex draws
    Accounts,
    NoSession,
    MaxFailed,     \* MAX_FAILED_LOGINS_PER_WINDOW
    Window,        \* RATE_LIMIT_WINDOW_SEC
    Duration,      \* SESSION_DURATION_SEC
    MaxClock,      \* bound on the clock
    MaxTries       \* bound on the logins

ASSUME SessionAssumption ==
    /\ NoSession \notin SessionIds
    /\ MaxFailed \in Nat \ {0} /\ Window \in Nat \ {0} /\ Duration \in Nat
    /\ MaxClock \in Nat /\ MaxTries \in Nat

VARIABLES
    clock,
    sessions,    \* _ACTIVE_SESSIONS: [account, expires] or NoSession
    attempts,    \* _FAILED_LOGINS of the address
    doing,       \* where a thread is
    token,       \* the account of a login's token; NoSession for a wrong one
    cookie,      \* the session a request comes with
    read,        \* the attempts a thread has read and filtered
    granted,     \* the account a request is answered for, or NoSession
    failures,    \* history: time stamps of the logins that failed
    uncleared,   \* history: those since the last login that succeeded
    overlapped,  \* history: whether two logins have overlapped
    issued,      \* history: the account each session was created for
    ended,       \* history: sessions that were logged out
    tries

authVars == <<clock, sessions, attempts, doing, token, cookie, read, granted,
              failures, uncleared, overlapped, issued, ended, tries>>

requests  == <<token, cookie, read, granted>>
counts    == <<failures, uncleared, overlapped>>
histories == <<counts, issued, ended>>

Instants == 0..MaxClock

NoAttempts == [t \in Instants |-> 0]

Count(bag) == SumFunction(bag)

\* the attempts that are within the window at now
Within(bag, now) == [t \in Instants |-> IF now - t < Window THEN bag[t] ELSE 0]

\* Variant for mutation: attempts never grow old.
RecentAll(bag) == bag

Recent(bag) == Within(bag, clock)

\* one more, at this instant
WithNow(bag) == [bag EXCEPT ![clock] = @ + 1]

-----------------------------------------------------------------------------

AuthInit ==
    /\ clock = 0
    /\ sessions = [s \in SessionIds |-> NoSession]
    /\ attempts = NoAttempts
    /\ doing = [c \in Clients |-> "idle"]
    /\ token = [c \in Clients |-> NoSession]
    /\ cookie = [c \in Clients |-> NoSession]
    /\ read = [c \in Clients |-> NoAttempts]
    /\ granted = [c \in Clients |-> NoSession]
    /\ failures = NoAttempts /\ uncleared = NoAttempts /\ overlapped = FALSE
    /\ issued = [s \in SessionIds |-> NoSession]
    /\ ended = {}
    /\ tries = 0

ClockTicks ==
    /\ clock < MaxClock
    /\ clock' = clock + 1
    /\ UNCHANGED <<sessions, attempts, doing, requests, histories, tries>>

Turn(c, where) == doing' = [doing EXCEPT ![c] = where]

-----------------------------------------------------------------------------
(* login_operator *)

InLogin(c) == doing[c] \in {"check", "record", "recordWrite", "clear"}

(* check_login_rate_limit: the attempts are read and filtered, ... *)
CheckReads(c, account) ==
    /\ doing[c] = "idle"
    /\ tries < MaxTries
    /\ tries' = tries + 1
    /\ token' = [token EXCEPT ![c] = account]
    /\ read' = [read EXCEPT ![c] = Recent(attempts)]
    /\ Turn(c, "check")
    /\ overlapped' = (overlapped \/ \E d \in Clients : InLogin(d))
    /\ UNCHANGED <<clock, sessions, attempts, cookie, granted, failures, uncleared,
                   issued, ended>>

(* ... written back, and counted. *)
CheckWrites(c) ==
    /\ doing[c] = "check"
    /\ attempts' = read[c]
    /\ Turn(c, IF Count(read[c]) >= MaxFailed THEN "tooMany"
               ELSE IF token[c] = NoSession THEN "record" ELSE "clear")
    /\ UNCHANGED <<clock, sessions, requests, histories, tries>>

\* Variant for mutation: the attempts before this one are dropped.
RecordReadsNone(c) ==
    /\ doing[c] = "record"
    /\ read' = [read EXCEPT ![c] = WithNow(NoAttempts)]
    /\ failures' = WithNow(failures)
    /\ uncleared' = WithNow(uncleared)
    /\ Turn(c, "recordWrite")
    /\ UNCHANGED <<clock, sessions, attempts, token, cookie, granted, overlapped,
                   issued, ended, tries>>

(* record_failed_login, in the same two parts. *)
RecordReads(c) ==
    /\ doing[c] = "record"
    /\ read' = [read EXCEPT ![c] = WithNow(Recent(attempts))]
    /\ failures' = WithNow(failures)
    /\ uncleared' = WithNow(uncleared)
    /\ Turn(c, "recordWrite")
    /\ UNCHANGED <<clock, sessions, attempts, token, cookie, granted, overlapped,
                   issued, ended, tries>>

RecordWrites(c) ==
    /\ doing[c] = "recordWrite"
    /\ attempts' = read[c]
    /\ Turn(c, "rejected")
    /\ UNCHANGED <<clock, sessions, requests, histories, tries>>

Expiry == clock + Duration

\* Variant for mutation: the session is always the master's.
SessionOfMaster(c, s) ==
    /\ sessions' = [sessions EXCEPT ![s] =
                       [account |-> CHOOSE a \in Accounts : TRUE, expires |-> Expiry]]
    /\ issued' = [issued EXCEPT ![s] = token[c]]

\* create_session: the account of the token is bound to the session.
SessionOf(c, s) ==
    /\ sessions' = [sessions EXCEPT ![s] = [account |-> token[c], expires |-> Expiry]]
    /\ issued' = [issued EXCEPT ![s] = token[c]]

(* clear_failed_logins and create_session. *)
LogsIn(c, s) ==
    /\ doing[c] = "clear"
    /\ issued[s] = NoSession
    /\ attempts' = NoAttempts
    /\ uncleared' = NoAttempts
    /\ SessionOf(c, s)
    /\ Turn(c, "idle")
    /\ token' = [token EXCEPT ![c] = NoSession]
    /\ read' = [read EXCEPT ![c] = NoAttempts]
    /\ UNCHANGED <<clock, cookie, granted, failures, overlapped, ended, tries>>

-----------------------------------------------------------------------------
(* get_session_data *)

(* The session is looked up; one that is unknown is answered at once. *)
LooksUp(c, s) ==
    /\ doing[c] = "idle"
    /\ issued[s] # NoSession
    /\ cookie' = [cookie EXCEPT ![c] = s]
    /\ Turn(c, IF sessions[s] = NoSession THEN "refused" ELSE "found")
    /\ UNCHANGED <<clock, sessions, attempts, token, read, granted, histories, tries>>

Expired(s) == clock > sessions[s].expires

(* It is read; a KeyError if another thread has removed it in between. *)
Reads(c) ==
    LET s == cookie[c] IN
    /\ doing[c] = "found"
    /\ IF sessions[s] = NoSession
       THEN Turn(c, "raised") /\ UNCHANGED <<sessions, granted>>
       ELSE IF Expired(s)
       THEN /\ sessions' = [sessions EXCEPT ![s] = NoSession]
            /\ Turn(c, "refused")
            /\ UNCHANGED granted
       ELSE /\ granted' = [granted EXCEPT ![c] = sessions[s].account]
            /\ Turn(c, "granted")
            /\ UNCHANGED sessions
    /\ UNCHANGED <<clock, attempts, token, cookie, read, histories, tries>>

(* destroy_session *)
LogsOut(c, s) ==
    /\ doing[c] = "idle"
    /\ issued[s] # NoSession
    /\ sessions' = [sessions EXCEPT ![s] = NoSession]
    /\ ended' = ended \cup {s}
    /\ UNCHANGED <<clock, attempts, doing, requests, counts, issued, tries>>

Answered(c) ==
    /\ doing[c] \in {"tooMany", "rejected", "refused", "raised", "granted"}
    /\ Turn(c, "idle")
    /\ token' = [token EXCEPT ![c] = NoSession]
    /\ cookie' = [cookie EXCEPT ![c] = NoSession]
    /\ read' = [read EXCEPT ![c] = NoAttempts]
    /\ granted' = [granted EXCEPT ![c] = NoSession]
    /\ UNCHANGED <<clock, sessions, attempts, histories, tries>>

AuthNext ==
    \/ ClockTicks
    \/ \E c \in Clients :
          \/ \E account \in Accounts \cup {NoSession} : CheckReads(c, account)
          \/ CheckWrites(c) \/ RecordReads(c) \/ RecordWrites(c)
          \/ \E s \in SessionIds : LogsIn(c, s) \/ LooksUp(c, s) \/ LogsOut(c, s)
          \/ Reads(c) \/ Answered(c)

AuthSpec == AuthInit /\ [][AuthNext]_authVars

-----------------------------------------------------------------------------
(* Properties *)

AuthTypeOK ==
    /\ clock \in Instants
    /\ \A s \in SessionIds :
          sessions[s] # NoSession =>
              sessions[s].account \in Accounts /\ sessions[s].expires \in Nat
    /\ attempts \in [Instants -> Nat]
    /\ doing \in [Clients -> {"idle", "check", "tooMany", "record", "recordWrite",
                              "rejected", "clear", "found", "refused", "raised",
                              "granted"}]
    /\ token \in [Clients -> Accounts \cup {NoSession}]
    /\ cookie \in [Clients -> SessionIds \cup {NoSession}]
    /\ read \in [Clients -> [Instants -> Nat]]
    /\ granted \in [Clients -> Accounts \cup {NoSession}]

(* Through logins, requests and logouts in any order, a session stands for  *)
(* the account it was created for and for no other, and one that was logged *)
(* out never comes back.                                                    *)
SessionsAreBound ==
    /\ \A s \in SessionIds :
          sessions[s] # NoSession => sessions[s].account = issued[s] /\ s \notin ended
    /\ \A c \in Clients : granted[c] # NoSession => granted[c] = issued[cookie[c]]

(* The limit never counts more than what happened: whoever is turned away   *)
(* has failed as often as the limit says, within the window that ended when *)
(* the attempts were read - however threads overwrite each other's counts.  *)
LimitCountsFailures ==
    \A c \in Clients : doing[c] = "tooMany" =>
        \E t \in 0..clock :
            Count([f \in Instants |-> IF f \in t - Window + 1 .. t THEN failures[f] ELSE 0])
                >= MaxFailed

(* As long as logins do not overlap it counts every failure since the last  *)
(* login that succeeded.  When they overlap attempts get lost.              *)
SerialCountIsExact ==
    ~overlapped /\ (\A c \in Clients : ~InLogin(c)) =>
        Recent(attempts) = Recent(uncleared)

(* The limit on failed logins turns nobody away for less, and misses        *)
(* nothing but what overlaps.                                               *)
LimitIsFair == LimitCountsFailures /\ SerialCountIsExact

=============================================================================
