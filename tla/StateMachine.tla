---------------------------- MODULE StateMachine ----------------------------
(***************************************************************************)
(* The runner state machine of aura/runner/state_machine.py as operators   *)
(* on a record [state, halted].  The worker process and the API process    *)
(* each own one instance; nothing but the database connects the two.       *)
(* Reasons, timestamps and listeners are left out: no guard reads them.    *)
(***************************************************************************)

SystemStates ==
    {"STARTING", "WARMING_UP", "RUNNING", "DEGRADED", "HALTED", "RECOVERING"}

Machine == [state : SystemStates, halted : BOOLEAN]

NewMachine(s) == [state |-> s, halted |-> FALSE]

ValidTransitions ==
    [STARTING   |-> {"WARMING_UP", "HALTED", "DEGRADED"},
     WARMING_UP |-> {"RUNNING", "DEGRADED", "HALTED"},
     RUNNING    |-> {"DEGRADED", "HALTED", "RECOVERING"},
     DEGRADED   |-> {"RUNNING", "HALTED", "RECOVERING"},
     HALTED     |-> {"RECOVERING", "WARMING_UP"},
     RECOVERING |-> {"WARMING_UP", "RUNNING", "DEGRADED", "HALTED"}]

CanOpen(m) == m.state = "RUNNING" /\ ~m.halted

\* transition_to returns True for a transition to the current state as well.
CanReach(m, s) == s = m.state \/ s \in ValidTransitions[m.state]

\* A transition that is not allowed is logged and ignored.
TransitionTo(m, s) == IF CanReach(m, s) THEN [m EXCEPT !.state = s] ELSE m

\* Variant for mutation: the halt waits for the end of a recovery.
EmergencyHaltLate(m) ==
    IF m.state = "RECOVERING" THEN m ELSE TransitionTo([m EXCEPT !.halted = TRUE], "HALTED")

\* The flag is set first, whatever becomes of the transition.
EmergencyHalt(m) == TransitionTo([m EXCEPT !.halted = TRUE], "HALTED")

\* The flag is cleared first, even when RECOVERING cannot be reached.
ResumeFromHalt(m) == TransitionTo([m EXCEPT !.halted = FALSE], "RECOVERING")

MarkDegraded(m) ==
    IF m.state \in {"RUNNING", "WARMING_UP"} THEN TransitionTo(m, "DEGRADED") ELSE m

MarkHealthy(m) ==
    IF m.state \in {"DEGRADED", "RECOVERING", "WARMING_UP"}
    THEN TransitionTo(m, "RUNNING") ELSE m

=============================================================================
