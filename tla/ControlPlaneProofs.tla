------------------------- MODULE ControlPlaneProofs -------------------------
(***************************************************************************)
(* Theorems about ControlPlane for every set of commands, trades and       *)
(* accounts and every bound, and their proofs.                             *)
(***************************************************************************)
EXTENDS ControlPlane, DataInduction, TLAPS

-----------------------------------------------------------------------------
(* The state machine. *)

(* The operators of the state machine stay within its states. *)
LEMMA MachineClosed ==
    ASSUME NEW m \in Machine, NEW s \in SystemStates
    PROVE  /\ NewMachine(s) \in Machine
           /\ TransitionTo(m, s) \in Machine
           /\ EmergencyHalt(m) \in Machine
           /\ ResumeFromHalt(m) \in Machine
           /\ MarkDegraded(m) \in Machine
           /\ MarkHealthy(m) \in Machine
           /\ TransitionTo([m EXCEPT !.halted = FALSE], s) \in Machine
<1>1. \A n \in Machine, x \in SystemStates : TransitionTo(n, x) \in Machine
  BY DEF TransitionTo, Machine
<1>2. [m EXCEPT !.halted = TRUE] \in Machine /\ [m EXCEPT !.halted = FALSE] \in Machine
  BY DEF Machine
<1> QED
  BY <1>1, <1>2 DEF NewMachine, EmergencyHalt, ResumeFromHalt, MarkDegraded, MarkHealthy,
     SystemStates, Machine

(* The two fields of a machine can be written one at a time. *)
LEMMA MachineFields ==
    ASSUME NEW m \in Machine, NEW s \in SystemStates, NEW h \in BOOLEAN
    PROVE  /\ m.state \in SystemStates /\ m.halted \in BOOLEAN
           /\ [m EXCEPT !.state = s] = [state |-> s, halted |-> m.halted]
           /\ [m EXCEPT !.halted = h] = [state |-> m.state, halted |-> h]
           /\ [state |-> s, halted |-> h] \in Machine
BY DEF Machine

(* HALTED is reachable from every state, so a halt always takes effect. *)
LEMMA HaltTakesEffect ==
    ASSUME NEW m \in Machine
    PROVE  EmergencyHalt(m) = [state |-> "HALTED", halted |-> TRUE]
<1>1. m.state \in SystemStates
  BY DEF Machine
<1>2. PICK n \in Machine : n = [m EXCEPT !.halted = TRUE]
  BY DEF Machine
<1>3. n.state = m.state /\ n.halted = TRUE
  BY <1>2 DEF Machine
<1>4. CanReach(n, "HALTED")
  BY <1>1, <1>3 DEF CanReach, ValidTransitions, SystemStates
<1>5. [n EXCEPT !.state = "HALTED"] = [state |-> "HALTED", halted |-> TRUE]
  BY <1>3, MachineFields DEF SystemStates
<1> QED
  BY <1>2, <1>4, <1>5 DEF EmergencyHalt, TransitionTo

(* Once it is warm, the machine follows every resume into RECOVERING. *)
LEMMA ResumeTakesEffect ==
    ASSUME NEW m \in Machine, m.state \notin {"STARTING", "WARMING_UP"}
    PROVE  /\ CanReach(m, "RECOVERING")
           /\ ResumeFromHalt(m) = [state |-> "RECOVERING", halted |-> FALSE]
<1>1. m.state \in SystemStates
  BY DEF Machine
<1>2. PICK n \in Machine : n = [m EXCEPT !.halted = FALSE]
  BY DEF Machine
<1>3. n.state = m.state /\ n.halted = FALSE
  BY <1>2 DEF Machine
<1>4. CanReach(m, "RECOVERING") /\ CanReach(n, "RECOVERING")
  BY <1>1, <1>3 DEF CanReach, ValidTransitions, SystemStates
<1>5. [n EXCEPT !.state = "RECOVERING"] = [state |-> "RECOVERING", halted |-> FALSE]
  BY <1>3, MachineFields DEF SystemStates
<1> QED
  BY <1>2, <1>4, <1>5 DEF ResumeFromHalt, TransitionTo

(* The transitions of the start are all allowed. *)
LEMMA StartTransitions ==
    ASSUME NEW m \in Machine
    PROVE  /\ m.state = "STARTING" =>
                TransitionTo(m, "WARMING_UP") = [state |-> "WARMING_UP", halted |-> m.halted]
           /\ m.state = "WARMING_UP" =>
                /\ TransitionTo(m, "RUNNING") = [state |-> "RUNNING", halted |-> m.halted]
                /\ MarkDegraded(m) = [state |-> "DEGRADED", halted |-> m.halted]
<1>1. m.state = "STARTING" => CanReach(m, "WARMING_UP")
  BY DEF CanReach, ValidTransitions
<1>2. m.state = "WARMING_UP" => CanReach(m, "RUNNING") /\ CanReach(m, "DEGRADED")
  BY DEF CanReach, ValidTransitions
<1> QED
  BY <1>1, <1>2, MachineFields DEF TransitionTo, MarkDegraded, SystemStates

(* Degrading and recovering leave the flag and HALTED alone, and never lead *)
(* back to the states of the start.                                         *)
LEMMA MarksKeepHalt ==
    ASSUME NEW m \in Machine
    PROVE  /\ MarkDegraded(m).halted = m.halted
           /\ MarkHealthy(m).halted = m.halted
           /\ MarkDegraded(m).state = "HALTED" <=> m.state = "HALTED"
           /\ MarkHealthy(m).state = "HALTED" <=> m.state = "HALTED"
           /\ m.state # "STARTING" =>
                /\ MarkDegraded(m).state \notin {"STARTING", "WARMING_UP"}
                /\ MarkHealthy(m).state \notin {"STARTING", "WARMING_UP"}
BY DEF MarkDegraded, MarkHealthy, TransitionTo, CanReach, ValidTransitions,
   Machine, SystemStates

(* A restore either halts the machine or leaves it as it is. *)
LEMMA RestoredCases ==
    ASSUME NEW m \in Machine, NEW read \in BOOLEAN
    PROVE  \/ Restored(m, read) = m /\ (read => m.halted \/ ~ShouldHalt)
           \/ Restored(m, read) = [state |-> "HALTED", halted |-> TRUE]
BY HaltTakesEffect DEF Restored, Machine

-----------------------------------------------------------------------------
(* Type correctness. *)

LEMMA TypeInit == Init => TypeOK
<1> SUFFICES ASSUME Init PROVE TypeOK
  OBVIOUS
<1>1. told \in BOOLEAN
  BY DEF Init
<1>2. sm \in Machine /\ apiSm \in Machine
  BY DEF Init, NewMachine, Machine, SystemStates
<1> QED
  BY <1>1, <1>2, ConstantsAssumption
     DEF Init, TypeOK, FreeCommand, Command, CommandKinds, Args, Statuses, SystemStates

(* The arguments the routes send are arguments of the table. *)
LEMMA ArgsTyped ==
    ASSUME NEW k \in Kinds, NEW a \in ArgsOf(k)
    PROVE  a \in Args
BY ConstantsAssumption DEF ArgsOf, Args, CommandKinds

LEMMA TypeApi == TypeOK /\ ApiStep => TypeOK'
<1> SUFFICES ASSUME TypeOK, ApiStep PROVE TypeOK'
  OBVIOUS
<1> USE DEF TypeOK
<1>1. ASSUME NEW c \in Cmds, NEW k \in Kinds, NEW a \in ArgsOf(k), ApiEnqueue(c, k, a)
      PROVE  TypeOK'
  <2>1. [status |-> "inflight", kind |-> k, arg |-> a, created |-> now, applied |-> 0,
         after |-> WithStatus({"pending"} \cup Finished)] \in Command
    BY <1>1, ArgsTyped, ConstantsAssumption DEF Command, Statuses, WithStatus
  <2> QED
    BY <1>1, <2>1 DEF ApiEnqueue, apiVars, workerVars, budget
<1>2. ASSUME NEW c \in Cmds, ApiCommit(c)
      PROVE  TypeOK'
  BY <1>2 DEF ApiCommit, Command, Statuses, workerVars, budget
<1>3. FreeCommand \in Command
  BY DEF FreeCommand, Command, Statuses, Args
<1>4. ASSUME NEW c \in Cmds, ApiRefused(c)
      PROVE  TypeOK'
  BY <1>4, <1>3 DEF ApiRefused, apiVars, workerVars, budget
<1>5. ASSUME NEW c \in Cmds, NEW updated \in BOOLEAN, ApiFinish(c, updated)
      PROVE  TypeOK'
  <2>1. apiSm' \in Machine
    BY <1>5, MachineClosed DEF ApiFinish, SystemStates
  <2> QED
    BY <1>5, <2>1 DEF ApiFinish, SystemStates, workerVars, budget
<1>6. ASSUME NEW account \in Accounts, ApiClearHistory(account)
      PROVE  TypeOK'
  BY <1>6 DEF ApiClearHistory, apiVars, workerVars, budget
<1>7. ASSUME ApiCrash
      PROVE  TypeOK'
  <2>1. apiSm' \in Machine
    BY <1>7 DEF ApiCrash, NewMachine, Machine, SystemStates
  <2> QED
    BY <1>7, <2>1, <1>3 DEF ApiCrash, workerVars
<1> QED
  BY <1>1, <1>2, <1>4, <1>5, <1>6, <1>7 DEF ApiStep

LEMMA TypeWorker == TypeOK /\ WorkerStep => TypeOK'
<1> SUFFICES ASSUME TypeOK, WorkerStep PROVE TypeOK'
  OBVIOUS
<1> USE DEF TypeOK, apiVars, dbVars, budget
<1>1. ASSUME NEW read \in BOOLEAN, WorkerBoot(read) \/ WorkerStart(read)
      PROVE  TypeOK'
  <2>1. \A m \in Machine : Restored(m, read) \in Machine
    BY MachineClosed, "HALTED" \in SystemStates DEF Restored, SystemStates
  <2>2. NewMachine("STARTING") \in Machine
    BY DEF NewMachine, Machine, SystemStates
  <2>3. sm' \in Machine
    BY <1>1, <2>1, <2>2, MachineClosed DEF WorkerBoot, WorkerStart, SystemStates
  <2>4. told' \in BOOLEAN
    BY <1>1 DEF WorkerBoot, WorkerStart
  <2> QED
    BY <1>1, <2>3, <2>4 DEF WorkerBoot, WorkerStart
<1>2. ASSUME NEW healthy \in BOOLEAN, Warmup(healthy)
      PROVE  TypeOK'
  <2>1. sm' \in Machine
    BY <1>2, MachineClosed DEF Warmup, SystemStates
  <2> QED
    BY <1>2, <2>1 DEF Warmup
<1>3. CASE Announce \/ Publish
  BY <1>3 DEF Announce, Publish, Machine
<1>4. CASE Drain
  BY <1>4 DEF Drain, WithStatus
<1>5. ASSUME AbortCycle PROVE TypeOK'
  <2>1. sm' \in Machine
    BY <1>5, MachineClosed DEF AbortCycle, SystemStates
  <2> QED
    BY <1>5, <2>1 DEF AbortCycle
<1>6. ASSUME NEW c \in Cmds, ApplyHalt(c) \/ ApplyResume(c)
      PROVE  TypeOK'
  <2>1. sm' \in Machine
    BY <1>6, MachineClosed DEF ApplyHalt, ApplyResume, SystemStates
  <2> QED
    BY <1>6, <2>1 DEF ApplyHalt, ApplyResume, Finished
<1>7. ASSUME NEW c \in Cmds, ApplyClose(c) \/ ApplyReset(c)
      PROVE  TypeOK'
  BY <1>7 DEF ApplyClose, ApplyReset, Finished
<1>8. ASSUME NEW c \in Cmds, Ack(c)
      PROVE  TypeOK'
  <2>1. result \in Statuses
    BY <1>8 DEF Ack, Statuses, Finished
  <2>2. Answered(cmds[c], result, now) \in Command
    BY <2>1 DEF Answered, Command
  <2>3. cmds' \in [Cmds -> Command]
    BY <1>8, <2>2 DEF Ack
  <2>4. lastAck' \in Cmds \cup {None} /\ told' \in BOOLEAN
    BY <1>8 DEF Ack, Confirmed
  <2> QED
    BY <1>8, <2>3, <2>4 DEF Ack
<1>9. ASSUME NEW valid \in {"all", "some", "none"}, CheckFeeds(valid)
      PROVE  TypeOK'
  <2>1. sm' \in Machine
    BY <1>9, MachineClosed DEF CheckFeeds, SystemStates
  <2> QED
    BY <1>9, <2>1 DEF CheckFeeds
<1>10. ASSUME NEW exits \in SUBSET Trades, NEW kept \in SUBSET Trades,
              NEW entries \in SUBSET Trades,
              BarCommits(exits, kept, entries) \/ BarFails(exits, entries)
       PROVE  TypeOK'
  BY <1>10 DEF BarCommits, BarFails
<1>11. CASE BarsDone
  BY <1>11 DEF BarsDone
<1> QED
  BY <1>1, <1>2, <1>3, <1>4, <1>5, <1>6, <1>7, <1>8, <1>9, <1>10, <1>11
     DEF WorkerStep, ApplyFails, CycleFails

LEMMA TypeStep == TypeOK /\ [Next]_vars => TypeOK'
<1>1. TypeOK /\ Tick => TypeOK'
  BY DEF TypeOK, Tick, apiVars, dbVars, workerVars, budget
<1>3. ASSUME TypeOK, WorkerCrash PROVE TypeOK'
  <2>1. sm' \in Machine
    BY <1>3 DEF WorkerCrash, NewMachine, Machine, SystemStates
  <2>2. told' \in BOOLEAN
    BY <1>3 DEF WorkerCrash
  <2> QED
    BY <1>3, <2>1, <2>2 DEF TypeOK, WorkerCrash, apiVars, dbVars
<1>2. TypeOK /\ UNCHANGED vars => TypeOK'
  BY DEF TypeOK, vars, apiVars, dbVars, workerVars, budget
<1> QED
  BY <1>1, <1>2, <1>3, TypeApi, TypeWorker DEF Next

(* The tables and the memories of both processes keep their types.         *)
THEOREM TypeCorrect == Spec => []TypeOK
BY TypeInit, TypeStep, PTL DEF Spec

-----------------------------------------------------------------------------
(* The emergency halt. *)

LEMMA HaltInit == Init => HaltInv
<1> SUFFICES ASSUME Init PROVE HaltInv
  OBVIOUS
<1>1. TypeOK
  BY TypeInit
<1>2. \A c \in Cmds : cmds[c].status = "free" /\ cmds[c].kind = None /\ cmds[c].applied = 0
  BY DEF Init, FreeCommand
<1>3. HaltAndResumeApplied = {}
  BY <1>2 DEF HaltAndResumeApplied
<1>4. now = 0 /\ pc = "down" /\ batch = {} /\ visible = {} /\ lastAck = None
  BY DEF Init
<1>5. AckShape
  BY <1>2, <1>4 DEF AckShape
<1>6. StampOrder
  BY <1>2, <1>3, <1>4 DEF StampOrder
<1> QED
  BY <1>1, <1>4, <1>5, <1>6 DEF HaltInv, HaltSync, DrainShape, PastStart, HaltHeld,
     HaltAcknowledged

(* Steps of the API leave the worker alone and every answered command as it *)
(* was; requests that were not committed are not visible to the worker.     *)
LEMMA ApiFrame ==
    ASSUME TypeOK, ApiStep
    PROVE  /\ UNCHANGED <<now, workerVars>>
           /\ \A c \in Cmds : cmds[c].status \in {"pending"} \cup Finished =>
                cmds'[c] = cmds[c]
           /\ \A c \in Cmds : cmds'[c].status \in Finished => cmds'[c] = cmds[c]
           /\ \A c \in Cmds : cmds'[c].applied <= now
                \/ cmds'[c].applied = cmds[c].applied
<1> DEFINE Frame ==
      /\ UNCHANGED <<now, workerVars>>
      /\ \A c \in Cmds : cmds[c].status \in {"pending"} \cup Finished => cmds'[c] = cmds[c]
      /\ \A c \in Cmds : cmds'[c].status \in Finished => cmds'[c] = cmds[c]
      /\ \A c \in Cmds : cmds'[c].applied <= now \/ cmds'[c].applied = cmds[c].applied
<1> USE DEF TypeOK, Finished
<1>1. ASSUME NEW c \in Cmds, NEW k \in Kinds, NEW a \in ArgsOf(k), ApiEnqueue(c, k, a)
      PROVE  Frame
  BY <1>1 DEF ApiEnqueue, apiVars, workerVars, budget
<1>2. ASSUME NEW c \in Cmds, ApiCommit(c)
      PROVE  Frame
  BY <1>2 DEF ApiCommit, workerVars, Command
<1>3. ASSUME NEW c \in Cmds, ApiRefused(c)
      PROVE  Frame
  BY <1>3 DEF ApiRefused, FreeCommand, workerVars
<1>4. ASSUME NEW c \in Cmds, NEW updated \in BOOLEAN, ApiFinish(c, updated)
      PROVE  Frame
  BY <1>4 DEF ApiFinish, workerVars
<1>5. ASSUME NEW account \in Accounts, ApiClearHistory(account)
      PROVE  Frame
  BY <1>5 DEF ApiClearHistory, workerVars
<1>6. CASE ApiCrash
  BY <1>6 DEF ApiCrash, FreeCommand, workerVars
<1> QED
  BY <1>1, <1>2, <1>3, <1>4, <1>5, <1>6 DEF ApiStep

LEMMA HaltApi == HaltInv /\ ApiStep => HaltInv'
<1> SUFFICES ASSUME HaltInv, ApiStep PROVE HaltInv'
  OBVIOUS
<1> TypeOK /\ TypeOK'
  BY TypeApi DEF HaltInv
<1>1. UNCHANGED <<now, workerVars>>
  BY ApiFrame
<1>2. \A c \in Cmds : cmds[c].status \in {"pending"} \cup Finished => cmds'[c] = cmds[c]
  BY ApiFrame
<1>3. \A c \in Cmds : cmds'[c].status \in Finished => cmds'[c] = cmds[c]
  BY ApiFrame
<1>4. HaltAndResumeApplied' = HaltAndResumeApplied
  BY <1>2, <1>3 DEF HaltAndResumeApplied, HaltOrResume, Finished
<1>5. batch \subseteq Cmds /\ \A c \in batch : cmds'[c] = cmds[c]
  BY <1>2 DEF HaltInv, DrainShape, TypeOK
<1>6. \A c \in visible : c \in Cmds /\ cmds'[c] = cmds[c]
  BY <1>2, <1>5 DEF HaltInv, DrainShape, TypeOK
<1>7. (HaltSync /\ PastStart)'
  BY <1>1 DEF HaltInv, HaltSync, PastStart, workerVars
<1>8. DrainShape'
  BY <1>1, <1>5, <1>6 DEF HaltInv, DrainShape, workerVars
<1>9. AckShape'
  <2>1. \A c \in Cmds : cmds'[c].kind = "halt" => cmds'[c].status # "rejected"
    BY <1>3 DEF HaltInv, AckShape, Finished
  <2>2. \A c \in batch : IsCurrent(c)' => IsCurrent(c)
    BY <1>1, <1>5 DEF IsCurrent, DrainedBefore, workerVars
  <2> QED
    BY <1>1, <1>5, <2>1, <2>2 DEF HaltInv, AckShape, workerVars
<1>10. StampOrder'
  <2>1. \A c \in Cmds : cmds'[c].applied <= now
    BY ApiFrame DEF HaltInv, StampOrder
  <2>2. lastAck # None => cmds'[lastAck] = cmds[lastAck]
    BY <1>2 DEF HaltInv, StampOrder, HaltAndResumeApplied, Finished
  <2>3. \A d \in HaltAndResumeApplied : cmds'[d] = cmds[d]
    BY <1>2 DEF HaltAndResumeApplied, Finished
  <2> QED
    BY <1>1, <1>4, <2>1, <2>2, <2>3 DEF HaltInv, StampOrder, workerVars
<1>11. HaltHeld'
  <2>1. HaltAcknowledged' => HaltAcknowledged
    BY <1>1, <1>2 DEF HaltInv, StampOrder, HaltAndResumeApplied, HaltAcknowledged, Finished,
       workerVars
  <2>2. \A r \in WithStatus({"pending"}) :
          r \in WithStatus({"pending"})' /\ cmds'[r].kind = cmds[r].kind
    BY <1>2 DEF WithStatus
  <2> QED
    BY <1>1, <1>5, <2>1, <2>2 DEF HaltInv, HaltHeld, workerVars
<1> QED
  BY <1>7, <1>8, <1>9, <1>10, <1>11 DEF HaltInv

(* A confirmed halt is what a restore finds, and it halts the machine. *)
LEMMA RestoreHalts ==
    ASSUME TypeOK, StampOrder, HaltAcknowledged, StampedAlone
    PROVE  ShouldHalt
<1>1. lastAck \in HaltAndResumeApplied /\ cmds[lastAck].kind = "halt"
  BY DEF StampOrder, HaltAcknowledged
<1>2. \A d \in HaltAndResumeApplied \ {lastAck} : RestoredBefore(lastAck, d)
  <2>1. \A d \in HaltAndResumeApplied : cmds[d].applied \in Nat
    BY DEF TypeOK, Command, HaltAndResumeApplied
  <2> QED
    BY <1>1, <2>1 DEF StampOrder, StampedAlone, RestoredBefore
<1> QED
  BY <1>1, <1>2 DEF ShouldHalt, HaltAndResumeApplied

LEMMA HaltStart ==
    ASSUME HaltInv,
           \/ \E read \in BOOLEAN : WorkerBoot(read) \/ WorkerStart(read)
           \/ \E healthy \in BOOLEAN : Warmup(healthy)
           \/ Announce
    PROVE  HaltInv'
<1> TypeOK /\ TypeOK'
  BY TypeWorker DEF HaltInv, WorkerStep
<1>1. /\ UNCHANGED <<now, cmds, batch, visible, lastAck>>
      /\ pc \in {"down", "booted", "warmup", "announce"}
      /\ pc' \in {"booted", "warmup", "announce", "idle"}
      /\ batch = {} /\ visible = {}
  BY DEF HaltInv, DrainShape, WorkerBoot, WorkerStart, Warmup, Announce, dbVars
<1>2. DrainShape'
  BY <1>1 DEF HaltInv, DrainShape
<1>3. AckShape'
  BY <1>1 DEF HaltInv, AckShape
<1>4. HaltAndResumeApplied' = HaltAndResumeApplied /\ HaltAcknowledged' = HaltAcknowledged
  BY <1>1 DEF HaltAndResumeApplied, HaltOrResume, HaltAcknowledged
<1>5. StampOrder'
  BY <1>1, <1>4 DEF HaltInv, StampOrder
<1>6. HaltAcknowledged /\ StampedAlone => ShouldHalt
  BY RestoreHalts DEF HaltInv
<1> SUFFICES (HaltSync /\ PastStart /\ HaltHeld)'
  BY <1>2, <1>3, <1>5 DEF HaltInv
<1>7. ASSUME NEW read \in BOOLEAN, WorkerBoot(read)
      PROVE  (HaltSync /\ PastStart /\ HaltHeld)'
  <2> DEFINE m == NewMachine("STARTING")
  <2>2. m \in Machine /\ m.state = "STARTING" /\ m.halted = FALSE
    BY DEF NewMachine, Machine, SystemStates
  <2>3. pc' = "booted" /\ sm' = Restored(m, read) /\ (told' => read /\ StampedAlone)
    BY <1>7 DEF WorkerBoot
  <2>4. \/ sm' = m /\ (read => ~ShouldHalt)
        \/ sm' = [state |-> "HALTED", halted |-> TRUE]
    BY <2>2, <2>3, RestoredCases
  <2>5. /\ sm'.state \in {"STARTING", "HALTED"}
        /\ sm'.halted <=> sm'.state = "HALTED"
        /\ HaltAcknowledged /\ told' => sm'.halted
    BY <2>2, <2>3, <2>4, <1>6
  <2> QED
    BY <2>3, <2>5, <1>4 DEF HaltSync, PastStart, HaltHeld
<1>8. ASSUME NEW read \in BOOLEAN, WorkerStart(read)
      PROVE  (HaltSync /\ PastStart /\ HaltHeld)'
  <2>1. told' => told \/ (read /\ StampedAlone)
    BY <1>8 DEF WorkerStart
  <2>2. PICK m \in Machine :
          /\ m = Restored(sm, read)
          /\ IF m.halted THEN sm' = m /\ pc' = "announce"
             ELSE sm' = TransitionTo(m, "WARMING_UP") /\ pc' = "warmup"
    <3>1. Restored(sm, read) \in Machine
      BY MachineClosed DEF Restored, TypeOK, SystemStates
    <3> QED
      BY <1>8, <3>1 DEF WorkerStart
  <2>3. \/ m = sm /\ (read => m.halted \/ ~ShouldHalt)
        \/ m = [state |-> "HALTED", halted |-> TRUE]
    BY <2>2, RestoredCases DEF TypeOK
  <2>4. (m.halted <=> m.state = "HALTED") /\ (HaltAcknowledged /\ told' => m.halted)
    <3>1. (sm.halted <=> sm.state = "HALTED") /\ pc = "booted"
      BY <1>8 DEF HaltInv, HaltSync, WorkerStart
    <3>2. HaltAcknowledged /\ told => sm.halted
      BY <3>1 DEF HaltInv, HaltHeld
    <3> QED
      BY <2>1, <2>3, <3>1, <3>2, <1>6
  <2>5. ~m.halted => m = sm /\ sm.state = "STARTING"
    <3>1. sm.state \in {"STARTING", "HALTED"}
      BY <1>8 DEF HaltInv, PastStart, WorkerStart
    <3>2. CASE m = sm
      BY <3>1, <3>2, <2>4
    <3>3. CASE m = [state |-> "HALTED", halted |-> TRUE]
      BY <3>3
    <3> QED
      BY <2>3, <3>2, <3>3
  <2>6. ASSUME ~m.halted
        PROVE  sm'.state = "WARMING_UP" /\ sm'.halted = FALSE
    <3>1. m.halted = FALSE
      BY <2>6 DEF Machine
    <3>2. sm' = [state |-> "WARMING_UP", halted |-> m.halted]
      BY <2>2, <2>5, <2>6, StartTransitions
    <3> QED
      BY <3>1, <3>2
  <2> QED
    BY <2>2, <2>4, <2>6, <1>4 DEF HaltSync, PastStart, HaltHeld
<1>9. ASSUME NEW healthy \in BOOLEAN, Warmup(healthy)
      PROVE  (HaltSync /\ PastStart /\ HaltHeld)'
  <2>1. sm.state = "WARMING_UP" /\ sm.halted = FALSE /\ ~(HaltAcknowledged /\ told)
    BY <1>9 DEF HaltInv, PastStart, HaltSync, HaltHeld, Warmup, TypeOK, Machine
  <2>2. sm'.state \in {"RUNNING", "DEGRADED"} /\ sm'.halted = FALSE /\ told' = told
    BY <1>9, <2>1, StartTransitions DEF Warmup, TypeOK
  <2> QED
    BY <1>9, <2>1, <2>2, <1>4 DEF HaltSync, PastStart, HaltHeld, Warmup
<1>10. CASE Announce
  BY <1>10, <1>1, <1>4 DEF Announce, HaltInv, HaltSync, PastStart, HaltHeld
<1> QED
  BY <1>7, <1>8, <1>9, <1>10

(* Steps that leave the clock, the commands and the confirmations alone     *)
(* keep the order of the confirmations and the last of them.                *)
LEMMA SameConfirmations ==
    ASSUME StampOrder, UNCHANGED <<now, cmds, lastAck>>
    PROVE  /\ StampOrder'
           /\ HaltAcknowledged' <=> HaltAcknowledged
           /\ \A c \in Cmds : IsCurrent(c)' <=> (/\ c \in batch'
                /\ \A d \in batch' \ {c} : DrainedBefore(c, d))
BY DEF StampOrder, HaltAcknowledged, HaltAndResumeApplied, HaltOrResume, IsCurrent,
   DrainedBefore

LEMMA HaltAbort ==
    ASSUME HaltInv, AbortCycle, TypeOK', pc \in {"idle", "drain", "ack", "publish"}
    PROVE  HaltInv'
<1>1. StampOrder' /\ (HaltAcknowledged' <=> HaltAcknowledged)
  BY SameConfirmations DEF HaltInv, AbortCycle, dbVars
<1>2. /\ sm.state \notin {"STARTING", "WARMING_UP"} /\ sm \in Machine
      /\ sm' = MarkDegraded(sm)
  BY DEF HaltInv, PastStart, TypeOK, AbortCycle
<1>3. /\ sm'.halted = sm.halted
      /\ sm'.state = "HALTED" <=> sm.state = "HALTED"
      /\ sm'.state \notin {"STARTING", "WARMING_UP"}
  BY <1>2, MarksKeepHalt
<1>4. HaltHeld'
  <2> SUFFICES ASSUME HaltAcknowledged, told, ~sm.halted
               PROVE  \E r \in WithStatus({"pending"})' : cmds'[r].kind = "resume"
    BY <1>1, <1>3 DEF HaltHeld, AbortCycle
  <2>1. \E r \in WithStatus({"pending"}) : cmds[r].kind = "resume"
    BY DEF HaltInv, HaltHeld, DrainShape, TypeOK, WithStatus
  <2> QED
    BY <2>1 DEF WithStatus, AbortCycle, dbVars
<1>5. (HaltSync /\ PastStart)'
  BY <1>3 DEF HaltInv, HaltSync, PastStart, AbortCycle
<1>6. (DrainShape /\ AckShape)'
  BY DEF HaltInv, DrainShape, AckShape, AbortCycle, dbVars
<1> QED
  BY <1>1, <1>4, <1>5, <1>6 DEF HaltInv

LEMMA HaltDrain == HaltInv /\ TypeOK' /\ Drain => HaltInv'
<1> SUFFICES ASSUME HaltInv, TypeOK', Drain PROVE HaltInv'
  OBVIOUS
<1>1. StampOrder' /\ (HaltAcknowledged' <=> HaltAcknowledged)
  BY SameConfirmations DEF HaltInv, Drain, dbVars
<1>2. (HaltSync /\ PastStart)'
  BY DEF HaltInv, HaltSync, PastStart, Drain
<1>3. (DrainShape /\ AckShape)'
  BY DEF HaltInv, DrainShape, AckShape, Drain, dbVars, WithStatus
<1>4. HaltHeld'
  BY <1>1 DEF HaltInv, HaltHeld, Drain, dbVars
<1> QED
  BY <1>1, <1>2, <1>3, <1>4 DEF HaltInv

(* Executing one command: only the machine, the trades and the result change. *)
LEMMA HaltApply ==
    ASSUME HaltInv, TypeOK', NEW c \in Cmds,
           ApplyHalt(c) \/ ApplyResume(c) \/ ApplyClose(c) \/ ApplyReset(c)
    PROVE  HaltInv'
<1>1. /\ pc = "drain" /\ pc' = "ack" /\ IsCurrent(c)
      /\ UNCHANGED <<now, cmds, batch, visible, lastAck, told>>
  BY DEF ApplyHalt, ApplyResume, ApplyClose, ApplyReset, Applying, dbVars
<1>2. /\ StampOrder'
      /\ HaltAcknowledged' <=> HaltAcknowledged
      /\ \A d \in Cmds : IsCurrent(d)' <=> IsCurrent(d)
  BY <1>1, SameConfirmations DEF HaltInv, IsCurrent
<1>3. \A d \in batch : IsCurrent(d) => d = c
  BY <1>1, ConstantsAssumption DEF HaltInv, TypeOK, Command, IsCurrent, DrainedBefore
<1>4. batch \subseteq Cmds /\ sm \in Machine /\ sm.state \notin {"STARTING", "WARMING_UP"}
  BY <1>1 DEF HaltInv, TypeOK, PastStart
<1>5. DrainShape'
  BY <1>1 DEF HaltInv, DrainShape
<1>6. CASE ApplyHalt(c)
  <2>1. sm' = [state |-> "HALTED", halted |-> TRUE] /\ result' = "applied"
    BY <1>6, <1>4, HaltTakesEffect DEF ApplyHalt
  <2>2. AckShape'
    BY <1>1, <1>2, <2>1 DEF HaltInv, AckShape
  <2> QED
    BY <1>1, <1>2, <1>5, <2>1, <2>2 DEF HaltInv, HaltSync, PastStart, HaltHeld
<1>7. CASE ApplyResume(c)
  <2>1. sm' = [state |-> "RECOVERING", halted |-> FALSE] /\ result' = "applied"
    BY <1>7, <1>4, ResumeTakesEffect DEF ApplyResume
  <2>2. cmds[c].kind = "resume" /\ c \in batch
    BY <1>7 DEF ApplyResume, Applying, IsCurrent
  <2>3. AckShape'
    BY <1>1, <1>2, <1>3, <1>4, <2>1, <2>2 DEF HaltInv, AckShape
  <2> QED
    BY <1>1, <1>2, <1>5, <2>1, <2>2, <2>3 DEF HaltInv, HaltSync, PastStart, HaltHeld
<1>8. CASE ApplyClose(c) \/ ApplyReset(c)
  <2>1. sm' = sm /\ cmds[c].kind \notin {"halt", "resume"}
    BY <1>8 DEF ApplyClose, ApplyReset, Applying
  <2>2. AckShape'
    BY <1>1, <1>2, <1>3, <1>4, <2>1 DEF HaltInv, AckShape
  <2> QED
    BY <1>1, <1>2, <1>5, <2>1, <2>2 DEF HaltInv, HaltSync, PastStart, HaltHeld
<1> QED
  BY <1>6, <1>7, <1>8

(* Confirming one command: the clock does not go back, so no stamp is later *)
(* than that of the last confirmation.                                      *)
LEMMA HaltAck ==
    ASSUME HaltInv, TypeOK', NEW c \in Cmds, Ack(c)
    PROVE  HaltInv'
<1> TypeOK
  BY DEF HaltInv
<1>1. /\ pc = "ack" /\ pc' = "drain" /\ c \in batch /\ IsCurrent(c)
      /\ batch' = batch \ {c} /\ UNCHANGED <<now, sm, visible>>
  BY DEF Ack, IsCurrent
<1>2. /\ cmds' = [cmds EXCEPT ![c] = Answered(cmds[c], result, now)]
      /\ \A d \in Cmds \ {c} : cmds'[d] = cmds[d]
      /\ cmds'[c].kind = cmds[c].kind /\ cmds'[c].status = result
      /\ cmds'[c].applied = now
  BY DEF Ack, Answered, TypeOK
<1>3. result \in Finished /\ cmds[c].status = "pending" /\ now \in Nat
  BY <1>1 DEF TypeOK, HaltInv, DrainShape
<1>4. /\ HaltOrResume(c) /\ result = "applied" => lastAck' = c
      /\ ~(HaltOrResume(c) /\ result = "applied") => lastAck' = lastAck /\ told' = told
  BY DEF Ack, Confirmed
<1>5. /\ cmds[c].kind = "halt" => sm.halted /\ result = "applied"
      /\ cmds[c].kind = "resume" => result = "applied"
  BY <1>1 DEF HaltInv, AckShape
<1>6. DrainShape'
  BY <1>1, <1>2, <1>3 DEF HaltInv, DrainShape, TypeOK
<1>7. (HaltSync /\ PastStart)'
  BY <1>1 DEF HaltInv, HaltSync, PastStart
<1>8. AckShape'
  BY <1>1, <1>2, <1>5 DEF HaltInv, AckShape
<1>9. \A d \in Cmds \ {c} : d \in HaltAndResumeApplied' <=> d \in HaltAndResumeApplied
  BY <1>2 DEF HaltAndResumeApplied, HaltOrResume
<1>10. c \notin HaltAndResumeApplied /\ lastAck # c
  BY <1>3, ConstantsAssumption DEF HaltAndResumeApplied, HaltInv, StampOrder
<1>11. c \in HaltAndResumeApplied' <=> HaltOrResume(c) /\ result = "applied"
  BY <1>2 DEF HaltAndResumeApplied, HaltOrResume
<1>12. \A d \in Cmds : cmds[d].applied \in Nat /\ cmds[d].applied <= now
  BY DEF HaltInv, StampOrder, TypeOK, Command
<1>13. StampOrder'
  <2>1. \A d \in Cmds : cmds'[d].applied <= now'
    BY <1>1, <1>2, <1>3, <1>12
  <2>2. CASE HaltOrResume(c) /\ result = "applied"
    <3>1. \A d \in HaltAndResumeApplied' \ {c} : cmds'[d].applied <= cmds'[c].applied
      BY <1>2, <1>3, <1>12 DEF HaltAndResumeApplied
    <3> QED
      BY <1>4, <1>11, <2>1, <2>2, <3>1, ConstantsAssumption DEF StampOrder
  <2>3. CASE ~(HaltOrResume(c) /\ result = "applied")
    <3>1. HaltAndResumeApplied' = HaltAndResumeApplied /\ lastAck' = lastAck
      BY <1>4, <1>9, <1>10, <1>11, <2>3 DEF HaltAndResumeApplied
    <3>2. \A d \in HaltAndResumeApplied : cmds'[d] = cmds[d]
      BY <1>2, <1>10 DEF HaltAndResumeApplied
    <3> QED
      BY <2>1, <3>1, <3>2 DEF HaltInv, StampOrder
  <2> QED
    BY <2>2, <2>3
<1>14. HaltHeld'
  <2> SUFFICES ASSUME HaltAcknowledged', told', ~sm.halted
               PROVE  \E r \in batch' : cmds'[r].kind = "resume"
    BY <1>1 DEF HaltHeld
  <2>1. ~(HaltOrResume(c) /\ result = "applied")
    BY <1>2, <1>4, <1>5 DEF HaltAcknowledged, HaltOrResume
  <2>2. HaltAcknowledged /\ cmds[c].kind # "resume"
    BY <1>2, <1>4, <1>5, <1>10, <2>1
       DEF HaltAcknowledged, HaltOrResume, HaltInv, StampOrder, HaltAndResumeApplied
  <2>3. PICK r \in batch : cmds[r].kind = "resume"
    BY <1>1, <1>4, <2>1, <2>2 DEF HaltInv, HaltHeld
  <2> QED
    BY <1>1, <1>2, <2>2, <2>3 DEF TypeOK
<1> QED
  BY <1>6, <1>7, <1>8, <1>13, <1>14 DEF HaltInv

(* The rest of the cycle, and the end of the process. *)
LEMMA HaltRest ==
    ASSUME HaltInv, TypeOK',
           \/ \E valid \in {"all", "some", "none"} : CheckFeeds(valid)
           \/ \E exits, kept, entries \in SUBSET Trades :
                 BarCommits(exits, kept, entries) \/ BarFails(exits, entries)
           \/ BarsDone \/ Publish \/ WorkerCrash \/ Tick
    PROVE  HaltInv'
<1> DEFINE Marked == sm' \in {sm, MarkHealthy(sm), MarkDegraded(sm)}
<1>1. CASE Tick
  <2>1. /\ UNCHANGED <<cmds, workerVars>> /\ now <= now' /\ now \in Nat /\ now' \in Nat
    BY <1>1 DEF Tick, dbVars, HaltInv, TypeOK
  <2>2. \A c \in Cmds : cmds[c].applied \in Nat /\ cmds[c].applied <= now
    BY DEF HaltInv, StampOrder, TypeOK, Command
  <2>3. StampOrder'
    BY <2>1, <2>2 DEF HaltInv, StampOrder, HaltAndResumeApplied, HaltOrResume, workerVars
  <2> QED
    BY <2>1, <2>3 DEF HaltInv, HaltSync, DrainShape, PastStart, AckShape, HaltHeld,
       HaltAcknowledged, IsCurrent, DrainedBefore, WithStatus, workerVars
<1>2. CASE WorkerCrash
  <2>1. /\ StampOrder' /\ pc' = "down" /\ batch' = {} /\ visible' = {} /\ cmds' = cmds
        /\ told' = FALSE
    BY <1>2, SameConfirmations DEF HaltInv, WorkerCrash, dbVars
  <2> QED
    BY <2>1 DEF HaltInv, HaltSync, DrainShape, PastStart, AckShape, HaltHeld
<1>3. ASSUME \/ \E valid \in {"all", "some", "none"} : CheckFeeds(valid)
             \/ \E exits, kept, entries \in SUBSET Trades :
                   BarCommits(exits, kept, entries) \/ BarFails(exits, entries)
             \/ BarsDone \/ Publish
      PROVE  HaltInv'
  <2>1. /\ UNCHANGED <<now, cmds, batch, lastAck, told>> /\ batch = {}
        /\ visible' \in {visible, {}}
        /\ pc \in {"drain", "bars", "publish"} /\ pc' \in {"bars", "publish", "idle"}
        /\ pc' = "idle" => visible' = {}
        /\ Marked
    BY <1>3 DEF CheckFeeds, BarCommits, BarFails, BarOutcome, BarsDone, Publish, dbVars,
       HaltInv, DrainShape
  <2>2. StampOrder' /\ (HaltAcknowledged' <=> HaltAcknowledged)
    BY <2>1, SameConfirmations DEF HaltInv
  <2>3. sm.state \notin {"STARTING", "WARMING_UP"} /\ sm \in Machine
    BY <2>1 DEF HaltInv, PastStart, TypeOK
  <2>4. /\ sm'.halted = sm.halted
        /\ sm'.state = "HALTED" <=> sm.state = "HALTED"
        /\ sm'.state \notin {"STARTING", "WARMING_UP"}
    BY <2>1, <2>3, MarksKeepHalt
  <2>5. HaltAcknowledged /\ told => sm.halted
    BY <2>1 DEF HaltInv, HaltHeld
  <2>6. (HaltSync /\ PastStart /\ HaltHeld)'
    BY <2>1, <2>2, <2>4, <2>5 DEF HaltInv, HaltSync, PastStart, HaltHeld
  <2>7. (DrainShape /\ AckShape)'
    BY <2>1 DEF HaltInv, DrainShape, AckShape
  <2> QED
    BY <2>2, <2>6, <2>7 DEF HaltInv
<1> QED
  BY <1>1, <1>2, <1>3

LEMMA HaltStep == HaltInv /\ [Next]_vars => HaltInv'
<1> SUFFICES ASSUME HaltInv, [Next]_vars PROVE HaltInv'
  OBVIOUS
<1> TypeOK /\ TypeOK'
  BY TypeStep DEF HaltInv
<1>1. CASE UNCHANGED vars
  <2>1. UNCHANGED <<now, cmds, workerVars>>
    BY <1>1 DEF vars, dbVars
  <2>2. StampOrder' /\ (HaltAcknowledged' <=> HaltAcknowledged)
    BY <2>1, SameConfirmations DEF HaltInv, workerVars
  <2> QED
    BY <2>1, <2>2 DEF HaltInv, HaltSync, DrainShape, PastStart, AckShape, HaltHeld,
       IsCurrent, DrainedBefore, WithStatus, workerVars
<1>2. CASE ApiStep
  BY <1>2, HaltApi
<1>3. CASE Tick \/ WorkerCrash
  BY <1>3, HaltRest
<1>4. CASE WorkerStep
  <2>1. ASSUME CycleFails \/ \E c \in Cmds : ApplyFails(c)
        PROVE  HaltInv'
    BY <2>1, HaltAbort DEF CycleFails, ApplyFails, Applying
  <2>2. ASSUME \E read \in BOOLEAN : WorkerBoot(read) \/ WorkerStart(read)
        PROVE  HaltInv'
    BY <2>2, HaltStart
  <2>3. ASSUME Announce \/ \E healthy \in BOOLEAN : Warmup(healthy)
        PROVE  HaltInv'
    BY <2>3, HaltStart
  <2> QED
    BY <1>4, <2>1, <2>2, <2>3, HaltDrain, HaltApply, HaltAck, HaltRest DEF WorkerStep
<1> QED
  BY <1>1, <1>2, <1>3, <1>4 DEF Next

(* The invariant of the emergency halt, whatever the reads of the restore  *)
(* do and however many confirmations share a millisecond.                  *)
THEOREM HaltInvariant == Spec => []HaltInv
BY HaltInit, HaltStep, PTL DEF Spec

(* The flag and the state HALTED of the worker always agree.               *)
THEOREM HaltSyncTheorem == Spec => []HaltSync
<1>1. HaltInv => HaltSync
  BY DEF HaltInv
<1> QED
  BY <1>1, HaltInvariant, PTL

(* A confirmed halt is in force in every worker started after it that can   *)
(* know of it: its restore could read, and the stamp of the halt is its own.*)
THEOREM HaltSurvives == Spec => []HaltSurvivesRestart
<1>1. HaltInv => HaltSurvivesRestart
  BY DEF HaltInv, HaltHeld, HaltSurvivesRestart
<1> QED
  BY <1>1, HaltInvariant, PTL

-----------------------------------------------------------------------------
(* The order of the answers. *)

LEMMA OrderApi == TypeOK /\ OrderInv /\ ApiStep => OrderInv'
<1> SUFFICES ASSUME TypeOK, OrderInv, ApiStep PROVE OrderInv'
  OBVIOUS
<1>1. UNCHANGED batch
  BY ApiFrame DEF workerVars
<1>2. \A c \in Cmds : cmds[c].status \in {"pending"} \cup Finished => cmds'[c] = cmds[c]
  BY ApiFrame
<1>3. \A c \in Cmds : cmds'[c].status \in Finished => cmds'[c] = cmds[c]
  BY ApiFrame
<1>4. WithStatus({"pending"} \cup Finished) \subseteq WithStatus({"pending"} \cup Finished)'
  BY <1>2 DEF WithStatus
<1>5. \A d \in Cmds : cmds'[d].after \subseteq WithStatus({"pending"} \cup Finished)
  <2>1. ASSUME NEW c \in Cmds, NEW k \in Kinds, NEW a \in ArgsOf(k), ApiEnqueue(c, k, a)
        PROVE  \A d \in Cmds : cmds'[d].after \subseteq WithStatus({"pending"} \cup Finished)
    BY <2>1 DEF ApiEnqueue, OrderInv, TypeOK
  <2>2. ASSUME NEW c \in Cmds, ApiCommit(c)
        PROVE  \A d \in Cmds : cmds'[d].after \subseteq WithStatus({"pending"} \cup Finished)
    <3>1. \A d \in Cmds : cmds'[d].after = cmds[d].after
      BY <2>2 DEF ApiCommit, TypeOK, Command
    <3> QED
      BY <3>1 DEF OrderInv
  <2>4. ASSUME NEW c \in Cmds, ApiRefused(c)
        PROVE  \A d \in Cmds : cmds'[d].after \subseteq WithStatus({"pending"} \cup Finished)
    <3>1. \A d \in Cmds \ {c} : cmds'[d] = cmds[d]
      BY <2>4 DEF ApiRefused, TypeOK
    <3>2. cmds'[c].after = {}
      BY <2>4 DEF ApiRefused, FreeCommand, TypeOK
    <3> QED
      BY <3>1, <3>2 DEF OrderInv
  <2>3. ASSUME \/ \E c \in Cmds, updated \in BOOLEAN : ApiFinish(c, updated)
               \/ \E account \in Accounts : ApiClearHistory(account)
               \/ ApiCrash
        PROVE  \A d \in Cmds : cmds'[d].after \subseteq WithStatus({"pending"} \cup Finished)
    BY <2>3 DEF ApiFinish, ApiClearHistory, ApiCrash, FreeCommand, OrderInv
  <2> QED
    BY <2>1, <2>2, <2>3, <2>4 DEF ApiStep
<1>6. \A d \in Cmds : \A c \in cmds'[d].after : c \in Cmds /\ cmds'[c] = cmds[c]
  BY <1>2, <1>5 DEF WithStatus
<1> QED
  BY <1>1, <1>2, <1>3, <1>4, <1>5, <1>6 DEF OrderInv, AnsweredInOrder, TypeOK

LEMMA OrderStep == TypeOK /\ OrderInv /\ [Next]_vars => OrderInv'
<1> SUFFICES ASSUME TypeOK, OrderInv, [Next]_vars PROVE OrderInv'
  OBVIOUS
<1>1. ASSUME UNCHANGED cmds, batch' \in {batch, {}}
      PROVE  OrderInv'
  BY <1>1 DEF OrderInv, AnsweredInOrder, WithStatus
<1>2. CASE Drain
  BY <1>2 DEF Drain, dbVars, OrderInv, AnsweredInOrder, WithStatus
<1>3. ASSUME NEW c \in Cmds, Ack(c)
      PROVE  OrderInv'
  <2>1. /\ c \in batch /\ IsCurrent(c) /\ batch' = batch \ {c}
        /\ result \in Finished /\ cmds[c].status = "pending"
    BY <1>3 DEF Ack, IsCurrent, TypeOK, OrderInv
  <2>2. /\ \A d \in Cmds \ {c} : cmds'[d] = cmds[d]
        /\ cmds'[c].status = result /\ cmds'[c].created = cmds[c].created
        /\ cmds'[c].after = cmds[c].after
    BY <1>3 DEF Ack, Answered, TypeOK
  <2>3. \A d \in Cmds : cmds'[d].created = cmds[d].created /\ cmds'[d].after = cmds[d].after
                       /\ cmds[d].after \subseteq Cmds
    BY <2>2 DEF TypeOK, Command
  <2>4. \A b \in cmds[c].after :
          cmds[b].created < cmds[c].created => cmds[b].status \in Finished
    <3> SUFFICES ASSUME NEW b \in cmds[c].after, cmds[b].created < cmds[c].created,
                        cmds[b].status = "pending"
                 PROVE  FALSE
      BY DEF OrderInv, WithStatus
    <3>1. b \in batch /\ b # c /\ b \in Cmds /\ cmds[b].created \in Nat
          /\ cmds[c].created \in Nat
      BY <2>1 DEF OrderInv, TypeOK, Command
    <3> QED
      BY <2>1, <3>1 DEF IsCurrent, DrainedBefore
  <2>5. AnsweredInOrder'
    BY <2>1, <2>2, <2>3, <2>4 DEF AnsweredInOrder, OrderInv
  <2>6. \A d \in Cmds : cmds'[d].after \subseteq WithStatus({"pending"} \cup Finished)'
    BY <2>1, <2>2, <2>3 DEF OrderInv, WithStatus
  <2> QED
    BY <2>1, <2>2, <2>3, <2>5, <2>6 DEF OrderInv, TypeOK, Finished
<1>4. CASE Tick \/ WorkerCrash \/ UNCHANGED vars
  BY <1>1, <1>4 DEF Tick, WorkerCrash, vars, dbVars, workerVars
<1>5. CASE WorkerStep
  <2>1. ASSUME WorkerStep, ~Drain, ~\E c \in Cmds : Ack(c)
        PROVE  UNCHANGED cmds /\ batch' \in {batch, {}}
    BY <2>1 DEF WorkerStep, WorkerBoot, WorkerStart, Warmup, Announce, ApplyHalt, ApplyResume,
       ApplyClose, ApplyReset, ApplyFails, AbortCycle, CheckFeeds, BarCommits,
       BarFails, BarsDone, Publish, CycleFails, dbVars
  <2> QED
    BY <1>1, <1>2, <1>3, <1>5, <2>1
<1> QED
  BY <1>4, <1>5, OrderApi DEF Next

(* Commands are answered in the order in which they were issued.           *)
THEOREM AnswersInOrder == Spec => []AnsweredInOrder
<1>1. Init => OrderInv
  BY DEF Init, OrderInv, AnsweredInOrder, FreeCommand, Finished
<1>2. OrderInv => AnsweredInOrder
  BY DEF OrderInv
<1> QED
  BY <1>1, <1>2, OrderStep, TypeCorrect, PTL DEF Spec

(* The inductive invariant behind the order of the answers: what the worker *)
(* holds from a drain was accepted before everything that is still pending. *)
THEOREM OrderInvariant == Spec => []OrderInv
<1>1. Init => OrderInv
  BY DEF Init, OrderInv, AnsweredInOrder, FreeCommand, Finished
<1> QED
  BY <1>1, OrderStep, TypeCorrect, PTL DEF Spec

-----------------------------------------------------------------------------
(* Trades: what a confirmed closing or reset says of them, and the memory   *)
(* of the master account.                                                   *)

Gone(t) == t \in Trades \ open /\ db[t] \in {"closed", "deleted"}

Emptied(account) ==
    /\ Open(account) = {}
    /\ \A t \in open : AccountOf[t] # account

\* What is waiting for its confirmation.
EffectDone(c) ==
    /\ cmds[c].kind = "close_trade" => Gone(cmds[c].arg)
    /\ cmds[c].kind = "reset_account" => Emptied(cmds[c].arg)

\* Commands in the drain are pending, the effect of the current one precedes its
\* confirmation, and a trade that was closed by a command is not opened again,
\* nor held in memory, from where a bar would write it again.
TradesInv ==
    /\ MasterInSync
    /\ \A t \in open : db[t] # "unused"
    /\ \A c \in batch : cmds[c].status = "pending"
    /\ pc = "ack" /\ result = "applied" => \A c \in batch : IsCurrent(c) => EffectDone(c)
    /\ \A c \in Cmds : cmds[c].kind = "close_trade" /\ cmds[c].status = "applied"
         => Gone(cmds[c].arg)

(* Steps of the API open no trade, close none, and touch no memory. *)
LEMMA ApiTrades ==
    ASSUME TypeOK, ApiStep
    PROVE  /\ \A account : Open(account)' = Open(account)
           /\ \A t : Gone(t) => Gone(t)'
<1> UNCHANGED open
  BY ApiFrame DEF workerVars
<1>1. CASE db' = db
  BY <1>1 DEF Open, Gone
<1>2. ASSUME NEW a \in Accounts, ApiClearHistory(a)
      PROVE  /\ \A account : Open(account)' = Open(account)
             /\ \A t : Gone(t) => Gone(t)'
  <2>1. \A t \in Trades : /\ db'[t] = "open" <=> db[t] = "open"
                          /\ db[t] \in {"closed", "deleted"} => db'[t] \in {"closed", "deleted"}
    BY <1>2 DEF ApiClearHistory, TypeOK
  <2> QED
    BY <2>1 DEF Open, Gone
<1> QED
  BY <1>1, <1>2 DEF ApiStep, ApiEnqueue, ApiCommit, ApiRefused, ApiFinish, ApiCrash

LEMMA TradesApi == TypeOK /\ TradesInv /\ ApiStep => TradesInv'
<1> SUFFICES ASSUME TypeOK, TradesInv, ApiStep PROVE TradesInv'
  OBVIOUS
<1>1. UNCHANGED <<pc, open, batch, result>>
  BY ApiFrame DEF workerVars
<1>2. \A c \in batch : c \in Cmds /\ cmds'[c] = cmds[c]
  BY ApiFrame DEF TradesInv, TypeOK
<1>3. \A c \in Cmds : cmds'[c].status = "applied" => cmds'[c] = cmds[c]
  BY ApiFrame DEF Finished
<1>4. MasterInSync'
  BY <1>1, ApiTrades DEF TradesInv, MasterInSync
<1>5. ASSUME NEW c \in batch', IsCurrent(c)', pc = "ack", result = "applied"
      PROVE  EffectDone(c)'
  <2>1. c \in batch /\ cmds'[c] = cmds[c]
    BY <1>1, <1>2
  <2>2. IsCurrent(c)
    BY <1>1, <1>2, <1>5, <2>1 DEF IsCurrent, DrainedBefore
  <2>3. EffectDone(c)
    BY <1>5, <2>1, <2>2 DEF TradesInv
  <2>4. cmds[c].kind = "close_trade" => Gone(cmds[c].arg)'
    BY <2>1, <2>3, ApiTrades DEF EffectDone, Gone
  <2>5. cmds[c].kind = "reset_account" => Emptied(cmds[c].arg)'
    BY <1>1, <2>1, <2>3, ApiTrades DEF EffectDone, Emptied, Open
  <2> QED
    BY <2>1, <2>4, <2>5 DEF EffectDone
<1>6. ASSUME NEW c \in Cmds, cmds'[c].kind = "close_trade", cmds'[c].status = "applied"
      PROVE  Gone(cmds[c].arg)' /\ cmds'[c] = cmds[c]
  BY <1>3, <1>6, ApiTrades DEF TradesInv, Gone
<1>7. \A t \in open' : db'[t] # "unused"
  BY <1>1 DEF TradesInv, TypeOK, ApiStep, ApiEnqueue, ApiCommit, ApiRefused, ApiFinish,
     ApiClearHistory, ApiCrash
<1>8. \A c \in batch' : cmds'[c].status = "pending"
  BY <1>1, <1>2 DEF TradesInv
<1> QED
  BY <1>1, <1>4, <1>5, <1>6, <1>7, <1>8 DEF TradesInv

(* The effects of the drain. *)
LEMMA TradesApply ==
    ASSUME TypeOK, TradesInv, NEW c \in Cmds,
           ApplyHalt(c) \/ ApplyResume(c) \/ ApplyClose(c) \/ ApplyReset(c)
    PROVE  TradesInv'
<1>1. /\ UNCHANGED <<cmds, batch>> /\ pc = "drain" /\ pc' = "ack"
      /\ c \in batch /\ IsCurrent(c)
  BY DEF ApplyHalt, ApplyResume, ApplyClose, ApplyReset, Applying, IsCurrent, dbVars
<1>2. \A d \in batch : IsCurrent(d)' => d = c
  <2> SUFFICES ASSUME NEW d \in batch, IsCurrent(d)', d # c PROVE FALSE
    OBVIOUS
  <2>1. DrainedBefore(d, c) /\ DrainedBefore(c, d)
    BY <1>1 DEF IsCurrent, DrainedBefore
  <2>2. d \in Nat /\ c \in Nat /\ cmds[d].created \in Nat /\ cmds[c].created \in Nat
    BY ConstantsAssumption DEF TypeOK, Command
  <2> QED
    BY <2>1, <2>2 DEF DrainedBefore
<1>3. CASE ApplyHalt(c) \/ ApplyResume(c)
  <2>1. UNCHANGED <<db, open>> /\ cmds[c].kind \in {"halt", "resume"}
    BY <1>3 DEF ApplyHalt, ApplyResume, Applying, dbVars
  <2>2. EffectDone(c)'
    BY <1>1, <2>1 DEF EffectDone
  <2> QED
    BY <1>1, <1>2, <2>1, <2>2 DEF TradesInv, MasterInSync, Open, Gone
<1>4. CASE ApplyClose(c)
  <2>1. cmds[c].kind = "close_trade"
    BY <1>4 DEF ApplyClose, Applying
  <2>2. CASE cmds[c].arg \notin open
    <3>1. UNCHANGED <<db, open>> /\ result' = "rejected"
      BY <1>4, <2>2 DEF ApplyClose
    <3> QED
      BY <1>1, <3>1 DEF TradesInv, MasterInSync, Open, Gone
  <2>3. CASE cmds[c].arg \in open
    <3>1. /\ db' = [db EXCEPT ![cmds[c].arg] = "closed"] /\ open' = open \ {cmds[c].arg}
          /\ cmds[c].arg \in Trades
      BY <1>4, <2>3 DEF ApplyClose, TypeOK
    <3>2. Gone(cmds[c].arg)'
      BY <1>1, <3>1 DEF Gone, TypeOK
    <3>3. \A t : Gone(t) => Gone(t)'
      BY <3>1 DEF Gone, TypeOK
    <3>4. MasterInSync'
      BY <1>1, <3>1 DEF TradesInv, MasterInSync, Open, TypeOK
    <3>5. EffectDone(c)'
      BY <1>1, <2>1, <3>2 DEF EffectDone, Gone
    <3>6. \A t \in open' : db'[t] # "unused"
      BY <3>1 DEF TradesInv, TypeOK
    <3> QED
      BY <1>1, <1>2, <3>3, <3>4, <3>5, <3>6 DEF TradesInv, Gone
  <2> QED
    BY <2>2, <2>3
<1>5. CASE ApplyReset(c)
  <2>1. /\ cmds[c].kind = "reset_account"
        /\ db' = [t \in Trades |-> IF AccountOf[t] = cmds[c].arg /\ db[t] # "unused"
                                   THEN "deleted" ELSE db[t]]
        /\ open' = {t \in open : AccountOf[t] # cmds[c].arg}
    BY <1>5 DEF ApplyReset, Applying
  <2>2. Emptied(cmds[c].arg)'
    BY <1>1, <2>1 DEF Emptied, Open
  <2>3. \A t : Gone(t) => Gone(t)'
    BY <2>1 DEF Gone, TypeOK
  <2>4. MasterInSync'
    BY <1>1, <2>1 DEF TradesInv, MasterInSync, Open, TypeOK
  <2>5. EffectDone(c)'
    BY <1>1, <2>1, <2>2 DEF EffectDone, Emptied
  <2>6. \A t \in open' : db'[t] # "unused"
    BY <2>1 DEF TradesInv, TypeOK
  <2> QED
    BY <1>1, <1>2, <2>3, <2>4, <2>5, <2>6 DEF TradesInv, Gone
<1> QED
  BY <1>3, <1>4, <1>5

LEMMA TradesAck ==
    ASSUME TypeOK, TradesInv, NEW c \in Cmds, Ack(c)
    PROVE  TradesInv'
<1>1. /\ UNCHANGED <<db, open>> /\ pc = "ack" /\ pc' = "drain"
      /\ c \in batch /\ IsCurrent(c) /\ batch' = batch \ {c}
  BY DEF Ack, IsCurrent
<1>2. /\ \A d \in Cmds \ {c} : cmds'[d] = cmds[d]
      /\ cmds'[c].kind = cmds[c].kind /\ cmds'[c].status = result /\ cmds'[c].arg = cmds[c].arg
  BY DEF Ack, Answered, TypeOK
<1>3. \A d \in Cmds : cmds'[d].kind = "close_trade" /\ cmds'[d].status = "applied"
        => Gone(cmds'[d].arg)
  BY <1>1, <1>2 DEF TradesInv, EffectDone
<1> QED
  BY <1>1, <1>2, <1>3 DEF TradesInv, MasterInSync, Open, Gone, TypeOK

(* Bars close what is open and open what was never used. *)
LEMMA TradesBars ==
    ASSUME TypeOK, TradesInv, NEW exits \in SUBSET Trades, NEW kept \in SUBSET Trades,
           NEW entries \in SUBSET Trades,
           BarCommits(exits, kept, entries) \/ BarFails(exits, entries)
    PROVE  TradesInv'
<1>1. UNCHANGED <<cmds, pc, batch, result>> /\ pc = "bars"
  BY DEF BarCommits, BarFails, BarOutcome
<1>2. exits \subseteq open /\ \A t \in entries : db[t] = "unused"
  BY DEF BarCommits, BarFails, BarOutcome
<1>3. \A t : Gone(t) => Gone(t)'
  BY <1>2 DEF BarCommits, BarFails, Gone, TypeOK
<1>4. {t \in open : AccountOf[t] = Master}
        = {t \in Trades : db[t] = "open" /\ AccountOf[t] = Master}
  BY <1>1 DEF TradesInv, MasterInSync, Open
<1>5. CASE BarCommits(exits, kept, entries)
  <2>1. /\ db' = [t \in Trades |-> IF t \in exits THEN "closed"
                                  ELSE IF t \in kept \cup entries THEN "open" ELSE db[t]]
        /\ open' = (open \ exits) \cup entries
        /\ kept \subseteq {t \in open \ exits : db[t] # "open"}
    BY <1>5 DEF BarCommits
  <2>2. {t \in open' : AccountOf[t] = Master}
          = {t \in Trades : db'[t] = "open" /\ AccountOf[t] = Master}
    BY <1>2, <1>4, <2>1 DEF TypeOK
  <2>3. \A t \in open' : db'[t] # "unused"
    BY <2>1 DEF TradesInv, TypeOK
  <2> QED
    BY <1>1, <1>3, <2>2, <2>3 DEF TradesInv, MasterInSync, Open, Gone
<1>6. CASE BarFails(exits, entries)
  <2>1. /\ db' = [t \in Trades |-> IF t \in entries THEN "deleted" ELSE db[t]]
        /\ open' = {t \in open : t \in exits => AccountOf[t] = Master}
                   \cup {t \in entries : AccountOf[t] # Master}
    BY <1>6 DEF BarFails
  <2>2. {t \in open' : AccountOf[t] = Master}
          = {t \in Trades : db'[t] = "open" /\ AccountOf[t] = Master}
    BY <1>2, <1>4, <2>1 DEF TypeOK
  <2>3. \A t \in open' : db'[t] # "unused"
    BY <2>1 DEF TradesInv, TypeOK
  <2> QED
    BY <1>1, <1>3, <2>2, <2>3 DEF TradesInv, MasterInSync, Open, Gone
<1> QED
  BY <1>5, <1>6

LEMMA TradesStep == TypeOK /\ TradesInv /\ [Next]_vars => TradesInv'
<1> SUFFICES ASSUME TypeOK, TradesInv, [Next]_vars PROVE TradesInv'
  OBVIOUS
<1>1. ASSUME UNCHANGED <<cmds, db, open>>, batch' \in {batch, {}},
             pc' # "ack" \/ UNCHANGED <<pc, result, batch>>,
             pc' # "down" => pc # "down"
      PROVE  TradesInv'
  <2>1. (pc = "ack" /\ result = "applied" => \A c \in batch : IsCurrent(c) => EffectDone(c))'
    <3>1. CASE pc' # "ack"
      BY <3>1
    <3>2. CASE UNCHANGED <<pc, result, batch>>
      BY <1>1, <3>2 DEF TradesInv, IsCurrent, DrainedBefore, EffectDone, Gone, Emptied, Open
    <3> QED
      BY <1>1, <3>1, <3>2
  <2>2. MasterInSync'
    BY <1>1 DEF TradesInv, MasterInSync, Open
  <2> QED
    BY <1>1, <2>1, <2>2 DEF TradesInv, Gone
<1>2. CASE WorkerCrash
  BY <1>2 DEF WorkerCrash, dbVars, TradesInv, MasterInSync, Gone
<1>3. CASE Drain
  BY <1>3 DEF Drain, dbVars, TradesInv, MasterInSync, Open, Gone, WithStatus
<1>4. ASSUME NEW read \in BOOLEAN, WorkerBoot(read)
      PROVE  TradesInv'
  BY <1>4 DEF WorkerBoot, dbVars, TradesInv, MasterInSync, Open, Gone
<1>5. CASE Tick \/ UNCHANGED vars
  BY <1>1, <1>5 DEF Tick, vars, dbVars, workerVars
<1>6. ASSUME AbortCycle, pc # "down" PROVE TradesInv'
  BY <1>1, <1>6 DEF AbortCycle, dbVars
<1>7. ASSUME \E c \in Cmds : ApplyFails(c) PROVE TradesInv'
  BY <1>6, <1>7 DEF ApplyFails, Applying
<1>8. CASE CycleFails
  BY <1>6, <1>8 DEF CycleFails
<1>9. ASSUME \/ \E read \in BOOLEAN : WorkerStart(read)
             \/ \E healthy \in BOOLEAN : Warmup(healthy)
             \/ Announce \/ BarsDone \/ Publish
             \/ \E valid \in {"all", "some", "none"} : CheckFeeds(valid)
      PROVE  TradesInv'
  BY <1>1, <1>9 DEF WorkerStart, Warmup, Announce, BarsDone, Publish, CheckFeeds, dbVars
<1> QED
  BY <1>2, <1>3, <1>4, <1>5, <1>7, <1>8, <1>9, TradesApi, TradesApply, TradesAck, TradesBars
     DEF Next, WorkerStep

LEMMA TradesInvariant == Spec => []TradesInv
<1>1. Init => TradesInv
  BY DEF Init, TradesInv, MasterInSync, FreeCommand
<1> QED
  BY <1>1, TradesStep, TypeCorrect, PTL DEF Spec

(* No position is opened against a halt that is confirmed or that the      *)
(* cycle has read.                                                         *)
THEOREM EntriesRespectHalts == Spec => EntryRespectsHalt
<1> DEFINE Respects ==
      (\E t \in Trades : db[t] = "unused" /\ db'[t] = "open")
        => /\ told => ~HaltAcknowledged
           /\ \A c \in visible : cmds[c].kind = "halt" => cmds[c].status = "applied"
<1>1. HaltInv /\ TradesInv /\ [Next]_vars => [Respects]_vars
  <2> SUFFICES ASSUME HaltInv, TradesInv, Next, NEW t \in Trades, db[t] = "unused", db'[t] = "open"
               PROVE  /\ told => ~HaltAcknowledged
                      /\ \A c \in visible : cmds[c].kind = "halt" => cmds[c].status = "applied"
    OBVIOUS
  <2>1. \E exits, kept, entries \in SUBSET Trades :
           BarCommits(exits, kept, entries) /\ entries # {}
    BY DEF HaltInv, TradesInv, TypeOK, Next, Tick, ApiStep, ApiEnqueue, ApiCommit, ApiRefused,
       ApiFinish, ApiClearHistory, ApiCrash, WorkerStep, WorkerBoot, WorkerStart, Warmup,
       Announce, Drain,
       ApplyHalt, ApplyResume, ApplyClose, ApplyReset, ApplyFails, Ack, AbortCycle,
       CheckFeeds, BarCommits, BarFails, BarsDone, Publish, CycleFails, WorkerCrash, dbVars
  <2>2. pc = "bars" /\ sm.state = "RUNNING" /\ ~sm.halted
    BY <2>1 DEF BarCommits, BarOutcome, CanOpen
  <2>3. told => ~HaltAcknowledged
    BY <2>2 DEF HaltInv, HaltHeld
  <2>4. batch = {}
    BY <2>2 DEF HaltInv, DrainShape
  <2> QED
    BY <2>3, <2>4 DEF HaltInv, DrainShape, AckShape, TypeOK, Finished
<1> QED
  BY <1>1, HaltInvariant, TradesInvariant, PTL DEF Spec, EntryRespectsHalt

(* The open positions of the master in memory are those of the table, after *)
(* every command, bar, failure and restart.                                 *)
THEOREM MasterStaysInSync == Spec => []MasterInSync
<1>1. TradesInv => MasterInSync
  BY DEF TradesInv
<1> QED
  BY <1>1, TradesInvariant, PTL

(* A trade whose closing was confirmed is never open again.                 *)
THEOREM ClosedTradesStayClosed == Spec => []ConfirmedCloseIsClosed
<1>1. TradesInv => ConfirmedCloseIsClosed
  BY DEF TradesInv, Gone, ConfirmedCloseIsClosed
<1> QED
  BY <1>1, TradesInvariant, PTL

(* A reset is confirmed only when no open trade of the account is left.     *)
THEOREM ResetsEmptyTheAccount == Spec => ConfirmedResetIsEmpty
<1> DEFINE Empty ==
      \A c \in Cmds :
         cmds[c].kind = "reset_account" /\ cmds[c].status = "pending"
           /\ cmds'[c].status = "applied"
         => /\ Open(cmds[c].arg)' = {}
            /\ \A t \in open' : AccountOf[t] # cmds[c].arg
<1>1. TypeOK /\ TradesInv /\ [Next]_vars => [Empty]_vars
  <2> SUFFICES ASSUME TypeOK, TradesInv, Next, NEW c \in Cmds,
                      cmds[c].kind = "reset_account", cmds[c].status = "pending",
                      cmds'[c].status = "applied"
               PROVE  /\ Open(cmds[c].arg)' = {}
                      /\ \A t \in open' : AccountOf[t] # cmds[c].arg
    OBVIOUS
  <2>1. cmds'[c] # cmds[c] /\ ~ApiStep
    BY ApiFrame
  <2>2. PICK d \in Cmds : Ack(d)
    BY <2>1 DEF Next, Tick, WorkerCrash, WorkerStep, WorkerBoot, WorkerStart, Warmup, Announce,
       Drain, ApplyHalt, ApplyResume, ApplyClose, ApplyReset, ApplyFails, AbortCycle,
       CheckFeeds, BarCommits, BarFails, BarsDone, Publish, CycleFails, dbVars
  <2>3. d = c /\ result = "applied"
    BY <2>1, <2>2 DEF Ack, Answered, TypeOK
  <2>4. /\ pc = "ack" /\ c \in batch /\ IsCurrent(c) /\ UNCHANGED <<db, open>>
        /\ cmds'[c].arg = cmds[c].arg
    BY <2>2, <2>3 DEF Ack, IsCurrent, Answered, TypeOK
  <2>5. Emptied(cmds[c].arg)
    BY <2>3, <2>4 DEF TradesInv, EffectDone
  <2> QED
    BY <2>4, <2>5 DEF Emptied, Open
<1> QED
  BY <1>1, TradesInvariant, TypeCorrect, PTL DEF Spec, ConfirmedResetIsEmpty

-----------------------------------------------------------------------------
(* How far a command is from its answer. *)

UpTo(c) == {d \in batch : d = c \/ DrainedBefore(d, c)}

\* What the bars of a cycle can still do: open unused trades, close open ones, and
\* write again those in memory that have lost their row.
Rowless == {t \in open : db[t] # "open"}

Tradable ==
    2 * Cardinality({t \in Trades : db[t] = "unused"}) + Cardinality(open) + Cardinality(Rowless)

\* Steps of the worker until c is answered, at most: those of the commands
\* before it, and before the drain that fetches it the rest of the cycle or of
\* the start.
Distance(c) ==
    IF c \in batch THEN 2 * Cardinality(UpTo(c)) + (IF pc = "drain" THEN 1 ELSE 0)
    ELSE 2 * Cardinality(Cmds) + 2
         + CASE pc = "idle" -> 0
             [] pc \in {"announce", "publish"} -> 1
             [] pc = "warmup" -> 2
             [] pc = "booted" -> 3
             [] pc = "down" -> 4
             [] pc = "bars" -> 2 + Tradable
             [] pc = "ack" -> 3 + Tradable + 2 * Cardinality(batch)
             [] OTHER -> 4 + Tradable + 2 * Cardinality(batch)

Nearer(c) ==
    \/ cmds'[c].status \in Finished
    \/ /\ cmds'[c].status = "pending"
       /\ Distance(c)' <= Distance(c)
       /\ WorkerStep => Distance(c)' < Distance(c)

(* Unless the worker fails or dies: an accepted command stays in the table   *)
(* until it is answered, every step of the worker brings its answer nearer,  *)
(* and nothing else puts it off, be it later requests, a cleared history or  *)
(* a new API process.                                                        *)
AnswersComeNearer ==
    [][\A c \in WithStatus({"pending"}) :
          faults' = faults /\ ~WorkerCrash => Nearer(c)]_vars

(* The drain never waits: there is a first command, and it has a kind that   *)
(* the worker handles.                                                       *)
WorkerHasStep ==
    (pc = "drain" /\ batch # {}) \/ pc = "ack" =>
        \E c \in batch : IsCurrent(c) /\ cmds[c].kind \in CommandKinds

\* What the drain holds is pending, and one of it is being worked on.
Fetched ==
    /\ \A c \in Cmds : cmds[c].status # "free" => cmds[c].kind \in CommandKinds
    /\ \A c \in batch : cmds[c].status = "pending"
    /\ batch # {} => pc \in {"drain", "ack"}
    /\ pc = "ack" => batch # {}

LEMMA FetchedApi == TypeOK /\ Fetched /\ ApiStep => Fetched'
<1> SUFFICES ASSUME TypeOK, Fetched, ApiStep PROVE Fetched'
  OBVIOUS
<1>1. /\ UNCHANGED <<pc, batch>>
      /\ \A c \in Cmds : cmds[c].status = "pending" => cmds'[c] = cmds[c]
  BY ApiFrame DEF workerVars
<1>2. ASSUME NEW c \in Cmds, cmds'[c].status # "free"
      PROVE  cmds'[c].kind \in CommandKinds
  <2>1. ASSUME NEW d \in Cmds, NEW k \in Kinds, NEW a \in ArgsOf(k), ApiEnqueue(d, k, a)
        PROVE  cmds'[c].kind \in CommandKinds
    BY <1>2, <2>1, ConstantsAssumption DEF ApiEnqueue, TypeOK, Fetched
  <2>2. ASSUME NEW d \in Cmds, ApiCommit(d) \/ ApiRefused(d)
        PROVE  cmds'[c].kind \in CommandKinds
    BY <1>2, <2>2 DEF ApiCommit, ApiRefused, TypeOK, Fetched, Command, FreeCommand
  <2>3. ASSUME ApiCrash
        PROVE  cmds'[c].kind \in CommandKinds
    BY <1>2, <2>3 DEF ApiCrash, TypeOK, Fetched, FreeCommand
  <2>4. ASSUME UNCHANGED cmds
        PROVE  cmds'[c].kind \in CommandKinds
    BY <1>2, <2>4 DEF Fetched
  <2> QED
    BY <2>1, <2>2, <2>3, <2>4 DEF ApiStep, ApiFinish, ApiClearHistory
<1> QED
  BY <1>1, <1>2 DEF Fetched, TypeOK

LEMMA FetchedStep == TypeOK /\ Fetched /\ [Next]_vars => Fetched'
<1> SUFFICES ASSUME TypeOK, Fetched, [Next]_vars PROVE Fetched'
  OBVIOUS
<1> USE DEF Fetched
<1>1. ASSUME Tick \/ UNCHANGED vars PROVE Fetched'
  BY <1>1 DEF Tick, vars, dbVars, workerVars
<1>2. ASSUME WorkerCrash PROVE Fetched'
  BY <1>2 DEF WorkerCrash, dbVars
<1>3. ASSUME NEW c \in Cmds, Ack(c) PROVE Fetched'
  BY <1>3 DEF Ack, Answered, TypeOK, IsCurrent, Finished
<1>4. ASSUME Drain PROVE Fetched'
  BY <1>4 DEF Drain, dbVars, WithStatus
<1>5. ASSUME AbortCycle PROVE Fetched'
  BY <1>5 DEF AbortCycle, dbVars
<1>6. ASSUME NEW c \in Cmds, ApplyHalt(c) \/ ApplyResume(c) \/ ApplyClose(c) \/ ApplyReset(c)
      PROVE  Fetched'
  BY <1>6 DEF ApplyHalt, ApplyResume, ApplyClose, ApplyReset, Applying, IsCurrent, dbVars
<1>7. ASSUME NEW exits \in SUBSET Trades, NEW kept \in SUBSET Trades,
           NEW entries \in SUBSET Trades,
             BarCommits(exits, kept, entries) \/ BarFails(exits, entries)
      PROVE  Fetched'
  BY <1>7 DEF BarCommits, BarFails
<1>8. ASSUME WorkerStep,
             \/ \E read \in BOOLEAN : WorkerBoot(read) \/ WorkerStart(read)
             \/ \E healthy \in BOOLEAN : Warmup(healthy)
             \/ \E valid \in {"all", "some", "none"} : CheckFeeds(valid)
             \/ Announce \/ BarsDone \/ Publish
      PROVE  Fetched'
  BY <1>8 DEF WorkerBoot, WorkerStart, Warmup, CheckFeeds, Announce, BarsDone, Publish, dbVars
<1> QED
  BY <1>1, <1>2, <1>3, <1>4, <1>5, <1>6, <1>7, <1>8, FetchedApi
     DEF Next, WorkerStep, ApplyFails, CycleFails

LEMMA FetchedAlways == Spec => [](TypeOK /\ Fetched)
<1>1. Init => Fetched
  BY DEF Init, Fetched, FreeCommand
<1>2. TypeOK /\ Fetched /\ [Next]_vars => Fetched'
  BY FetchedStep
<1> QED
  BY <1>1, <1>2, TypeCorrect, PTL DEF Spec

(* The drain of the worker never stands still: while it holds commands one  *)
(* of them is the next, and of a kind that is handled (worker.py:274-322).  *)
THEOREM CommandsHaveStep == Spec => []WorkerHasStep
<1>1. ASSUME TypeOK, Fetched, batch # {}
      PROVE  \E c \in batch : IsCurrent(c) /\ cmds[c].kind \in CommandKinds
  <2>1. batch \in SUBSET Nat /\ [c \in batch |-> cmds[c].created] \in [batch -> Nat]
    BY <1>1, ConstantsAssumption DEF TypeOK, Command
  <2>2. PICK c \in batch : \A d \in batch \ {c} :
            \/ [x \in batch |-> cmds[x].created][c] < [x \in batch |-> cmds[x].created][d]
            \/ ([x \in batch |-> cmds[x].created][c] = [x \in batch |-> cmds[x].created][d]
                /\ c < d)
    BY <1>1, <2>1, FirstInOrder
  <2> QED
    BY <1>1, <2>2 DEF IsCurrent, DrainedBefore, Fetched, TypeOK
<1>2. TypeOK /\ Fetched => WorkerHasStep
  BY <1>1 DEF WorkerHasStep, Fetched
<1> QED
  BY <1>2, FetchedAlways, PTL

\* The numbers a distance is made of.
LEMMA DistanceType ==
    ASSUME IsFiniteSet(Cmds), IsFiniteSet(Trades), TypeOK, NEW c \in Cmds
    PROVE  /\ IsFiniteSet(batch) /\ IsFiniteSet(UpTo(c))
           /\ Cardinality(Cmds) \in Nat /\ Cardinality(batch) \in Nat
           /\ Cardinality(UpTo(c)) \in 0..Cardinality(Cmds)
           /\ Tradable \in Nat /\ Distance(c) \in Nat
<1>1. /\ batch \in SUBSET Cmds /\ UpTo(c) \in SUBSET Cmds /\ open \in SUBSET Trades
      /\ {t \in Trades : db[t] = "unused"} \in SUBSET Trades /\ Rowless \in SUBSET Trades
  BY DEF TypeOK, UpTo, Rowless
<1>2. /\ IsFiniteSet(batch) /\ IsFiniteSet(UpTo(c)) /\ IsFiniteSet(open)
      /\ IsFiniteSet({t \in Trades : db[t] = "unused"}) /\ IsFiniteSet(Rowless)
      /\ Cardinality(UpTo(c)) <= Cardinality(Cmds)
  BY <1>1, FS_Subset
<1>3. /\ Cardinality(Cmds) \in Nat /\ Cardinality(batch) \in Nat
      /\ Cardinality(UpTo(c)) \in Nat /\ Cardinality(open) \in Nat
      /\ Cardinality({t \in Trades : db[t] = "unused"}) \in Nat /\ Cardinality(Rowless) \in Nat
  BY <1>2, FS_CardinalityType
<1>4. Tradable \in Nat
  BY <1>3 DEF Tradable
<1> QED
  BY <1>2, <1>3, <1>4 DEF Distance

LEMMA DistanceTypeNext ==
    ASSUME IsFiniteSet(Cmds), IsFiniteSet(Trades), TypeOK', NEW c \in Cmds
    PROVE  /\ Cardinality(Cmds) \in Nat /\ Cardinality(batch') \in Nat
           /\ Cardinality(UpTo(c)') \in 0..Cardinality(Cmds)
           /\ Tradable' \in Nat /\ Distance(c)' \in Nat
<1>1. /\ batch' \in SUBSET Cmds /\ UpTo(c)' \in SUBSET Cmds /\ open' \in SUBSET Trades
      /\ {t \in Trades : db'[t] = "unused"} \in SUBSET Trades /\ Rowless' \in SUBSET Trades
  BY DEF TypeOK, UpTo, Rowless
<1>2. /\ IsFiniteSet(batch') /\ IsFiniteSet(UpTo(c)') /\ IsFiniteSet(open')
      /\ IsFiniteSet({t \in Trades : db'[t] = "unused"}) /\ IsFiniteSet(Rowless')
      /\ Cardinality(UpTo(c)') <= Cardinality(Cmds)
  BY <1>1, FS_Subset
<1>3. /\ Cardinality(Cmds) \in Nat /\ Cardinality(batch') \in Nat
      /\ Cardinality(UpTo(c)') \in Nat /\ Cardinality(open') \in Nat
      /\ Cardinality({t \in Trades : db'[t] = "unused"}) \in Nat /\ Cardinality(Rowless') \in Nat
  BY <1>2, FS_CardinalityType
<1>4. Tradable' \in Nat
  BY <1>3 DEF Tradable
<1> QED
  BY <1>2, <1>3, <1>4 DEF Distance

\* What is before c in the batch, when another command of it is answered.
LEMMA AckShortens ==
    ASSUME IsFiniteSet(Cmds), IsFiniteSet(Trades), TypeOK, Fetched, NEW a \in Cmds, Ack(a)
    PROVE  /\ Cardinality(batch') = Cardinality(batch) - 1
           /\ \A c \in batch \ {a} :
                 c \in batch' /\ Cardinality(UpTo(c))' = Cardinality(UpTo(c)) - 1
<1>1. batch' = batch \ {a} /\ a \in batch
  BY DEF Ack, IsCurrent
<1>2. ASSUME NEW c \in batch \ {a}
      PROVE  c \in batch' /\ Cardinality(UpTo(c))' = Cardinality(UpTo(c)) - 1
  <2>1. \A d \in Cmds : cmds'[d].created = cmds[d].created
    BY DEF Ack, Answered, TypeOK
  <2>2. UpTo(c)' = UpTo(c) \ {a} /\ a \in UpTo(c)
    BY <1>1, <1>2, <2>1 DEF UpTo, DrainedBefore, Ack, IsCurrent, TypeOK
  <2>3. c \in Cmds
    BY DEF TypeOK
  <2> QED
    BY <1>1, <2>2, <2>3, DistanceType, FS_RemoveElement
<1>3. Cardinality(batch') = Cardinality(batch) - 1
  BY <1>1, DistanceType, FS_RemoveElement, ConstantsAssumption
<1> QED
  BY <1>2, <1>3

\* A bar opens trades that were never used, closes open ones or restores rows.
LEMMA BarsUseUp ==
    ASSUME IsFiniteSet(Trades), TypeOK, NEW exits \in SUBSET Trades, NEW kept \in SUBSET Trades,
           NEW entries \in SUBSET Trades,
           BarCommits(exits, kept, entries)
    PROVE  Tradable' < Tradable
<1> DEFINE fresh == {t \in Trades : db[t] = "unused"}
           nFresh == Cardinality(fresh)    nOpen == Cardinality(open)
           nIn == Cardinality(entries)     nOut == Cardinality(exits)
           nLost == Cardinality(Rowless)   nKept == Cardinality(kept)
<1>1. /\ IsFiniteSet(fresh) /\ IsFiniteSet(open) /\ IsFiniteSet(entries) /\ IsFiniteSet(exits)
      /\ IsFiniteSet(open \ exits) /\ IsFiniteSet(Rowless) /\ IsFiniteSet(kept)
  BY FS_Subset DEF TypeOK, Rowless
<1>2. /\ nFresh \in Nat /\ nOpen \in Nat /\ nIn \in Nat /\ nOut \in Nat
      /\ nLost \in Nat /\ nKept \in Nat
  BY <1>1, FS_CardinalityType
<1>3. /\ entries \subseteq fresh /\ exits \subseteq open /\ kept \subseteq Rowless
      /\ exits \cup kept \cup entries # {}
  BY DEF BarCommits, BarOutcome, Rowless
<1>4. Cardinality(fresh') <= nFresh - nIn /\ Cardinality(fresh') \in Nat
  <2>1. fresh' \subseteq fresh \ entries
    BY DEF BarCommits, TypeOK
  <2>2. Cardinality(fresh \ entries) = nFresh - nIn /\ IsFiniteSet(fresh \ entries)
    <3>1. fresh \cap entries = entries
      BY <1>3
    <3>2. Cardinality(fresh \ entries) = Cardinality(fresh) - Cardinality(fresh \cap entries)
          /\ IsFiniteSet(fresh \ entries)
      BY <1>1, FS_Difference
    <3> QED
      BY <3>1, <3>2
  <2> HIDE DEF fresh
  <2> QED
    BY <2>1, <2>2, FS_Subset, FS_CardinalityType
<1>5. Cardinality(open') <= nOpen - nOut + nIn /\ Cardinality(open') \in Nat
  <2>1. open' = (open \ exits) \cup entries
    BY DEF BarCommits
  <2>2. Cardinality(open \ exits) = nOpen - nOut
    <3>1. open \cap exits = exits
      BY <1>3
    <3>2. Cardinality(open \ exits) = Cardinality(open) - Cardinality(open \cap exits)
      BY <1>1, FS_Difference
    <3> QED
      BY <3>1, <3>2
  <2>3. /\ IsFiniteSet((open \ exits) \cup entries)
        /\ Cardinality((open \ exits) \cup entries) =
             Cardinality(open \ exits) + Cardinality(entries)
               - Cardinality((open \ exits) \cap entries)
        /\ IsFiniteSet((open \ exits) \cap entries)
    BY <1>1, FS_Union, FS_Intersection
  <2>4. /\ Cardinality((open \ exits) \cap entries) \in Nat
        /\ Cardinality((open \ exits) \cup entries) \in Nat
    BY <2>3, FS_CardinalityType
  <2> QED
    BY <1>2, <2>1, <2>2, <2>3, <2>4
<1>6. Cardinality(Rowless') <= nLost - nKept /\ Cardinality(Rowless') \in Nat
  <2>1. Rowless' \subseteq Rowless \ kept
    BY <1>3 DEF BarCommits, Rowless, TypeOK
  <2>2. Cardinality(Rowless \ kept) = nLost - nKept /\ IsFiniteSet(Rowless \ kept)
    <3>1. Rowless \cap kept = kept
      BY <1>3
    <3>2. Cardinality(Rowless \ kept) = Cardinality(Rowless) - Cardinality(Rowless \cap kept)
          /\ IsFiniteSet(Rowless \ kept)
      BY <1>1, FS_Difference
    <3> QED
      BY <3>1, <3>2
  <2> QED
    BY <2>1, <2>2, FS_Subset, FS_CardinalityType
<1>7. nIn + nOut + nKept > 0
  <2>1. nIn # 0 \/ nOut # 0 \/ nKept # 0
    BY <1>1, <1>3, FS_EmptySet
  <2> QED
    BY <1>2, <2>1
<1>8. Tradable = 2 * nFresh + nOpen + nLost
  BY DEF Tradable
<1>9. Tradable' = 2 * Cardinality(fresh') + Cardinality(open') + Cardinality(Rowless')
  BY DEF Tradable
<1> HIDE DEF nFresh, nOpen, nIn, nOut, nLost, nKept, fresh
<1> QED
  BY <1>2, <1>4, <1>5, <1>6, <1>7, <1>8, <1>9

\* Nothing else brings back a trade that was used or opens one in memory.
LEMMA TradesStay ==
    ASSUME IsFiniteSet(Trades), TypeOK, TypeOK',
           \A t \in Trades : db'[t] = "unused" => db[t] = "unused", open' \subseteq open,
           \A t \in open' : db[t] = "open" => db'[t] = "open"
    PROVE  Tradable' <= Tradable
<1> DEFINE fresh == {t \in Trades : db[t] = "unused"}
<1>1. /\ IsFiniteSet(fresh) /\ IsFiniteSet(open) /\ fresh' \subseteq fresh
      /\ IsFiniteSet(Rowless) /\ Rowless' \subseteq Rowless
  BY FS_Subset DEF TypeOK, Rowless
<1>2. /\ Cardinality(fresh') <= Cardinality(fresh) /\ Cardinality(open') <= Cardinality(open)
      /\ Cardinality(Rowless') <= Cardinality(Rowless)
      /\ IsFiniteSet(fresh') /\ IsFiniteSet(open') /\ IsFiniteSet(Rowless')
  BY <1>1, FS_Subset
<1>3. /\ Cardinality(fresh) \in Nat /\ Cardinality(fresh') \in Nat
      /\ Cardinality(open) \in Nat /\ Cardinality(open') \in Nat
      /\ Cardinality(Rowless) \in Nat /\ Cardinality(Rowless') \in Nat
  BY <1>1, <1>2, FS_CardinalityType
<1>4. Tradable = 2 * Cardinality(fresh) + Cardinality(open) + Cardinality(Rowless)
  BY DEF Tradable
<1>5. Tradable' = 2 * Cardinality(fresh') + Cardinality(open') + Cardinality(Rowless')
  BY DEF Tradable
<1> HIDE DEF fresh
<1> QED
  BY <1>2, <1>3, <1>4, <1>5

\* Steps that leave the worker where it is, and the trades and the order too.
LEMMA DistanceStays ==
    ASSUME IsFiniteSet(Cmds), IsFiniteSet(Trades), TypeOK, TypeOK', NEW c \in Cmds,
           batch' = batch, pc' = pc, open' = open,
           \A t \in Trades : db'[t] = "unused" => db[t] = "unused",
           \A t \in open : db[t] = "open" => db'[t] = "open",
           \A d \in batch \cup {c} : cmds'[d].created = cmds[d].created
    PROVE  Distance(c)' <= Distance(c)
<1>1. UpTo(c)' = UpTo(c)
  BY DEF UpTo, DrainedBefore
<1>2. Tradable' <= Tradable
  BY TradesStay
<1> QED
  BY <1>1, <1>2, DistanceType, DistanceTypeNext DEF Distance

\* Each step of the worker that does not fail: the command is answered, or
\* it is still accepted and nearer to its answer.
LEMMA WorkerComesNearer ==
    ASSUME IsFiniteSet(Cmds), IsFiniteSet(Trades), TypeOK, TypeOK', Fetched, WorkerStep,
           faults' = faults, NEW c \in Cmds, cmds[c].status = "pending"
    PROVE  \/ cmds'[c].status \in Finished
           \/ cmds'[c].status = "pending" /\ Distance(c)' < Distance(c)
<1> DEFINE Goal == \/ cmds'[c].status \in Finished
                   \/ cmds'[c].status = "pending" /\ Distance(c)' < Distance(c)
<1>1. /\ Cardinality(Cmds) \in Nat /\ Cardinality(batch) \in Nat
      /\ Cardinality(UpTo(c)) \in 0..Cardinality(Cmds) /\ Tradable \in Nat
      /\ Distance(c) \in Nat
      /\ Cardinality(batch') \in Nat /\ Cardinality(UpTo(c)') \in 0..Cardinality(Cmds)
      /\ Tradable' \in Nat /\ Distance(c)' \in Nat
  BY DistanceType, DistanceTypeNext
<1>2. ASSUME batch = {}, batch' = {}, UNCHANGED <<cmds, db, open>>,
             \/ pc = "down" /\ pc' = "booted"
             \/ pc = "booted" /\ pc' \in {"announce", "warmup"}
             \/ pc = "warmup" /\ pc' = "announce"
             \/ pc \in {"announce", "publish"} /\ pc' = "idle"
             \/ pc = "drain" /\ pc' \in {"bars", "publish"}
             \/ pc = "bars" /\ pc' = "publish"
      PROVE  Goal
  <2>1. Tradable' = Tradable /\ Cardinality(batch) = 0
    BY <1>2, FS_EmptySet DEF Tradable, Rowless
  <2>2. Distance(c)' < Distance(c)
    BY <1>1, <1>2, <2>1 DEF Distance
  <2> QED
    BY <1>2, <2>2
<1>3. ASSUME \/ \E read \in BOOLEAN : WorkerBoot(read) \/ WorkerStart(read)
             \/ \E healthy \in BOOLEAN : Warmup(healthy)
             \/ \E valid \in {"all", "some", "none"} : CheckFeeds(valid)
             \/ BarsDone \/ Publish \/ Announce
      PROVE  Goal
  <2>1. batch = {} /\ batch' = {} /\ UNCHANGED <<cmds, db>>
    BY <1>3 DEF Fetched, WorkerBoot, WorkerStart, Warmup, CheckFeeds, BarsDone, Publish,
       Announce, dbVars
  <2>2. CASE \E read \in BOOLEAN : WorkerBoot(read)
    BY <1>1, <2>1, <2>2 DEF WorkerBoot, Distance
  <2>3. CASE ~\E read \in BOOLEAN : WorkerBoot(read)
    <3>1. /\ open' = open
          /\ \/ pc = "booted" /\ pc' \in {"announce", "warmup"}
             \/ pc = "warmup" /\ pc' = "announce"
             \/ pc \in {"announce", "publish"} /\ pc' = "idle"
             \/ pc = "drain" /\ pc' \in {"bars", "publish"}
             \/ pc = "bars" /\ pc' = "publish"
      BY <1>3, <2>3 DEF WorkerStart, Warmup, CheckFeeds, BarsDone, Publish, Announce
    <3> QED
      BY <1>2, <2>1, <3>1
  <2> QED
    BY <2>2, <2>3
<1>4. ASSUME Drain PROVE Goal
  <2>1. c \notin batch /\ c \in batch' /\ pc = "idle" /\ pc' = "drain" /\ cmds' = cmds
    BY <1>4 DEF Drain, Fetched, dbVars, WithStatus
  <2>2. Distance(c)' = 2 * Cardinality(UpTo(c)') + 1
    BY <2>1 DEF Distance
  <2>3. Distance(c) = 2 * Cardinality(Cmds) + 2
    BY <2>1, <1>1 DEF Distance
  <2> QED
    BY <1>1, <2>1, <2>2, <2>3
<1>5. ASSUME NEW d \in Cmds, ApplyHalt(d) \/ ApplyResume(d) \/ ApplyClose(d) \/ ApplyReset(d)
      PROVE  Goal
  <2>1. /\ batch' = batch /\ pc = "drain" /\ pc' = "ack" /\ cmds' = cmds
        /\ open' \subseteq open /\ \A t \in Trades : db'[t] = "unused" => db[t] = "unused"
        /\ \A t \in open' : db[t] = "open" => db'[t] = "open"
    BY <1>5 DEF ApplyHalt, ApplyResume, ApplyClose, ApplyReset, Applying, dbVars, TypeOK
  <2>2. UpTo(c)' = UpTo(c) /\ Tradable' <= Tradable
    BY <2>1, TradesStay DEF UpTo, DrainedBefore
  <2>3. Distance(c)' < Distance(c)
    BY <1>1, <2>1, <2>2 DEF Distance
  <2> QED
    BY <2>1, <2>3
<1>6. ASSUME NEW d \in Cmds, Ack(d) PROVE Goal
  <2>1. CASE c = d
    BY <1>6, <2>1 DEF Ack, Answered, TypeOK
  <2>2. CASE c # d
    <3>1. /\ cmds'[c] = cmds[c] /\ pc = "ack" /\ pc' = "drain" /\ open' = open /\ db' = db
          /\ c \notin batch => c \notin batch'
      BY <1>6, <2>2 DEF Ack, TypeOK
    <3>2. /\ Cardinality(batch') = Cardinality(batch) - 1
          /\ c \in batch => c \in batch' /\ Cardinality(UpTo(c))' = Cardinality(UpTo(c)) - 1
      BY <1>6, <2>2, AckShortens
    <3>3. Tradable' = Tradable
      BY <3>1 DEF Tradable, Rowless
    <3>4. Distance(c)' < Distance(c)
      BY <1>1, <3>1, <3>2, <3>3 DEF Distance
    <3> QED
      BY <3>1, <3>4
  <2> QED
    BY <2>1, <2>2
<1>7. ASSUME NEW exits \in SUBSET Trades, NEW kept \in SUBSET Trades,
           NEW entries \in SUBSET Trades,
             BarCommits(exits, kept, entries)
      PROVE  Goal
  <2>1. Tradable' < Tradable
    BY <1>7, BarsUseUp
  <2>2. pc = "bars" /\ pc' = "bars" /\ batch = {} /\ batch' = {} /\ cmds' = cmds
    BY <1>7 DEF BarCommits, BarOutcome, Fetched
  <2> QED
    BY <1>1, <2>1, <2>2 DEF Distance
<1>8. /\ ~AbortCycle
      /\ \A exits, entries \in SUBSET Trades : ~BarFails(exits, entries)
  BY DEF AbortCycle, BarFails, TypeOK
<1> HIDE DEF Goal
<1>9. Goal
  BY <1>3, <1>4, <1>5, <1>6, <1>7, <1>8 DEF WorkerStep, ApplyFails, CycleFails
<1> QED
  BY <1>9 DEF Goal

\* Every other step leaves an accepted command accepted, and no further off.
LEMMA OthersPutNothingOff ==
    ASSUME IsFiniteSet(Cmds), IsFiniteSet(Trades), TypeOK, TypeOK', Fetched,
           Tick \/ ApiStep \/ UNCHANGED vars, NEW c \in Cmds, cmds[c].status = "pending"
    PROVE  cmds'[c].status = "pending" /\ Distance(c)' <= Distance(c)
<1>1. CASE Tick \/ UNCHANGED vars
  BY <1>1, DistanceStays DEF Tick, vars, dbVars, workerVars
<1>2. CASE ApiStep
  <2>1. /\ batch' = batch /\ pc' = pc /\ open' = open
        /\ \A d \in batch \cup {c} : cmds'[d] = cmds[d]
    BY <1>2, ApiFrame DEF workerVars, Fetched, TypeOK
  <2>2. \A t \in Trades : /\ db'[t] = "unused" => db[t] = "unused"
                          /\ db[t] = "open" => db'[t] = "open"
    BY <1>2 DEF ApiStep, ApiEnqueue, ApiCommit, ApiRefused, ApiFinish, ApiClearHistory,
       ApiCrash, TypeOK
  <2> QED
    BY <2>1, <2>2, DistanceStays DEF TypeOK
<1> QED
  BY <1>1, <1>2

(* What the liveness of the commands rests on, for any number of them: an   *)
(* accepted command has a distance from its answer that every step of the   *)
(* worker makes shorter and no step of the API or the clock makes longer,   *)
(* until it is answered or the worker fails or dies.                        *)
THEOREM AnswersAdvance ==
    ASSUME IsFiniteSet(Cmds), IsFiniteSet(Trades)
    PROVE  Spec => AnswersComeNearer
<1>1. ASSUME TypeOK, Fetched, TypeOK', [Next]_vars, NEW c \in WithStatus({"pending"}),
             faults' = faults, ~WorkerCrash
      PROVE  Nearer(c)
  <2>1. c \in Cmds /\ cmds[c].status = "pending"
    BY DEF WithStatus
  <2>2. Distance(c) \in Nat /\ Distance(c)' \in Nat
    BY <1>1, <2>1, DistanceType, DistanceTypeNext
  <2>3. CASE WorkerStep
    BY <1>1, <2>1, <2>2, <2>3, WorkerComesNearer DEF Nearer
  <2>4. CASE ~WorkerStep
    BY <1>1, <2>1, <2>4, OthersPutNothingOff DEF Nearer, Next
  <2> QED
    BY <2>3, <2>4
<1>2. TypeOK /\ Fetched /\ TypeOK' /\ [Next]_vars =>
        [\A c \in WithStatus({"pending"}) : faults' = faults /\ ~WorkerCrash => Nearer(c)]_vars
  BY <1>1
<1> QED
  BY <1>2, FetchedAlways, TypeCorrect, PTL DEF Spec, AnswersComeNearer

=============================================================================
