------------------------- MODULE ConfigRevisionsProofs ------------------------
(***************************************************************************)
(* Theorems about the revisions of the configuration.                      *)
(***************************************************************************)
EXTENDS ConfigRevisions, DataInduction, TLAPS

-----------------------------------------------------------------------------
(* Configuration revisions, for any number of requests that overlap and     *)
(* share milliseconds as they may.                                          *)

LEMMA TypeInit == Init => TypeOK
  BY RevisionsAssumption DEF Init, TypeOK, Phases, Configs, Engines

LEMMA TypeStep == TypeOK /\ [Next]_vars => TypeOK'
<1> SUFFICES ASSUME TypeOK, [Next]_vars PROVE TypeOK'
  OBVIOUS
<1> USE RevisionsAssumption DEF TypeOK, Phases, Configs, tables, memory, budget
<1>1. CASE UNCHANGED vars
  BY <1>1 DEF vars
<1>2. CASE Tick
  BY <1>2 DEF Tick
<1>3. ASSUME NEW c \in Requests, NEW r \in 0..Cardinality(Requests), CheckRequest(c, r)
      PROVE  TypeOK'
  <2>1. expected' \in [Requests -> Nat] /\ created' \in [Requests -> Nat]
        /\ phase' \in [Requests -> Phases]
    BY <1>3 DEF CheckRequest
  <2> QED
    BY <1>3, <2>1 DEF CheckRequest
<1>4. ASSUME NEW c \in Requests, InsertRequest(c)
      PROVE  TypeOK'
  BY <1>4 DEF InsertRequest
<1>5. CASE Start
  <2>1. object' \in [Engines -> Configs] /\ own' \in Configs /\ shared' \in BOOLEAN
    <3>1. CASE active = {}
      BY <1>5, <3>1 DEF Start
    <3>2. ASSUME NEW c \in active, own' = c, shared' = FALSE,
                 object' = [e \in Engines |-> IF e = "master" THEN c ELSE Default]
          PROVE  object' \in [Engines -> Configs] /\ own' \in Configs /\ shared' \in BOOLEAN
      BY <3>2
    <3> QED
      BY <1>5, <3>1, <3>2 DEF Start
  <2>2. UNCHANGED <<now, tables, batch, latest, budget>> /\ pc' = "idle"
    BY <1>5 DEF Start
  <2> QED
    BY <2>1, <2>2
<1>6. CASE Drain \/ CycleEnds \/ CycleFails
  <2>1. CASE Drain
    BY <2>1 DEF Drain, WithPhase
  <2>2. CASE CycleEnds
    BY <2>2 DEF CycleEnds
  <2>3. CASE CycleFails
    BY <2>3 DEF CycleFails
  <2> QED
    BY <1>6, <2>1, <2>2, <2>3
<1>7. ASSUME NEW c \in Requests, Apply(c)
      PROVE  TypeOK'
  BY <1>7 DEF Apply
<1>8. ASSUME NEW c \in Requests, Activate(c) \/ Ack(c)
      PROVE  TypeOK'
  BY <1>8 DEF Activate, Ack
<1>9. CASE Crash
  BY <1>9 DEF Crash
<1> QED
  BY <1>1, <1>2, <1>3, <1>4, <1>5, <1>6, <1>7, <1>8, <1>9 DEF Next, ApiStep, WorkerStep

(* Tables and memory of the configuration are well-typed in every reachable *)
(* state (routes.py update_config, worker.py).                              *)
THEOREM TypeCorrect == Spec => []TypeOK
<1> QED
  BY TypeInit, TypeStep, PTL DEF Spec

-----------------------------------------------------------------------------
(* The order of the revisions. *)

LEMMA RevisionInit == Init => RevisionInv
  BY TypeInit DEF Init, RevisionInv, ConfirmedInOrder, Numbered, BatchShape, PendingLater,
     CurrentShape, WithPhase, Inserted, IsLast

\* Steps that leave the tables alone leave what is said about them alone.
LEMMA SameTables ==
    ASSUME RevisionInv, UNCHANGED <<tables, latest>>
    PROVE  (ConfirmedInOrder /\ Numbered /\ PendingLater)'
<1>1. \A s : WithPhase(s)' = WithPhase(s)
  BY DEF WithPhase, tables
<1>2. Inserted' = Inserted
  BY <1>1 DEF Inserted
<1> QED
  BY <1>1, <1>2 DEF RevisionInv, ConfirmedInOrder, PendingLater, Numbered, IsLast, tables

LEMMA RevisionApi ==
    ASSUME RevisionInv, ApiStep, TypeOK'
    PROVE  RevisionInv'
<1>1. /\ UNCHANGED <<active, pc, batch, own, latest>>
      /\ \A c \in Inserted : phase'[c] = phase[c] /\ rev'[c] = rev[c] /\ created'[c] = created[c]
      /\ \A c \in Requests : c \in WithPhase({"pending"})' =>
            c \in WithPhase({"pending"}) \/ (rev'[c] = lastRev + 1 /\ c \notin Inserted)
      /\ WithPhase({"applied"})' = WithPhase({"applied"})
  BY ZenonT(40) DEF ApiStep, CheckRequest, InsertRequest, memory, Inserted, WithPhase,
     RevisionInv, TypeOK
<1>2. Inserted \subseteq Inserted' /\ WithPhase({"pending"}) \subseteq WithPhase({"pending"})'
  BY <1>1 DEF Inserted, WithPhase, RevisionInv, TypeOK
<1>3. Numbered'
  <2>1. ASSUME NEW c \in Requests, NEW r \in 0..Cardinality(Requests), CheckRequest(c, r)
        PROVE  Numbered'
    BY <2>1 DEF CheckRequest, Numbered, RevisionInv
  <2>2. ASSUME NEW c \in Requests, InsertRequest(c)
        PROVE  Numbered'
    BY <2>2 DEF InsertRequest, Numbered, RevisionInv, TypeOK
  <2> QED
    BY <2>1, <2>2 DEF ApiStep
<1>4. \A c \in active : /\ c \in Inserted /\ rev'[c] = rev[c] /\ created'[c] = created[c]
                        /\ rev[c] <= lastRev
  BY <1>1 DEF RevisionInv, PendingLater, Numbered, TypeOK
<1>5. ConfirmedInOrder' /\ PendingLater'
  <2>1. ConfirmedInOrder'
    BY <1>1, <1>4 DEF RevisionInv, ConfirmedInOrder, IsLast
  <2>2. /\ active' \subseteq Inserted'
        /\ active' # {} => latest' \in active'
    BY <1>1, <1>2 DEF RevisionInv, PendingLater
  <2>3. ASSUME NEW c \in WithPhase({"pending"})', NEW d \in active'
        PROVE  rev'[d] <= rev'[c] \/ created'[d] <= created'[c]
    <3>1. /\ d \in active /\ rev'[d] = rev[d] /\ created'[d] = created[d] /\ rev[d] <= lastRev
          /\ c \in Requests /\ rev[d] \in Nat /\ lastRev \in Nat
      BY <1>1, <1>4, <2>3 DEF RevisionInv, TypeOK, WithPhase
    <3>2. CASE c \in WithPhase({"pending"})
      BY <1>1, <3>1, <3>2 DEF RevisionInv, PendingLater, Inserted, WithPhase
    <3>3. CASE c \notin WithPhase({"pending"})
      BY <1>1, <2>3, <3>1, <3>3
    <3> QED
      BY <3>2, <3>3
  <2> QED
    BY <2>1, <2>2, <2>3 DEF PendingLater
<1>6. batch \subseteq WithPhase({"pending"}) /\ WithPhase({"pending"}) \subseteq Inserted
  BY DEF RevisionInv, BatchShape, Inserted, WithPhase
<1>7. BatchShape'
  <2>1. \A c \in batch : rev'[c] = rev[c] /\ rev[c] <= lastRev
    BY <1>1, <1>6 DEF RevisionInv, Numbered, WithPhase
  <2>2. \A d \in Requests : d \in WithPhase({"pending"}) => rev'[d] = rev[d]
    BY <1>1, <1>6
  <2> QED
    BY <1>1, <1>2, <1>6, <2>1, <2>2 DEF RevisionInv, BatchShape, TypeOK, WithPhase
<1>8. CurrentShape'
  BY <1>1, <1>6 DEF RevisionInv, CurrentShape, IsCurrent, DrainedBefore
<1>9. Running => Running'
  BY <1>1, <1>2, <1>4 DEF Running, IsLast
<1> QED
  BY <1>1, <1>3, <1>5, <1>7, <1>8, <1>9 DEF RevisionInv

\* What stands first in the batch is the only one that does, is later than all
\* that is active, and everything that is pending is later than it.
LEMMA CurrentIsFirst ==
    ASSUME RevisionInv, NEW c \in Requests, IsCurrent(c)
    PROVE  /\ c \in WithPhase({"pending"}) /\ c \in Inserted
           /\ \A d \in WithPhase({"pending"}) :
                 rev[c] <= rev[d] \/ created[c] <= created[d]
           /\ \A d \in active : rev[d] <= rev[c] \/ created[d] <= created[c]
           /\ \A d \in Requests : IsCurrent(d) => d = c
<1>1. c \in batch /\ c \in WithPhase({"pending"}) /\ c \in Inserted
  BY DEF IsCurrent, RevisionInv, BatchShape, Inserted, WithPhase
<1>2. \A d \in Requests : rev[d] \in Nat /\ created[d] \in Nat /\ d \in Nat
  BY RevisionsAssumption DEF RevisionInv, TypeOK
<1>3. ASSUME NEW d \in WithPhase({"pending"})
      PROVE  rev[c] <= rev[d] \/ created[c] <= created[d]
  <2>1. d \in Requests
    BY DEF WithPhase
  <2>2. CASE d \in batch
    BY <1>2, <2>1, <2>2 DEF IsCurrent, DrainedBefore
  <2>3. CASE d \notin batch
    BY <1>1, <1>2, <2>1, <2>3 DEF RevisionInv, BatchShape
  <2> QED
    BY <2>2, <2>3
<1>4. \A d \in Requests : IsCurrent(d) => d = c
  BY <1>2 DEF IsCurrent, DrainedBefore
<1> QED
  BY <1>1, <1>3, <1>4 DEF RevisionInv, PendingLater

LEMMA RevisionWorker ==
    ASSUME RevisionInv, WorkerStep, TypeOK'
    PROVE  RevisionInv'
<1>1. CASE Start
  <2>1. UNCHANGED <<tables, latest, now, batch>> /\ pc' = "idle" /\ now \in Nat /\ batch = {}
    BY <1>1 DEF Start, RevisionInv, TypeOK, BatchShape
  <2>2. (ConfirmedInOrder /\ Numbered /\ PendingLater)'
    BY <2>1, SameTables
  <2>3. BatchShape' /\ CurrentShape'
    BY <2>1 DEF BatchShape, CurrentShape
  <2>4. Running'
    <3>1. \A c \in active : IsNewest(c) => IsLast(c)
      BY DEF IsNewest, IsLast
    <3> QED
      BY <1>1, <3>1 DEF Start, Running, IsLast, tables
  <2> QED
    BY <2>2, <2>3, <2>4 DEF RevisionInv
<1>2. CASE Drain
  <2>1. UNCHANGED <<tables, latest, now, own>> /\ pc' = "drain" /\ now \in Nat
        /\ batch' = WithPhase({"pending"}) /\ pc = "idle"
    BY <1>2 DEF Drain, RevisionInv, TypeOK, memory
  <2>2. (ConfirmedInOrder /\ Numbered /\ PendingLater)'
    BY <2>1, SameTables
  <2>3. BatchShape' /\ CurrentShape' /\ Running'
    BY <2>1 DEF BatchShape, CurrentShape, Running, RevisionInv, tables, WithPhase, IsLast
  <2> QED
    BY <2>2, <2>3 DEF RevisionInv
<1>3. ASSUME NEW c \in Requests, Apply(c)
      PROVE  RevisionInv'
  <2>1. UNCHANGED <<tables, latest, now, batch>> /\ pc' = "activate" /\ now \in Nat
        /\ own' = c /\ IsCurrent(c) /\ pc = "drain"
    BY <1>3 DEF Apply, RevisionInv, TypeOK
  <2>2. (ConfirmedInOrder /\ Numbered /\ PendingLater)'
    BY <2>1, SameTables
  <2>3. BatchShape' /\ CurrentShape'
    BY <2>1 DEF BatchShape, CurrentShape, IsCurrent, DrainedBefore, RevisionInv, tables, WithPhase
  <2>4. Running'
    BY <2>1, CurrentIsFirst DEF Running, WithPhase, tables
  <2> QED
    BY <2>2, <2>3, <2>4 DEF RevisionInv
<1>4. ASSUME NEW c \in Requests, Activate(c)
      PROVE  RevisionInv'
  <2>1. /\ UNCHANGED <<now, phase, expected, created, rev, lastRev, batch, own>>
        /\ active' = active \cup {c} /\ pc' = "ack" /\ pc = "activate" /\ IsCurrent(c)
        /\ latest' = IF c \in active THEN latest ELSE c
    BY <1>4 DEF Activate, memory
  <2>2. /\ c \in WithPhase({"pending"}) /\ c \in Inserted
        /\ \A d \in WithPhase({"pending"}) : rev[c] <= rev[d] \/ created[c] <= created[d]
        /\ \A d \in active : rev[d] <= rev[c] \/ created[d] <= created[c]
        /\ \A d \in Requests : IsCurrent(d) => d = c
    BY <2>1, CurrentIsFirst
  <2>3. own = c
    BY <2>1, <2>2 DEF RevisionInv, CurrentShape, BatchShape, WithPhase
  <2>4. \A d \in Requests : rev[d] \in Nat /\ created[d] \in Nat
    BY DEF RevisionInv, TypeOK
  <2>5. Numbered' /\ BatchShape'
    BY <2>1 DEF RevisionInv, Numbered, BatchShape, Inserted, WithPhase
  <2>6. PendingLater'
    BY <2>1, <2>2, <2>4 DEF RevisionInv, PendingLater, Inserted, WithPhase
  <2>7. IsLast(c)'
    BY <2>1, <2>2, <2>4 DEF IsLast
  <2>8. ConfirmedInOrder'
    <3>1. CASE c \in active
      <4>1. active' = active /\ latest' = latest
        BY <2>1, <3>1
      <4> QED
        BY <2>1, <4>1 DEF RevisionInv, ConfirmedInOrder, IsLast, WithPhase
    <3>2. CASE c \notin active
      BY <2>1, <2>7, <3>2 DEF RevisionInv, ConfirmedInOrder, WithPhase
    <3> QED
      BY <3>1, <3>2
  <2>9. CurrentShape'
    BY <2>1, <2>3 DEF CurrentShape, IsCurrent, DrainedBefore
  <2>10. Running'
    BY <2>1, <2>3, <2>7 DEF Running, IsLast
  <2> QED
    BY <2>5, <2>6, <2>8, <2>9, <2>10 DEF RevisionInv
<1>5. ASSUME NEW c \in Requests, Ack(c)
      PROVE  RevisionInv'
  <2>1. /\ UNCHANGED <<now, expected, created, rev, lastRev, active, own, latest>>
        /\ phase' = [phase EXCEPT ![c] = "applied"] /\ batch' = batch \ {c}
        /\ pc' = "drain" /\ pc = "ack" /\ IsCurrent(c)
    BY <1>5 DEF Ack, memory
  <2>2. /\ c \in WithPhase({"pending"}) /\ c \in Inserted
        /\ \A d \in WithPhase({"pending"}) : rev[c] <= rev[d] \/ created[c] <= created[d]
        /\ \A d \in active : rev[d] <= rev[c] \/ created[d] <= created[c]
        /\ \A d \in Requests : IsCurrent(d) => d = c
    BY <2>1, CurrentIsFirst
  <2>3. own = c /\ c \in active
    BY <2>1, <2>2 DEF RevisionInv, CurrentShape, BatchShape, WithPhase
  <2>4. /\ Inserted' = Inserted
        /\ WithPhase({"pending"})' = WithPhase({"pending"}) \ {c}
        /\ WithPhase({"applied"})' = WithPhase({"applied"}) \cup {c}
    BY <2>1, <2>2 DEF Inserted, WithPhase, RevisionInv, TypeOK
  <2>5. Numbered'
    BY <2>1 DEF RevisionInv, Numbered
  <2>6. BatchShape' /\ PendingLater'
    BY <2>1, <2>4 DEF RevisionInv, BatchShape, PendingLater
  <2>7. ConfirmedInOrder'
    BY <2>1, <2>3, <2>4 DEF RevisionInv, ConfirmedInOrder, IsLast
  <2>8. CurrentShape' /\ Running'
    BY <2>1, <2>2, <2>3 DEF CurrentShape, Running, IsLast
  <2> QED
    BY <2>5, <2>6, <2>7, <2>8 DEF RevisionInv
<1>6. CASE CycleEnds \/ CycleFails
  <2>1. UNCHANGED <<tables, latest, now, own>> /\ pc' = "idle" /\ now \in Nat /\ batch' = {}
        /\ pc # "down"
    BY <1>6 DEF CycleEnds, CycleFails, RevisionInv, TypeOK, memory
  <2>2. (ConfirmedInOrder /\ Numbered /\ PendingLater)'
    BY <2>1, SameTables
  <2>3. BatchShape' /\ CurrentShape'
    BY <2>1 DEF BatchShape, CurrentShape
  <2>4. Running'
    BY <2>1 DEF RevisionInv, Running, IsLast, WithPhase, tables
  <2> QED
    BY <2>2, <2>3, <2>4 DEF RevisionInv
<1> QED
  BY <1>1, <1>2, <1>3, <1>4, <1>5, <1>6 DEF WorkerStep

LEMMA RevisionStep ==
    ASSUME RevisionInv, [Next]_vars
    PROVE  RevisionInv'
<1>1. TypeOK'
  BY TypeStep DEF RevisionInv
<1>2. CASE ApiStep
  BY <1>1, <1>2, RevisionApi
<1>3. CASE WorkerStep
  BY <1>1, <1>3, RevisionWorker
<1>4. CASE Tick \/ Crash \/ UNCHANGED vars
  <2>1. UNCHANGED <<tables, latest>> /\ now' \in Nat /\ now <= now'
    BY <1>4 DEF Tick, Crash, vars, RevisionInv, TypeOK
  <2>2. (ConfirmedInOrder /\ Numbered /\ PendingLater)'
    BY <2>1, SameTables
  <2>3. (BatchShape /\ CurrentShape /\ (pc # "down" => Running))'
    BY <1>4 DEF Tick, Crash, vars, tables, memory, RevisionInv, BatchShape, CurrentShape, Running,
       IsCurrent, DrainedBefore, IsLast, WithPhase
  <2> QED
    BY <1>1, <2>2, <2>3 DEF RevisionInv
<1> QED
  BY <1>2, <1>3, <1>4 DEF Next

(* What is marked, run and waiting never falls behind an active revision in *)
(* both number and stamp, whatever fails, restarts or overlaps.             *)
THEOREM RevisionsInvariant == Spec => []RevisionInv
<1>1. RevisionInv /\ [Next]_vars => RevisionInv'
  BY RevisionStep
<1> QED
  BY RevisionInit, <1>1, PTL DEF Spec

(* Between two cycles the worker runs the last active revision by number or *)
(* by stamp, or one it could not mark yet (worker.py set_config branch and  *)
(* _restore_persisted_state).                                               *)
THEOREM RunsActive == Spec => []WorkerRunsActive
<1>1. RevisionInv => WorkerRunsActive
  BY DEF RevisionInv, Running, WorkerRunsActive
<1> QED
  BY <1>1, RevisionsInvariant, PTL

(* No revision that is older in number and stamp is activated after a newer *)
(* one, through every failure and restart (the drain of set_config).        *)
THEOREM ConfirmsInOrder == Spec => []ConfirmedInOrder
<1>1. RevisionInv => ConfirmedInOrder
  BY DEF RevisionInv
<1> QED
  BY <1>1, RevisionsInvariant, PTL

-----------------------------------------------------------------------------
(* How far a revision is from its confirmation. *)

UpTo(c) == {d \in batch : d = c \/ DrainedBefore(d, c)}

\* Steps that the current command of the batch still needs.
Left == CASE pc = "activate" -> 1 [] pc = "ack" -> 0 [] OTHER -> 2

\* Steps of the worker until c is confirmed, at most: those of the commands
\* before it, and before the drain that fetches it those of the batch under way.
Distance(c) ==
    IF c \in batch THEN 3 * Cardinality(UpTo(c)) + Left
    ELSE 3 * Cardinality(Requests) + 3
         + CASE pc = "idle" -> 0
             [] pc = "down" -> 1
             [] OTHER -> 1 + 3 * Cardinality(batch) + Left

Nearer(c) ==
    \/ phase'[c] = "applied"
    \/ /\ phase'[c] = "pending"
       /\ Distance(c)' <= Distance(c)
       /\ WorkerStep => Distance(c)' < Distance(c)

(* Whatever else happens between two failures: a request that has been      *)
(* accepted stays accepted until it is confirmed, every step of the worker  *)
(* brings its confirmation nearer, and no other step puts it off.           *)
RevisionsComeNearer ==
    [][\A c \in WithPhase({"pending"}) : budget' = budget => Nearer(c)]_vars

(* The worker always has a step: a batch has a first command.               *)
WorkerHasStep ==
    /\ pc = "drain" /\ batch # {} => \E c \in batch : IsCurrent(c)
    /\ pc \in {"activate", "ack"} => \E c \in batch : IsCurrent(c)

\* What the drain holds is pending, and one of it is being worked on.
Fetched ==
    /\ \A c \in batch : phase[c] = "pending"
    /\ pc \in {"down", "idle"} => batch = {}
    /\ pc \in {"activate", "ack"} => batch # {}
LEMMA FetchedStep == TypeOK /\ Fetched /\ [Next]_vars => Fetched'
<1> SUFFICES ASSUME TypeOK, Fetched, [Next]_vars PROVE Fetched'
  OBVIOUS
<1> USE DEF Fetched, WithPhase
<1>1. ASSUME Tick \/ UNCHANGED vars PROVE Fetched'
  BY <1>1 DEF Tick, vars, tables, memory, budget
<1>2. ASSUME NEW c \in Requests, NEW r \in Nat, CheckRequest(c, r) \/ InsertRequest(c)
      PROVE  Fetched'
  <2>1. \A d \in batch : d # c
    BY <1>2 DEF CheckRequest, InsertRequest
  <2>2. \A d \in batch : phase'[d] = phase[d]
    BY <1>2, <2>1 DEF CheckRequest, InsertRequest, TypeOK
  <2> QED
    BY <1>2, <2>2 DEF CheckRequest, InsertRequest
<1>3. ASSUME Start \/ Drain \/ CycleEnds \/ CycleFails \/ Crash PROVE Fetched'
  BY <1>3 DEF Start, Drain, CycleEnds, CycleFails, Crash, tables
<1>4. ASSUME NEW c \in Requests, Apply(c) \/ Activate(c) PROVE Fetched'
  BY <1>4 DEF Apply, Activate, IsCurrent, tables
<1>5. ASSUME NEW c \in Requests, Ack(c) PROVE Fetched'
  BY <1>5 DEF Ack, TypeOK
<1>6. 0..Cardinality(Requests) \subseteq Nat
  OBVIOUS
<1> QED
  BY <1>1, <1>2, <1>3, <1>4, <1>5, <1>6 DEF Next, ApiStep, WorkerStep

LEMMA FetchedAlways == Spec => [](TypeOK /\ Fetched)
<1>1. Init => Fetched
  BY DEF Init, Fetched
<1>2. TypeOK /\ Fetched /\ [Next]_vars => Fetched'
  BY FetchedStep
<1> QED
  BY <1>1, <1>2, TypeCorrect, PTL DEF Spec

(* The drain of set_config commands never stands still: while it holds some *)
(* one of them is the next in the order of the batch (worker.py:274-277).   *)
THEOREM RevisionsHaveStep == Spec => []WorkerHasStep
<1>1. ASSUME TypeOK, Fetched, batch # {} PROVE \E c \in batch : IsCurrent(c)
  <2>1. batch \in SUBSET Nat /\ [c \in batch |-> created[c]] \in [batch -> Nat]
    BY <1>1, RevisionsAssumption DEF TypeOK
  <2>2. PICK c \in batch : \A d \in batch \ {c} :
            \/ [x \in batch |-> created[x]][c] < [x \in batch |-> created[x]][d]
            \/ ([x \in batch |-> created[x]][c] = [x \in batch |-> created[x]][d] /\ c < d)
    BY <1>1, <2>1, FirstInOrder
  <2> QED
    BY <2>2 DEF IsCurrent, DrainedBefore
<1>2. TypeOK /\ Fetched => WorkerHasStep
  BY <1>1 DEF WorkerHasStep, Fetched
<1> QED
  BY <1>2, FetchedAlways, PTL

\* The numbers a distance is made of.
LEMMA DistanceType ==
    ASSUME IsFiniteSet(Requests), TypeOK, NEW c \in Requests
    PROVE  /\ IsFiniteSet(batch) /\ IsFiniteSet(UpTo(c))
           /\ Cardinality(Requests) \in Nat /\ Cardinality(batch) \in Nat
           /\ Cardinality(UpTo(c)) \in 0..Cardinality(Requests)
           /\ Left \in 0..2 /\ Distance(c) \in Nat
<1>1. batch \in SUBSET Requests /\ UpTo(c) \in SUBSET Requests
  BY DEF TypeOK, UpTo
<1>2. /\ IsFiniteSet(batch) /\ IsFiniteSet(UpTo(c))
      /\ Cardinality(UpTo(c)) <= Cardinality(Requests)
  BY <1>1, FS_Subset
<1>3. /\ Cardinality(Requests) \in Nat /\ Cardinality(batch) \in Nat
      /\ Cardinality(UpTo(c)) \in Nat
  BY <1>2, FS_CardinalityType
<1>4. Left \in 0..2
  BY DEF Left
<1> QED
  BY <1>2, <1>3, <1>4 DEF Distance

\* What is before c in the batch, when another command of it is confirmed.
LEMMA AckShortens ==
    ASSUME IsFiniteSet(Requests), TypeOK, Fetched, NEW a \in Requests, Ack(a)
    PROVE  /\ Cardinality(batch') = Cardinality(batch) - 1
           /\ \A c \in batch \ {a} :
                 c \in batch' /\ Cardinality(UpTo(c))' = Cardinality(UpTo(c)) - 1
<1>1. batch' = batch \ {a} /\ a \in batch
  BY DEF Ack, IsCurrent
<1>2. ASSUME NEW c \in batch \ {a}
      PROVE  c \in batch' /\ Cardinality(UpTo(c))' = Cardinality(UpTo(c)) - 1
  <2>1. UpTo(c)' = UpTo(c) \ {a} /\ a \in UpTo(c)
    BY <1>1, <1>2 DEF UpTo, DrainedBefore, Ack, IsCurrent
  <2>2. c \in Requests
    BY DEF TypeOK
  <2> QED
    BY <1>1, <2>1, <2>2, DistanceType, FS_RemoveElement
<1>3. Cardinality(batch') = Cardinality(batch) - 1
  BY <1>1, DistanceType, FS_RemoveElement
<1> QED
  BY <1>2, <1>3

\* A step of the worker that does not fail takes it somewhere else.
LEMMA WorkerMoves ==
    ASSUME TypeOK, WorkerStep, budget' = budget
    PROVE  pc' # pc
<1>1. ~CycleFails
  BY DEF CycleFails, budget, TypeOK
<1> QED
  BY <1>1 DEF WorkerStep, Start, Drain, Apply, Activate, Ack, CycleEnds

LEMMA StepsComeNearer ==
    ASSUME IsFiniteSet(Requests), TypeOK, Fetched, TypeOK', [Next]_vars,
           NEW c \in Requests, phase[c] = "pending", budget' = budget
    PROVE  Nearer(c)
<1> USE DEF Nearer
<1>1. /\ Cardinality(Requests) \in Nat /\ Cardinality(batch) \in Nat
      /\ Cardinality(UpTo(c)) \in 0..Cardinality(Requests) /\ Distance(c) \in Nat
      /\ Cardinality(batch') \in Nat /\ Cardinality(UpTo(c)') \in 0..Cardinality(Requests)
      /\ Distance(c)' \in Nat
  <2>1. IsFiniteSet(batch') /\ IsFiniteSet(UpTo(c)')
        /\ Cardinality(UpTo(c)') <= Cardinality(Requests)
    BY FS_Subset DEF TypeOK, UpTo
  <2>2. /\ Cardinality(batch') \in Nat /\ Cardinality(UpTo(c)') \in Nat
        /\ Cardinality(Requests) \in Nat
    BY <2>1, FS_CardinalityType
  <2>3. Distance(c)' \in Nat
    BY <2>2 DEF Distance, Left
  <2> QED
    BY <2>1, <2>2, <2>3, DistanceType
\* Steps that leave the batch and the worker where they are.
<1>2. ASSUME batch' = batch, pc' = pc, phase'[c] = "pending",
             \A d \in batch \cup {c} : created'[d] = created[d]
      PROVE  phase'[c] = "pending" /\ Distance(c)' = Distance(c)
  <2>1. UpTo(c)' = UpTo(c)
    BY <1>2 DEF UpTo, DrainedBefore
  <2> QED
    BY <1>2, <2>1 DEF Distance, Left
<1>3. ASSUME Tick \/ UNCHANGED vars PROVE Nearer(c)
  <2>1. Distance(c)' = Distance(c) /\ phase'[c] = "pending"
    BY <1>2, <1>3 DEF Tick, vars, tables
  <2>2. ~WorkerStep
    BY <1>3, WorkerMoves DEF Tick, vars
  <2> QED
    BY <1>1, <2>1, <2>2
<1>4. ASSUME ApiStep PROVE Nearer(c)
  <2>1. PICK d \in Requests, r \in Nat : CheckRequest(d, r) \/ InsertRequest(d)
    BY <1>4 DEF ApiStep
  <2>2. d # c /\ d \notin batch
    BY <2>1 DEF CheckRequest, InsertRequest, Fetched
  <2>3. /\ batch' = batch /\ pc' = pc /\ phase'[c] = "pending"
        /\ \A e \in batch \cup {c} : created'[e] = created[e]
    BY <2>1, <2>2 DEF CheckRequest, InsertRequest, TypeOK
  <2>4. ~WorkerStep
    BY <2>3, WorkerMoves
  <2> QED
    BY <1>1, <1>2, <2>3, <2>4
<1>5. ASSUME Start PROVE Nearer(c)
  BY <1>1, <1>5 DEF Start, Distance, tables, Fetched
<1>6. ASSUME Drain PROVE Nearer(c)
  <2>1. c \notin batch /\ c \in batch' /\ pc = "idle" /\ pc' = "drain" /\ phase' = phase
    BY <1>6 DEF Drain, Fetched, tables, WithPhase
  <2>2. Distance(c)' = 3 * Cardinality(UpTo(c)') + 2
    BY <2>1 DEF Distance, Left
  <2>3. Distance(c) = 3 * Cardinality(Requests) + 3
    BY <2>1, <1>1 DEF Distance
  <2> QED
    BY <1>1, <2>1, <2>2, <2>3
<1>7. ASSUME NEW d \in Requests, Apply(d) \/ Activate(d) PROVE Nearer(c)
  <2>1. batch' = batch /\ UpTo(c)' = UpTo(c) /\ phase' = phase
    BY <1>7 DEF Apply, Activate, UpTo, DrainedBefore, tables
  <2>2. /\ (pc = "drain" /\ pc' = "activate") \/ (pc = "activate" /\ pc' = "ack")
        /\ pc # "idle" /\ pc # "down" /\ pc' # "idle" /\ pc' # "down"
    BY <1>7 DEF Apply, Activate
  <2>3. Left \in Nat /\ Left' = Left - 1
    BY <2>2 DEF Left
  <2> HIDE DEF Left
  <2> QED
    BY <1>1, <2>1, <2>2, <2>3 DEF Distance
<1>8. ASSUME NEW d \in Requests, Ack(d) PROVE Nearer(c)
  <2>1. CASE c = d
    BY <1>8, <2>1 DEF Ack, TypeOK
  <2>2. CASE c # d
    <3>1. phase'[c] = "pending" /\ pc = "ack" /\ pc' = "drain" /\ Left = 0 /\ Left' = 2
      BY <1>8, <2>2 DEF Ack, TypeOK, Left
    <3>2. Cardinality(batch') = Cardinality(batch) - 1
      BY <1>8, AckShortens
    <3>3. c \in batch => c \in batch' /\ Cardinality(UpTo(c))' = Cardinality(UpTo(c)) - 1
      BY <1>8, <2>2, AckShortens
    <3>4. c \notin batch => c \notin batch'
      BY <1>8 DEF Ack
    <3> HIDE DEF Left
    <3>5. Distance(c)' < Distance(c)
      BY <1>1, <3>1, <3>2, <3>3, <3>4 DEF Distance
    <3> QED
      BY <1>1, <3>1, <3>5
  <2> QED
    BY <2>1, <2>2
<1>9. ASSUME CycleEnds PROVE Nearer(c)
  <2>1. batch = {} /\ batch' = {} /\ pc = "drain" /\ pc' = "idle" /\ phase' = phase
    BY <1>9 DEF CycleEnds, tables
  <2> QED
    BY <1>1, <2>1 DEF Distance, Left
<1>10. ~CycleFails /\ ~Crash
  BY DEF CycleFails, Crash, budget, TypeOK
<1> QED
  BY <1>3, <1>4, <1>5, <1>6, <1>7, <1>8, <1>9, <1>10 DEF Next, WorkerStep

(* Between two failures the steps of the worker are all it takes: each of   *)
(* them brings the confirmation of every accepted revision nearer by one,   *)
(* and no request, no other revision and no tick of the clock puts it off,  *)
(* so that it comes if the worker goes on and the failures end.             *)
THEOREM RevisionsAdvance == ASSUME IsFiniteSet(Requests) PROVE Spec => RevisionsComeNearer
<1>1. ASSUME TypeOK, Fetched, TypeOK', [Next]_vars
      PROVE  [\A c \in WithPhase({"pending"}) : budget' = budget => Nearer(c)]_vars
  BY <1>1, StepsComeNearer DEF WithPhase
<1> QED
  BY <1>1, FetchedAlways, TypeCorrect, PTL DEF Spec, RevisionsComeNearer

-----------------------------------------------------------------------------
(* The two findings about revisions, from their other side.                *)

\* The object of the buddy's engine is the master's, or else the one of the
\* defaults; and it is the master's until a worker has died.
Objects ==
    /\ object["buddy"] = IF shared THEN object["master"] ELSE Default
    /\ crashes = 0 => shared /\ (pc = "down" => active = {})

(* Until a worker dies both engines trade with the same configuration.      *)
(* After a restart that restores one, the buddy trades with the defaults of *)
(* the constructor and keeps them, whatever is set later (worker.py:160).   *)
THEOREM BuddyHasDefaults == Spec => [](Objects /\ (shared => EnginesAgree))
<1>1. Init => Objects
  BY RevisionsAssumption DEF Init, Objects, Engines
<1>2. TypeOK /\ Objects /\ [Next]_vars => Objects'
  <2> SUFFICES ASSUME TypeOK, Objects, [Next]_vars PROVE Objects'
    OBVIOUS
  <2> USE DEF Objects
  <2>1. ASSUME Tick \/ ApiStep \/ Drain \/ CycleEnds \/ CycleFails \/ UNCHANGED vars
        PROVE  Objects'
    BY <2>1 DEF Tick, ApiStep, CheckRequest, InsertRequest, Drain, CycleEnds, CycleFails, vars,
       tables, memory, budget
  <2>2. ASSUME Start PROVE Objects'
    BY <2>2, RevisionsAssumption DEF Start, Engines, tables, budget
  <2>3. ASSUME NEW c \in Requests, Apply(c) PROVE Objects'
    BY <2>3 DEF Apply, Engines, TypeOK, tables, budget
  <2>4. ASSUME NEW c \in Requests, Activate(c) \/ Ack(c) PROVE Objects'
    BY <2>4 DEF Activate, Ack, memory, budget
  <2>5. ASSUME Crash PROVE Objects'
    BY <2>5 DEF Crash, Engines, TypeOK
  <2> QED
    BY <2>1, <2>2, <2>3, <2>4, <2>5 DEF Next, WorkerStep
<1>3. Objects => (shared => EnginesAgree)
  BY DEF Objects, EnginesAgree
<1> QED
  BY <1>1, <1>2, <1>3, TypeCorrect, PTL DEF Spec

=============================================================================
