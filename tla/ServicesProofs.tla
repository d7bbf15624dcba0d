---------------------------- MODULE ServicesProofs ----------------------------
(***************************************************************************)
(* Theorems about the services around the trading path: the schema of the  *)
(* database, whoever migrates it, the transactions of a connection whose   *)
(* blocks nest, what /ready reports, whom a session stands for, whom the   *)
(* limit on logins turns away, what an import leaves in the tables, which  *)
(* alerts are held back, what the cache of public data answers, and what   *)
(* the API shows of the trades; and that MCServices, which puts them side  *)
(* by side for TLC, is a behaviour of each of them.                        *)
(***************************************************************************)
EXTENDS MCServices, FiniteSetTheorems, SequenceTheorems, DataInduction, TLAPS

-----------------------------------------------------------------------------
(* Migrations. *)

\* The database is at version n.
AtVersion(n) ==
    /\ recorded = 1..n
    /\ objects = UNION {ObjectsOf(v) : v \in recorded}
    /\ \A v \in Versions : applied[v] = IF v \in recorded THEN 1 ELSE 0

(* Where each process is, measured by the version of the database: it has   *)
(* looked at an earlier version at the latest, so that the script it is at  *)
(* has run or is the next one.                                              *)
Placement(n) ==
    \A p \in Processes :
        /\ began[p] \in 0..n
        /\ stage[p] = "apply" => script[p] \in 1..(n + 1) /\ script[p] <= Supported[p]
        /\ stage[p] = "ready" => Supported[p] <= n /\ began[p] <= Supported[p]

MigTypes ==
    /\ stage \in [Processes -> {"read", "apply", "ready", "down", "refused"}]
    /\ script \in [Processes -> Nat]
    /\ applied \in [Versions -> Nat]
    /\ began \in [Processes -> Nat]

MigInv == MigTypes /\ \E n \in Nat : AtVersion(n) /\ Placement(n)

LEMMA VersionIs ==
    ASSUME NEW n \in Nat, recorded = 1..n
    PROVE  CurrentVersion = n
<1>1. CASE n = 0
  BY <1>1 DEF CurrentVersion
<1>2. CASE n > 0
  <2>1. n \in recorded /\ \A y \in recorded : n >= y
    BY <1>2
  <2>2. \A x \in recorded : (\A y \in recorded : x >= y) => x = n
    BY <1>2
  <2>3. Max(recorded) = n
    BY <2>1, <2>2 DEF Max
  <2> QED
    BY <2>1, <2>3 DEF CurrentVersion
<1> QED
  BY <1>1, <1>2

\* The version of the database never falls.
LEMMA PlacementGrows ==
    ASSUME NEW n \in Nat, Placement(n)
    PROVE  Placement(n + 1)
<1> SUFFICES ASSUME NEW p \in Processes
             PROVE  /\ began[p] \in 0..(n + 1)
                    /\ stage[p] = "apply" =>
                          script[p] \in 1..(n + 1 + 1) /\ script[p] <= Supported[p]
                    /\ stage[p] = "ready" => Supported[p] <= n + 1 /\ began[p] <= Supported[p]
  BY DEF Placement
<1>1. Supported[p] \in Nat
  BY MigrationAssumption
<1> QED
  BY <1>1 DEF Placement

\* A process goes to a script that has run already, to the next one, or on.
LEMMA GoToPlaces ==
    ASSUME MigTypes, NEW n \in Nat, NEW p \in Processes, NEW v \in 1..(n + 1),
           GoTo(p, v), began' = began, Placement(n),
           v > Supported[p] => began[p] <= Supported[p]
    PROVE  Placement(n)' /\ stage' \in [Processes -> {"read", "apply", "ready", "down", "refused"}]
           /\ script' \in [Processes -> Nat]
<1>1. /\ script' = [script EXCEPT ![p] = v]
      /\ stage' = [stage EXCEPT ![p] = IF v > Supported[p] THEN "ready" ELSE "apply"]
  BY DEF GoTo
<1>2. ASSUME NEW q \in Processes
      PROVE  /\ began'[q] \in 0..n
             /\ stage'[q] = "apply" => script'[q] \in 1..(n + 1) /\ script'[q] <= Supported[q]
             /\ stage'[q] = "ready" => Supported[q] <= n /\ began'[q] <= Supported[q]
  <2>1. CASE q = p
    <3>1. Supported[p] \in Nat
      BY MigrationAssumption
    <3>2. stage'[p] = (IF v > Supported[p] THEN "ready" ELSE "apply") /\ script'[p] = v
      BY <1>1 DEF MigTypes
    <3> QED
      BY <2>1, <3>1, <3>2 DEF Placement
  <2>2. CASE q # p
    BY <2>2, <1>1 DEF Placement, MigTypes
  <2> QED
    BY <2>1, <2>2
<1>3. /\ stage' \in [Processes -> {"read", "apply", "ready", "down", "refused"}]
      /\ script' \in [Processes -> Nat]
  BY <1>1 DEF MigTypes
<1> QED
  BY <1>2, <1>3 DEF Placement

\* A process that is set to a stage without a script has nothing to be placed.
LEMMA StagePlaces ==
    ASSUME MigTypes, NEW n \in Nat, NEW p \in Processes, Placement(n),
           NEW s \in {"read", "down", "refused"}, stage' = [stage EXCEPT ![p] = s],
           script' = script, began' = began \/ began' = [began EXCEPT ![p] = n]
    PROVE  /\ Placement(n)'
           /\ stage' \in [Processes -> {"read", "apply", "ready", "down", "refused"}]
           /\ began' \in [Processes -> Nat]
  BY DEF Placement, MigTypes

\* Nothing but the commit of a script changes what is in the database.
SameSchema == recorded' = recorded /\ objects' = objects /\ applied' = applied

LEMMA MigStep == MigInv /\ [MigNext]_migVars => MigInv'
<1> SUFFICES ASSUME MigInv, [MigNext]_migVars PROVE MigInv'
  OBVIOUS
<1>1. PICK n \in Nat : AtVersion(n) /\ Placement(n)
  BY DEF MigInv
<1>2. MigTypes /\ CurrentVersion = n
  BY <1>1, VersionIs DEF MigInv, AtVersion
<1>3. ASSUME SameSchema, Placement(n)', MigTypes' PROVE MigInv'
  BY <1>1, <1>3 DEF SameSchema, MigInv, AtVersion
<1>4. ASSUME NEW p \in Processes, Connecting(p) PROVE MigInv'
  <2>1. Placement(n)' /\ MigTypes' /\ SameSchema
    BY <1>1, <1>2, <1>4, StagePlaces DEF Connecting, MigTypes, SameSchema
  <2> QED
    BY <2>1, <1>3
<1>5. ASSUME NEW p \in Processes, ReadVersion(p) PROVE MigInv'
  <2>1. CASE TooNew(p, n)
    <3>1. Placement(n)' /\ MigTypes' /\ SameSchema
      BY <1>1, <1>2, <1>5, <2>1, StagePlaces DEF ReadVersion, MigTypes, SameSchema
    <3> QED
      BY <3>1, <1>3
  <2>2. CASE ~TooNew(p, n)
    <3>1. GoTo(p, n + 1) /\ began' = began /\ SameSchema
      BY <1>2, <1>5, <2>2 DEF ReadVersion, NextScript, SameSchema
    <3>2. began[p] <= Supported[p]
      BY <1>1, <2>2, MigrationAssumption DEF Placement, TooNew
    <3>3. Placement(n)' /\ MigTypes'
      BY <1>1, <1>2, <3>1, <3>2, GoToPlaces DEF MigTypes, SameSchema
    <3> QED
      BY <3>1, <3>3, <1>3
  <2> QED
    BY <2>1, <2>2
<1>6. ASSUME NEW p \in Processes, ReadFails(p) PROVE MigInv'
  <2>1. GoTo(p, 1) /\ began' = began /\ SameSchema
    BY <1>6 DEF ReadFails, NextScript, SameSchema
  <2>2. ~(1 > Supported[p]) /\ 1 \in 1..(n + 1)
    BY MigrationAssumption
  <2>3. Placement(n)' /\ MigTypes'
    BY <1>1, <1>2, <2>1, <2>2, GoToPlaces DEF MigTypes, SameSchema
  <2> QED
    BY <2>1, <2>3, <1>3
<1>7. ASSUME NEW p \in Processes, RunStatement(p) PROVE MigInv'
  <2>1. Placement(n)' /\ MigTypes' /\ SameSchema
    BY <1>1, <1>2, <1>7 DEF RunStatement, Placement, MigTypes, SameSchema
  <2> QED
    BY <2>1, <1>3
<1>8. ASSUME NEW p \in Processes, RolledBack(p) PROVE MigInv'
  <2>1. Placement(n)' /\ MigTypes' /\ SameSchema
    BY <1>1, <1>2, <1>8, StagePlaces DEF RolledBack, MigTypes, SameSchema
  <2> QED
    BY <2>1, <1>3
<1>9. ASSUME NEW p \in Processes, CommitScript(p) PROVE MigInv'
  <2> DEFINE v == script[p]
  <2>1. /\ stage[p] = "apply" /\ v \notin recorded
        /\ recorded' = recorded \cup {v} /\ objects' = objects \cup ObjectsOf(v)
        /\ applied' = [applied EXCEPT ![v] = @ + 1] /\ began' = began
        /\ GoTo(p, v + 1)
    BY <1>9 DEF CommitScript, Executing
  <2>2. v = n + 1 /\ v <= Supported[p] /\ Supported[p] \in Nat
    BY <1>1, <2>1, MigrationAssumption DEF Placement, AtVersion
  <2>3. recorded' = 1..(n + 1)
    BY <1>1, <2>1, <2>2 DEF AtVersion
  <2>4. objects' = UNION {ObjectsOf(u) : u \in recorded'}
    BY <1>1, <2>1 DEF AtVersion
  <2>5. applied' \in [Versions -> Nat] /\ \A u \in Versions : applied'[u] = IF u \in recorded' THEN 1 ELSE 0
    <3>1. ASSUME NEW u \in Versions
          PROVE  applied'[u] \in Nat /\ applied'[u] = IF u \in recorded' THEN 1 ELSE 0
      <4>1. applied \in [Versions -> Nat] /\ applied[u] = IF u \in recorded THEN 1 ELSE 0
        BY <1>1, <1>2 DEF AtVersion, MigTypes
      <4> HIDE DEF v
      <4>2. CASE u = v
        BY <2>1, <4>1, <4>2
      <4>3. CASE u # v
        BY <2>1, <4>1, <4>3
      <4> QED
        BY <4>2, <4>3
    <3>2. DOMAIN applied' = Versions /\ applied' = [u \in Versions |-> applied'[u]]
      BY <1>2, <2>1 DEF MigTypes
    <3> QED
      BY <3>1, <3>2
  <2>6. AtVersion(n + 1)'
    BY <2>3, <2>4, <2>5 DEF AtVersion, ObjectsOf
  <2>7. v + 1 \in 1..(n + 1 + 1) /\ n + 1 \in Nat /\ began[p] <= Supported[p]
    BY <1>1, <2>2 DEF Placement
  <2>8. Placement(n + 1)' /\ MigTypes'
    <3>1. Placement(n + 1)
      BY <1>1, PlacementGrows
    <3>2. /\ Placement(n + 1)'
          /\ stage' \in [Processes -> {"read", "apply", "ready", "down", "refused"}]
          /\ script' \in [Processes -> Nat]
      <4> HIDE DEF v
      <4> QED
        BY <1>2, <2>1, <2>7, <3>1, GoToPlaces, Zenon
    <3> QED
      BY <1>2, <2>1, <2>5, <3>2 DEF MigTypes
  <2> QED
    BY <2>6, <2>7, <2>8 DEF MigInv
<1>10. CASE UNCHANGED migVars
  <2>1. Placement(n)' /\ MigTypes' /\ SameSchema
    BY <1>1, <1>2, <1>10 DEF migVars, Placement, MigTypes, SameSchema
  <2> QED
    BY <2>1, <1>3
<1> QED
  BY <1>4, <1>5, <1>6, <1>7, <1>8, <1>9, <1>10
  DEF MigNext, Migrate, Connect, ConnectAgain, StatementFails, MigrationFails

LEMMA MigBegins == MigInit => MigInv
<1> SUFFICES ASSUME MigInit PROVE MigInv
  OBVIOUS
<1>1. MigTypes
  BY DEF MigInit, MigTypes
<1>2. AtVersion(0)
  BY DEF MigInit, AtVersion
<1>3. Placement(0)
  BY DEF MigInit, Placement
<1> QED
  BY <1>1, <1>2, <1>3 DEF MigInv

LEMMA MigInvariant == MigSpec => []MigInv
  BY MigBegins, MigStep, PTL DEF MigSpec

(* Any number of processes of any versions, crashes and failing reads: the  *)
(* database is always at one version, each script has run once, and none in *)
(* part.                                                                    *)
THEOREM SchemaIsOne == MigSpec => []OneSchema
<1>1. MigInv => OneSchema
  BY VersionIs DEF MigInv, AtVersion, OneSchema
<1> QED
  BY <1>1, MigInvariant, PTL

(* Whoever goes on from connect has every object of its schema.             *)
THEOREM SchemaBeforeReady == MigSpec => []ReadyHasSchema
<1>1. MigInv => ReadyHasSchema
  <2> SUFFICES ASSUME MigInv, NEW p \in Processes, stage[p] = "ready",
                      NEW v \in 1..Supported[p]
               PROVE  ObjectsOf(v) \subseteq objects
    BY DEF ReadyHasSchema
  <2>1. PICK n \in Nat : AtVersion(n) /\ Placement(n)
    BY DEF MigInv
  <2>2. v \in recorded
    BY <2>1, MigrationAssumption DEF AtVersion, Placement
  <2> QED
    BY <2>1, <2>2 DEF AtVersion
<1> QED
  BY <1>1, MigInvariant, PTL

(* Nobody goes on with a database that was newer when it connected.         *)
THEOREM FailsClosed == MigSpec => []NewerIsRefused
<1>1. MigInv => NewerIsRefused
  BY DEF MigInv, Placement, NewerIsRefused
<1> QED
  BY <1>1, MigInvariant, PTL

(* Whoever starts at once, dies and is restarted: one schema, and everyone  *)
(* who goes on can work with it.                                            *)
THEOREM SchemaHolds == MigSpec => []SchemaIsSound
<1>1. OneSchema /\ ReadyHasSchema /\ NewerIsRefused => SchemaIsSound
  BY DEF SchemaIsSound
<1> QED
  BY <1>1, SchemaIsOne, SchemaBeforeReady, FailsClosed, PTL

-----------------------------------------------------------------------------
(* Blocks of a connection. *)

\* The writes of the i outermost blocks of a thread.
Upto(s, i) == UNION {s[j] : j \in 1..i}

LEMMA UptoZero == \A s : Upto(s, 0) = {}
  BY DEF Upto

LEMMA UptoNext ==
    ASSUME NEW s, NEW i \in Nat
    PROVE  Upto(s, i + 1) = Upto(s, i) \cup s[i + 1]
<1>1. 1..(i + 1) = 1..i \cup {i + 1}
  OBVIOUS
<1> QED
  BY <1>1, Zenon DEF Upto

LEMMA UptoSame ==
    ASSUME NEW s, NEW r, NEW i \in Nat, \A j \in 1..i : r[j] = s[j]
    PROVE  Upto(r, i) = Upto(s, i)
  BY DEF Upto

\* The lock, its count and _tx_depth say who is inside how many blocks.
Turns ==
    /\ \A t \in Threads : Level(t) > 0 => lockOwner = t
    /\ lockOwner # NoThread => lockCount = Level(lockOwner)
    /\ lockOwner = NoThread => lockCount = 0
    /\ depth = lockCount

(* What a savepoint brings back is the database with the writes of the      *)
(* blocks around it, and the connection sees those of all.                  *)
Layers(f) ==
    /\ Len(saves) = Len(f)
    /\ \A i \in 1..Len(f) : saves[i] = committed \cup Upto(f, i - 1)
    /\ view = committed \cup Upto(f, Len(f))

\* No block has a write that was executed adrift.
Clean(f) == \A i \in 1..Len(f) : f[i] \subseteq drawn \ loose

(* The outermost block has lost its transaction and went on: the savepoints *)
(* are those of the blocks inside it, the first one is a transaction of its *)
(* own, and what they bring back differs from the database in writes that   *)
(* were executed adrift.                                                    *)
Drift ==
    /\ view \ loose = committed \ loose
    /\ \A i \in 1..Len(saves) : saves[i] \ loose = committed \ loose
    /\ saves # <<>> => saves[1] = committed
    /\ Len(saves) < depth
    /\ inTransaction => saves # <<>>

ConnInv ==
    /\ ConnTypeOK
    /\ committed \ loose = kept /\ kept \subseteq drawn /\ loose \subseteq drawn
    /\ \A t \in raising : Level(t) > 0
    /\ Wedged => \A t \in Threads : Level(t) = 0
    /\ ~Wedged => Turns
    /\ ~inTransaction => saves = <<>> /\ view = committed
    /\ adrift => Drift
    /\ ~adrift /\ depth > 0 /\ ~inTransaction => lockOwner \in raising
    /\ ~adrift /\ depth > 0 /\ inTransaction =>
          Layers(frames[lockOwner]) /\ Clean(frames[lockOwner])

\* What is known when a thread is inside a block.
LEMMA Inside ==
    ASSUME ConnInv, NEW t \in Threads, Level(t) > 0
    PROVE  /\ lockOwner = t /\ depth = Level(t) /\ lockCount = Level(t)
           /\ \A u \in Threads \ {t} : frames[u] = <<>>
           /\ frames[t] \in Seq(SUBSET Writes) /\ Level(t) \in Nat \ {0}
           /\ ~adrift /\ inTransaction => Layers(frames[t]) /\ Clean(frames[t])
           /\ ~adrift /\ ~inTransaction => t \in raising
<1>1. \A u \in Threads : frames[u] \in Seq(SUBSET Writes) /\ Level(u) \in Nat
  BY DEF ConnInv, ConnTypeOK, Level
<1>2. Turns /\ lockOwner = t /\ t # NoThread
  BY ConnectionAssumption DEF ConnInv, Turns
<1>3. depth = Level(t) /\ lockCount = Level(t)
  BY <1>2 DEF Turns
<1>4. ASSUME NEW u \in Threads \ {t} PROVE frames[u] = <<>>
  <2>1. ~(Level(u) > 0)
    BY <1>2 DEF Turns
  <2> QED
    BY <1>1, <2>1, EmptySeq DEF Level
<1>5. /\ ~adrift /\ inTransaction => Layers(frames[t]) /\ Clean(frames[t])
      /\ ~adrift /\ ~inTransaction => t \in raising
  BY <1>2, <1>3 DEF ConnInv
<1> QED
  BY <1>1, <1>2, <1>3, <1>4, <1>5

\* The innermost block ends.
LEMMA PoppedIs ==
    ASSUME ConnInv, NEW t \in Threads, Level(t) > 0, NEW X \in SUBSET Writes
    PROVE  /\ Popped(t, X) \in Seq(SUBSET Writes)
           /\ Len(Popped(t, X)) = Level(t) - 1
           /\ \A i \in 1..(Level(t) - 2) : Popped(t, X)[i] = frames[t][i]
           /\ Level(t) > 1 => Popped(t, X)[Level(t) - 1] = frames[t][Level(t) - 1] \cup X
<1> DEFINE f == frames[t]
           m == Level(t)
           rest == SubSeq(f, 1, m - 1)
<1>1. f \in Seq(SUBSET Writes) /\ m \in Nat \ {0} /\ m = Len(f)
  BY Inside DEF Level
<1>2. Popped(t, X) = IF rest = <<>> THEN rest ELSE [rest EXCEPT ![Len(rest)] = @ \cup X]
  BY DEF Popped
<1>3. /\ rest \in Seq(SUBSET Writes) /\ Len(rest) = m - 1
      /\ \A i \in 1..(m - 1) : rest[i] = f[i]
  <2>1. \A i \in 1..(m - 1) : f[i] \in SUBSET Writes
    BY <1>1, ElementOfSeq
  <2> HIDE DEF f, m
  <2> QED
    BY <1>1, <2>1, SubSeqProperties
<1> HIDE DEF rest, f, m
<1>4. CASE rest = <<>>
  <2>1. m = 1
    <3>1. Len(rest) = 0
      BY <1>4
    <3>2. m \in Nat /\ m - 1 = 0
      BY <1>1, <1>3, <3>1, Zenon
    <3> QED
      BY <3>2
  <2>2. Popped(t, X) \in Seq(SUBSET Writes) /\ Len(Popped(t, X)) = m - 1
    BY <1>2, <1>3, <1>4, Zenon
  <2>3. ~(m > 1) /\ \A i \in 1..(m - 2) : FALSE
    BY <2>1
  <2> QED
    BY <2>2, <2>3, Zenon DEF m
<1>5. CASE rest # <<>>
  <2>1. Len(rest) \in 1..Len(rest) /\ m > 1
    BY <1>1, <1>3, <1>5, EmptySeq
  <2>2. rest[m - 1] \cup X \in SUBSET Writes
    BY <1>3, <2>1, ElementOfSeq
  <2>3. Popped(t, X) = [rest EXCEPT ![m - 1] = rest[m - 1] \cup X]
    BY <1>2, <1>3, <1>5
  <2>4. /\ Popped(t, X) \in Seq(SUBSET Writes)
        /\ Len(Popped(t, X)) = m - 1
        /\ \A i \in 1..(m - 1) : Popped(t, X)[i] = IF i = m - 1 THEN rest[m - 1] \cup X ELSE rest[i]
    BY <1>3, <2>1, <2>2, <2>3, ExceptSeq
  <2>5. \A i \in 1..(m - 2) : Popped(t, X)[i] = f[i]
    BY <1>1, <1>3, <2>4
  <2>6. Popped(t, X)[m - 1] = f[m - 1] \cup X
    BY <1>1, <1>3, <2>1, <2>4
  <2> QED
    BY <2>4, <2>5, <2>6 DEF f, m
<1> QED
  BY <1>4, <1>5

\* A thread has left its innermost block.
LEMMA TurnsAfterLeaving ==
    ASSUME ConnInv, NEW t \in Threads, Leaving(t),
           NEW r \in Seq(SUBSET Writes), Len(r) = Level(t) - 1,
           frames' = [frames EXCEPT ![t] = r]
    PROVE  /\ frames' \in [Threads -> Seq(SUBSET Writes)] /\ frames'[t] = r
           /\ lockOwner' \in Threads \cup {NoThread} /\ lockCount' \in Nat
           /\ depth' \in Nat /\ depth' = Level(t) - 1
           /\ Turns'
           /\ depth' > 0 => lockOwner' = t
           /\ depth' = 0 => \A u \in Threads : Level(u)' = 0
<1> DEFINE m == Level(t)
<1>1. /\ lockOwner = t /\ depth = m /\ lockCount = m /\ m \in Nat \ {0} /\ t # NoThread
      /\ \A u \in Threads \ {t} : frames[u] = <<>>
  BY Inside, ConnectionAssumption DEF Leaving
<1>2. /\ depth' = m - 1 /\ lockCount' = m - 1
      /\ lockOwner' = IF m = 1 THEN NoThread ELSE t
  BY <1>1 DEF Leaving, Released
<1>3. frames \in [Threads -> Seq(SUBSET Writes)]
  BY DEF ConnInv, ConnTypeOK
<1>4. frames'[t] = r /\ \A u \in Threads \ {t} : frames'[u] = <<>>
  BY <1>1, <1>3
<1>5. Level(t)' = m - 1 /\ \A u \in Threads \ {t} : Level(u)' = 0
  BY <1>4, EmptySeq DEF Level
<1>6. frames' \in [Threads -> Seq(SUBSET Writes)]
  BY <1>3
<1> HIDE DEF m
<1>7. Turns'
  <2>1. CASE m = 1
    BY <2>1, <1>1, <1>2, <1>5 DEF Turns
  <2>2. CASE m # 1
    BY <2>2, <1>1, <1>2, <1>5 DEF Turns
  <2> QED
    BY <2>1, <2>2
<1>8. depth' = 0 => \A u \in Threads : Level(u)' = 0
  BY <1>1, <1>2, <1>5
<1> QED
  BY <1>1, <1>2, <1>4, <1>6, <1>7, <1>8 DEF m

\* A block begins.
LEMMA EnterKeeps ==
    ASSUME ConnInv, NEW t \in Threads, Enter(t)
    PROVE  ConnInv'
<1> DEFINE f == frames[t]
           m == Level(t)
           r == Append(f, {})
<1>1. /\ ConnTypeOK /\ Turns /\ t # NoThread
      /\ committed \ loose = kept /\ kept \subseteq drawn /\ loose \subseteq drawn
      /\ f \in Seq(SUBSET Writes) /\ m \in Nat /\ m = Len(f) /\ ~Wedged
  <2>1. frames \in [Threads -> Seq(SUBSET Writes)]
    BY DEF ConnInv, ConnTypeOK
  <2> QED
    BY <2>1, ConnectionAssumption DEF ConnInv, Enter, Level
<1>2. /\ lockOwner \in {NoThread, t} /\ lockOwner' = t /\ lockCount' = lockCount + 1
      /\ inTransaction' = TRUE /\ saves' = Append(saves, view) /\ depth' = depth + 1
      /\ frames' = [frames EXCEPT ![t] = r]
      /\ view' = view /\ committed' = committed /\ raising' = raising /\ kept' = kept
      /\ adrift' = adrift /\ loose' = loose
      /\ drawn' = drawn /\ connFaults' = connFaults /\ t \notin raising
  BY DEF Enter, Acquirable, Acquired
<1>3. depth = m /\ lockCount = m /\ \A u \in Threads \ {t} : Level(u) = 0
  <2>1. \A u \in Threads : Level(u) \in Nat
    BY DEF ConnInv, ConnTypeOK, Level
  <2>2. \A u \in Threads \ {t} : ~(Level(u) > 0)
    BY <1>1, <1>2, ConnectionAssumption DEF Turns
  <2>3. lockOwner = NoThread => ~(m > 0)
    BY <1>1 DEF Turns
  <2> QED
    BY <1>1, <1>2, <2>1, <2>2, <2>3 DEF Turns
<1>4. saves \in Seq(SUBSET Writes) /\ view \in SUBSET Writes /\ Len(saves) \in Nat
  BY <1>1 DEF ConnTypeOK
<1>5. /\ r \in Seq(SUBSET Writes) /\ Len(r) = m + 1 /\ r[m + 1] = {}
      /\ \A i \in 1..m : r[i] = f[i]
  <2>1. {} \in SUBSET Writes
    OBVIOUS
  <2> QED
    BY <1>1, <2>1, AppendProperties
<1>6. /\ saves' \in Seq(SUBSET Writes) /\ Len(saves') = Len(saves) + 1
      /\ saves'[Len(saves) + 1] = view /\ \A i \in 1..Len(saves) : saves'[i] = saves[i]
  BY <1>2, <1>4, AppendProperties
<1>7. frames' \in [Threads -> Seq(SUBSET Writes)] /\ frames'[t] = r
  BY <1>1, <1>2, <1>5 DEF ConnTypeOK
<1> HIDE DEF f, m, r
<1>8. ~adrift => Layers(frames[t])' /\ Clean(frames[t])'
  <2> SUFFICES ASSUME ~adrift PROVE Layers(frames[t])' /\ Clean(frames[t])'
    OBVIOUS
  <2>1. /\ Len(saves) = m /\ \A i \in 1..m : saves[i] = committed \cup Upto(f, i - 1)
        /\ view = committed \cup Upto(f, m) /\ Clean(f)
    <3>1. CASE m = 0
      <4>1. ~inTransaction
        BY <1>1, <1>3, <3>1 DEF Wedged
      <4>2. saves = <<>> /\ view = committed
        BY <4>1 DEF ConnInv
      <4> QED
        BY <4>2, <3>1, <1>1, EmptySeq, UptoZero DEF Clean
    <3>2. CASE m > 0
      <4>1. inTransaction
        BY <1>2, <3>2, Inside DEF m
      <4>2. Layers(f) /\ Clean(f)
        BY <3>2, <4>1, Inside DEF m, f
      <4> QED
        BY <4>2, <1>1 DEF Layers
    <3> QED
      BY <3>1, <3>2, <1>1
  <2>2. \A i \in 0..m : Upto(r, i) = Upto(f, i)
    <3> SUFFICES ASSUME NEW i \in 0..m PROVE Upto(r, i) = Upto(f, i)
      OBVIOUS
    <3>1. i \in Nat /\ \A j \in 1..i : r[j] = f[j]
      BY <1>1, <1>5
    <3> QED
      BY <3>1, UptoSame
  <2>3. Upto(r, m + 1) = Upto(f, m)
    <3>1. Upto(r, m + 1) = Upto(r, m) \cup r[m + 1]
      BY <1>1, UptoNext
    <3>2. Upto(r, m) = Upto(f, m)
      BY <1>1, <2>2
    <3> QED
      BY <1>5, <3>1, <3>2
  <2>4. ASSUME NEW i \in 1..(m + 1) PROVE saves'[i] = committed \cup Upto(r, i - 1)
    <3>1. CASE i = m + 1
      BY <3>1, <1>1, <1>6, <2>1, <2>2
    <3>2. CASE i # m + 1
      <4>1. i \in 1..m /\ i - 1 \in 0..m
        BY <3>2, <1>1
      <4> QED
        BY <4>1, <1>6, <2>1, <2>2
    <3> QED
      BY <3>1, <3>2
  <2>5. view' = committed' \cup Upto(r, m + 1)
    BY <1>2, <2>1, <2>3
  <2>6. /\ Len(saves') = Len(frames'[t])
        /\ \A i \in 1..Len(frames'[t]) : saves'[i] = committed' \cup Upto(frames'[t], i - 1)
        /\ view' = committed' \cup Upto(frames'[t], Len(frames'[t]))
    BY <1>2, <1>5, <1>6, <1>7, <2>1, <2>4, <2>5
  <2>7. \A i \in 1..Len(frames'[t]) : frames'[t][i] \subseteq drawn' \ loose'
    <3>1. \A i \in 1..m : f[i] \subseteq drawn \ loose
      BY <1>1, <2>1 DEF Clean
    <3>2. ASSUME NEW i \in 1..(m + 1) PROVE r[i] \subseteq drawn \ loose
      <4>1. i = m + 1 \/ i \in 1..m
        BY <1>1
      <4> QED
        BY <1>5, <3>1, <4>1
    <3> QED
      BY <1>2, <1>5, <1>7, <3>2
  <2> QED
    BY <2>6, <2>7, Zenon DEF Layers, Clean
<1>9. adrift => Drift'
  <2> SUFFICES ASSUME adrift PROVE Drift'
    OBVIOUS
  <2>1. Drift
    BY DEF ConnInv
  <2>2. saves = <<>> => view = committed
    BY <2>1 DEF ConnInv, Drift
  <2>3. ASSUME NEW i \in 1..Len(saves') PROVE saves'[i] \ loose = committed \ loose
    <3>1. i = Len(saves) + 1 \/ i \in 1..Len(saves)
      BY <1>4, <1>6
    <3> QED
      BY <1>6, <2>1, <3>1 DEF Drift
  <2>4. saves'[1] = committed /\ saves' # <<>>
    <3>1. saves' # <<>>
      BY <1>4, <1>6, EmptySeq
    <3>2. CASE saves = <<>>
      BY <3>2, <1>6, <2>2, EmptySeq
    <3>3. CASE saves # <<>>
      <4>1. 1 \in 1..Len(saves)
        BY <3>3, <1>4, EmptySeq
      <4> QED
        BY <3>3, <4>1, <1>6, <2>1 DEF Drift
    <3> QED
      BY <3>1, <3>2, <3>3
  <2>5. Len(saves') < depth'
    BY <1>1, <1>2, <1>3, <1>4, <1>6, <2>1 DEF Drift
  <2> QED
    BY <1>2, <2>1, <2>3, <2>4, <2>5 DEF Drift
<1>11. Level(t)' = m + 1 /\ \A u \in Threads \ {t} : Level(u)' = 0 /\ Level(u)' = Level(u)
  BY <1>1, <1>2, <1>3, <1>5, <1>7 DEF Level, ConnTypeOK
<1>12. Turns'
  BY <1>1, <1>2, <1>3, <1>11 DEF Turns
<1>13. ConnTypeOK'
  BY <1>1, <1>2, <1>3, <1>6, <1>7 DEF ConnTypeOK
<1>14. \A u \in raising' : Level(u)' > 0
  BY <1>2, <1>11, <1>1 DEF ConnInv, ConnTypeOK
<1>15. ~Wedged' /\ depth' > 0
  BY <1>1, <1>2, <1>3 DEF Wedged
<1> QED
  BY <1>1, <1>2, <1>8, <1>9, <1>12, <1>13, <1>14, <1>15 DEF ConnInv

\* A statement inside a block.
LEMMA ExecuteKeeps ==
    ASSUME ConnInv, NEW t \in Threads, NEW w \in Writes, Execute(t, w)
    PROVE  ConnInv'
<1> DEFINE f == frames[t]
           m == Level(t)
           r == [f EXCEPT ![m] = f[m] \cup {w}]
<1>1. /\ Level(t) > 0 /\ t \notin raising /\ w \notin drawn
      /\ lockOwner' = lockOwner /\ lockCount' = lockCount /\ depth' = depth
      /\ inTransaction' = inTransaction /\ saves' = saves /\ raising' = raising
      /\ kept' = kept /\ connFaults' = connFaults /\ drawn' = drawn \cup {w}
      /\ view' = view \cup {w} /\ adrift' = adrift
      /\ loose' = (IF adrift THEN loose \cup {w} ELSE loose)
      /\ committed' = IF inTransaction THEN committed ELSE committed \cup {w}
      /\ frames' = [frames EXCEPT ![t][m] = @ \cup {w}]
  BY DEF Execute
<1>2. /\ lockOwner = t /\ depth = m /\ m \in Nat \ {0} /\ f \in Seq(SUBSET Writes)
      /\ m = Len(f)
      /\ ~adrift => inTransaction /\ Layers(f) /\ Clean(f)
  BY <1>1, Inside DEF Level
<1>3. /\ ConnTypeOK /\ Turns /\ ~Wedged
      /\ committed \ loose = kept /\ kept \subseteq drawn /\ loose \subseteq drawn
  BY <1>1, <1>2 DEF ConnInv, Wedged
<1> HIDE DEF f, m
<1>4. /\ r \in Seq(SUBSET Writes) /\ Len(r) = m
      /\ \A i \in 1..m : r[i] = IF i = m THEN f[m] \cup {w} ELSE f[i]
  <2>1. m \in 1..Len(f)
    BY <1>2
  <2>2. f[m] \cup {w} \in SUBSET Writes
    BY <1>2, <2>1, ElementOfSeq
  <2> QED
    BY <1>2, <2>1, <2>2, ExceptSeq
<1>5. frames' = [frames EXCEPT ![t] = r] /\ frames \in [Threads -> Seq(SUBSET Writes)]
  BY <1>1, <1>3 DEF f, ConnTypeOK
<1> HIDE DEF r
<1>6. /\ frames' \in [Threads -> Seq(SUBSET Writes)] /\ frames'[t] = r
      /\ \A u \in Threads : Level(u)' = Level(u)
  <2>1. frames' \in [Threads -> Seq(SUBSET Writes)] /\ frames'[t] = r
    BY <1>4, <1>5
  <2>2. \A u \in Threads : u # t => frames'[u] = frames[u]
    BY <1>5
  <2> QED
    BY <1>2, <1>4, <2>1, <2>2 DEF Level, f
<1>7. ~adrift => Layers(frames[t])' /\ Clean(frames[t])'
  <2> SUFFICES ASSUME ~adrift PROVE Layers(frames[t])' /\ Clean(frames[t])'
    OBVIOUS
  <2>1. \A i \in 1..m : Upto(r, i - 1) = Upto(f, i - 1)
    <3> SUFFICES ASSUME NEW i \in 1..m PROVE Upto(r, i - 1) = Upto(f, i - 1)
      OBVIOUS
    <3>1. i - 1 \in Nat /\ \A j \in 1..(i - 1) : r[j] = f[j]
      BY <1>2, <1>4
    <3> QED
      BY <3>1, UptoSame
  <2>2. Upto(r, m) = Upto(f, m) \cup {w}
    <3>1. m - 1 \in Nat /\ m - 1 + 1 = m /\ m \in 1..m
      BY <1>2
    <3>2. Upto(r, m) = Upto(r, m - 1) \cup r[m] /\ Upto(f, m) = Upto(f, m - 1) \cup f[m]
      BY <3>1, UptoNext
    <3>3. Upto(r, m - 1) = Upto(f, m - 1) /\ r[m] = f[m] \cup {w}
      BY <3>1, <1>4, <2>1
    <3> QED
      BY <3>2, <3>3
  <2>3. /\ Len(saves) = m /\ \A i \in 1..m : saves[i] = committed \cup Upto(f, i - 1)
        /\ view = committed \cup Upto(f, m) /\ committed' = committed
    BY <1>1, <1>2 DEF Layers
  <2>4. /\ Len(saves') = Len(r)
        /\ \A i \in 1..m : saves'[i] = committed' \cup Upto(r, i - 1)
        /\ view' = committed' \cup Upto(r, m)
    BY <1>1, <1>4, <2>1, <2>2, <2>3
  <2>5. /\ Len(saves') = Len(frames'[t])
        /\ \A i \in 1..Len(frames'[t]) : saves'[i] = committed' \cup Upto(frames'[t], i - 1)
        /\ view' = committed' \cup Upto(frames'[t], Len(frames'[t]))
    BY <1>4, <1>6, <2>4
  <2>6. \A i \in 1..Len(frames'[t]) : frames'[t][i] \subseteq drawn' \ loose'
    <3>1. \A i \in 1..m : f[i] \subseteq drawn \ loose
      BY <1>2 DEF Clean
    <3>2. w \in drawn' \ loose' /\ drawn \ loose \subseteq drawn' \ loose' /\ m \in 1..m
      BY <1>1, <1>2, <1>3
    <3>3. ASSUME NEW i \in 1..m PROVE r[i] \subseteq drawn' \ loose'
      <4>1. r[i] = IF i = m THEN f[m] \cup {w} ELSE f[i]
        BY <1>4
      <4>2. f[i] \subseteq drawn' \ loose' /\ f[m] \subseteq drawn' \ loose'
        BY <3>1, <3>2
      <4> QED
        BY <3>2, <4>1, <4>2
    <3> QED
      BY <1>4, <1>6, <3>3
  <2> QED
    BY <2>5, <2>6, Zenon DEF Layers, Clean
<1>8. adrift => Drift'
  <2> SUFFICES ASSUME adrift PROVE Drift'
    OBVIOUS
  <2>1. Drift /\ loose' = loose \cup {w}
    BY <1>1 DEF ConnInv
  <2>2. /\ view' \ loose' = committed' \ loose'
        /\ \A i \in 1..Len(saves) : saves[i] \ loose' = committed' \ loose'
    BY <1>1, <2>1 DEF Drift
  <2>3. saves # <<>> => saves[1] = committed'
    BY <1>1, <2>1 DEF Drift, ConnInv
  <2> QED
    BY <1>1, <2>1, <2>2, <2>3 DEF Drift
<1>9. committed' \ loose' = kept' /\ kept' \subseteq drawn' /\ loose' \subseteq drawn'
  BY <1>1, <1>2, <1>3
<1>10. ConnTypeOK' /\ Turns' /\ \A u \in raising' : Level(u)' > 0
  <2>1. ConnTypeOK'
    BY <1>1, <1>3, <1>6 DEF ConnTypeOK
  <2>2. Turns'
    BY <1>1, <1>3, <1>6 DEF Turns, ConnTypeOK
  <2> QED
    BY <1>1, <1>6, <2>1, <2>2 DEF ConnInv, ConnTypeOK
<1>11. ~inTransaction' => saves' = <<>> /\ view' = committed'
  BY <1>1 DEF ConnInv
<1>12. ~adrift' => inTransaction' = TRUE
  BY <1>1, <1>2, <1>3 DEF ConnTypeOK
<1> QED
  BY <1>1, <1>2, <1>3, <1>7, <1>8, <1>9, <1>10, <1>11, <1>12 DEF ConnInv, Wedged

\* An exception begins or is swallowed, with or without the transaction.
LEMMA ExceptionKeeps ==
    ASSUME ConnInv, NEW t \in Threads, Raise(t) \/ Abort(t) \/ Swallow(t)
    PROVE  ConnInv'
<1>1. /\ Level(t) > 0
      /\ UNCHANGED <<lockOwner, lockCount, depth, committed, frames, loose, kept, drawn>>
      /\ raising' \subseteq raising \cup {t} /\ connFaults' \in Nat
  BY DEF Raise, Abort, Swallow, Fault, ConnInv, ConnTypeOK
<1>2. /\ lockOwner = t /\ depth > 0 /\ ConnTypeOK /\ Turns /\ t # NoThread
      /\ ~adrift /\ inTransaction => Layers(frames[t]) /\ Clean(frames[t])
  BY <1>1, Inside, ConnectionAssumption DEF ConnInv, Wedged
<1>3. Turns' /\ \A u \in raising' : Level(u)' > 0
  BY <1>1, <1>2 DEF Turns, ConnInv, Level
<1>4. CASE Raise(t) \/ Swallow(t)
  <2>1. saves' = saves /\ view' = view /\ inTransaction' = inTransaction
    BY <1>4 DEF Raise, Swallow
  <2>2. /\ adrift' \in BOOLEAN
        /\ adrift => adrift'
        /\ adrift' /\ ~adrift => ~inTransaction
        /\ ~adrift' /\ ~inTransaction => t \in raising'
    <3>1. adrift \in BOOLEAN /\ inTransaction \in BOOLEAN
      BY <1>2 DEF ConnTypeOK
    <3>2. CASE Raise(t)
      <4>1. adrift' = adrift /\ raising' = raising \cup {t}
        BY <3>2 DEF Raise
      <4> QED
        BY <3>1, <4>1
    <3>3. CASE Swallow(t)
      <4>1. adrift' = (adrift \/ ~inTransaction)
        BY <3>3 DEF Swallow
      <4> QED
        BY <3>1, <4>1
    <3> QED
      BY <1>4, <3>2, <3>3
  <2>3. ~adrift' /\ inTransaction' => Layers(frames[t])' /\ Clean(frames[t])'
    <3> SUFFICES ASSUME ~adrift', inTransaction'
                 PROVE  Layers(frames[t])' /\ Clean(frames[t])'
      OBVIOUS
    <3>1. ~adrift /\ inTransaction
      <4>1. adrift => adrift'
        BY <2>2
      <4> QED
        BY <2>1, <4>1
    <3>2. Layers(frames[t]) /\ Clean(frames[t])
      BY <3>1, <1>2
    <3> QED
      BY <3>2, <1>1, <2>1 DEF Layers, Clean
  <2>4. adrift' => Drift'
    <3>1. CASE adrift
      BY <3>1, <1>1, <2>1 DEF Drift, ConnInv
    <3>2. CASE ~adrift /\ adrift'
      <4>1. saves' = <<>> /\ view' = committed' /\ ~inTransaction'
        BY <3>2, <1>1, <2>1, <2>2 DEF ConnInv
      <4>2. Len(saves') = 0 /\ \A i \in 1..Len(saves') : FALSE
        BY <4>1, EmptySeq
      <4> QED
        BY <4>1, <4>2, <1>1, <1>2 DEF Drift
    <3> QED
      BY <3>1, <3>2, <2>2
  <2>5. ConnTypeOK'
    <3>1. inTransaction' \in BOOLEAN
      BY <1>2, <2>1, Zenon DEF ConnTypeOK
    <3>2. raising' \subseteq Threads
      BY <1>1, <1>2 DEF ConnTypeOK
    <3> QED
      <4>1. adrift' \in BOOLEAN
        BY <2>2
      <4>2. saves' \in Seq(SUBSET Writes) /\ view' \subseteq Writes
        BY <1>2, <2>1 DEF ConnTypeOK
      <4> QED
        BY <1>1, <1>2, <3>1, <3>2, <4>1, <4>2 DEF ConnTypeOK
  <2> QED
    BY <1>1, <1>2, <1>3, <2>1, <2>2, <2>3, <2>4, <2>5 DEF ConnInv, Wedged
<1>5. CASE Abort(t)
  <2>1. /\ saves' = <<>> /\ view' = committed /\ inTransaction' = FALSE /\ t \in raising'
        /\ adrift' = adrift
    BY <1>5 DEF Abort
  <2>2. saves' \in Seq(SUBSET Writes) /\ Len(saves') = 0 /\ \A i \in 1..Len(saves') : FALSE
    BY <2>1, EmptySeq
  <2>3. Drift'
    BY <1>1, <1>2, <2>1, <2>2 DEF Drift
  <2> QED
    BY <1>1, <1>2, <1>3, <2>1, <2>2, <2>3 DEF ConnInv, ConnTypeOK, Wedged
<1> QED
  BY <1>4, <1>5

LEMMA PoppedUpto ==
    ASSUME ConnInv, NEW t \in Threads, Level(t) > 1, NEW X \in SUBSET Writes
    PROVE  /\ \A i \in 0..(Level(t) - 2) : Upto(Popped(t, X), i) = Upto(frames[t], i)
           /\ Upto(Popped(t, X), Level(t) - 1) = Upto(frames[t], Level(t) - 1) \cup X
<1> DEFINE f == frames[t]
           m == Level(t)
           r == Popped(t, X)
<1>1. m \in Nat /\ m > 1
  BY DEF ConnInv, ConnTypeOK, Level
<1>2. (\A i \in 1..(m - 2) : r[i] = f[i]) /\ r[m - 1] = f[m - 1] \cup X
  BY <1>1, PoppedIs
<1> HIDE DEF f, m, r
<1>3. ASSUME NEW i \in 0..(m - 2) PROVE Upto(r, i) = Upto(f, i)
  <2>1. i \in Nat /\ \A j \in 1..i : r[j] = f[j]
    BY <1>1, <1>2
  <2> QED
    BY <2>1, UptoSame
<1>4. Upto(r, m - 1) = Upto(f, m - 1) \cup X
  <2>1. m - 2 \in Nat /\ m - 2 + 1 = m - 1
    BY <1>1
  <2>2. Upto(r, m - 1) = Upto(r, m - 2) \cup r[m - 1] /\ Upto(f, m - 1) = Upto(f, m - 2) \cup f[m - 1]
    BY <2>1, UptoNext
  <2>3. Upto(r, m - 2) = Upto(f, m - 2)
    BY <2>1, <1>3
  <2> QED
    BY <1>2, <2>2, <2>3
<1> QED
  BY <1>3, <1>4 DEF f, m, r

\* The innermost savepoint is given up.
LEMMA SavesLess ==
    ASSUME saves \in Seq(SUBSET Writes), NEW m \in Nat \ {0}, Len(saves) = m
    PROVE  /\ SubSeq(saves, 1, m - 1) \in Seq(SUBSET Writes)
           /\ Len(SubSeq(saves, 1, m - 1)) = m - 1
           /\ \A i \in 1..(m - 1) : SubSeq(saves, 1, m - 1)[i] = saves[i]
<1>1. \A i \in 1..(m - 1) : saves[i] \in SUBSET Writes
  BY ElementOfSeq
<1>2. /\ SubSeq(saves, 1, m - 1) \in Seq(SUBSET Writes)
      /\ Len(SubSeq(saves, 1, m - 1)) = IF 1 <= m - 1 THEN m - 1 - 1 + 1 ELSE 0
      /\ \A i \in 1..(m - 1 - 1 + 1) : SubSeq(saves, 1, m - 1)[i] = saves[1 + i - 1]
  BY <1>1, SubSeqProperties
<1> QED
  BY <1>2

\* What every way out of a block has in common.
LEMMA LeavingPops ==
    ASSUME ConnInv, NEW t \in Threads, Leaving(t), NEW X \in SUBSET Writes,
           frames' = [frames EXCEPT ![t] = Popped(t, X)]
    PROVE  /\ frames' \in [Threads -> Seq(SUBSET Writes)] /\ frames'[t] = Popped(t, X)
           /\ lockOwner' \in Threads \cup {NoThread} /\ lockCount' \in Nat
           /\ depth' \in Nat /\ depth' = Level(t) - 1 /\ Turns'
           /\ depth' > 0 => lockOwner' = t
           /\ depth' = 0 => \A u \in Threads : Level(u)' = 0
           /\ adrift' = (adrift /\ Level(t) > 1)
           /\ raising \subseteq {t} /\ depth = Level(t) /\ Level(t) \in Nat \ {0}
           /\ ConnTypeOK
           /\ committed \ loose = kept /\ kept \subseteq drawn /\ loose \subseteq drawn
<1>1. Level(t) > 0
  BY DEF Leaving
<1> DEFINE r == Popped(t, X)
<1>2. r \in Seq(SUBSET Writes) /\ Len(r) = Level(t) - 1
  BY <1>1, PoppedIs
<1>3. ASSUME NEW u \in raising PROVE u = t
  <2>1. u \in Threads /\ Level(u) > 0
    BY DEF ConnInv, ConnTypeOK
  <2> QED
    BY <1>1, <2>1, Inside, Zenon
<1> HIDE DEF r
<1>4. /\ frames' \in [Threads -> Seq(SUBSET Writes)] /\ frames'[t] = r
      /\ lockOwner' \in Threads \cup {NoThread} /\ lockCount' \in Nat
      /\ depth' \in Nat /\ depth' = Level(t) - 1 /\ Turns'
      /\ depth' > 0 => lockOwner' = t
      /\ depth' = 0 => \A u \in Threads : Level(u)' = 0
  <2>1. frames' = [frames EXCEPT ![t] = r]
    BY DEF r
  <2> QED
    BY <1>2, <2>1, TurnsAfterLeaving
<1>5. /\ depth = Level(t) /\ Level(t) \in Nat \ {0} /\ ConnTypeOK
      /\ committed \ loose = kept /\ kept \subseteq drawn /\ loose \subseteq drawn
  BY <1>1, Inside DEF ConnInv
<1>6. adrift' = (adrift /\ Level(t) > 1)
  BY <1>5 DEF Leaving
<1> QED
  BY <1>3, <1>4, <1>5, <1>6 DEF r

LEMMA PoppedClean ==
    ASSUME ConnInv, NEW t \in Threads, Level(t) > 1, Clean(frames[t]),
           NEW X \in SUBSET Writes, X \subseteq drawn \ loose
    PROVE  Clean(Popped(t, X))
<1> DEFINE f == frames[t]
           m == Level(t)
           r == Popped(t, X)
<1>1. m \in Nat /\ m > 1 /\ m = Len(f)
  BY DEF ConnInv, ConnTypeOK, Level
<1>2. Len(r) = m - 1 /\ (\A i \in 1..(m - 2) : r[i] = f[i]) /\ r[m - 1] = f[m - 1] \cup X
  BY <1>1, PoppedIs
<1>3. \A i \in 1..m : f[i] \subseteq drawn \ loose
  BY <1>1 DEF Clean
<1> HIDE DEF f, m, r
<1>4. ASSUME NEW i \in 1..(m - 1) PROVE r[i] \subseteq drawn \ loose
  <2>1. i \in 1..m /\ m - 1 \in 1..m /\ (i = m - 1 \/ i \in 1..(m - 2))
    BY <1>1
  <2> QED
    BY <1>2, <1>3, <2>1
<1> QED
  BY <1>2, <1>4 DEF Clean, r

\* The innermost savepoint inside a block that is adrift.
LEMMA DriftLess ==
    ASSUME ConnInv, adrift, saves # <<>>
    PROVE  LET k == Len(saves) less == SubSeq(saves, 1, k - 1) IN
           /\ k \in Nat \ {0} /\ less \in Seq(SUBSET Writes) /\ Len(less) = k - 1
           /\ \A i \in 1..(k - 1) : less[i] = saves[i]
           /\ k = 1 => less = <<>>
           /\ saves[k] \in SUBSET Writes /\ saves[k] \ loose = committed \ loose
           /\ k = 1 => saves[k] = committed
<1> DEFINE k == Len(saves)
           less == SubSeq(saves, 1, k - 1)
<1>1. saves \in Seq(SUBSET Writes) /\ Drift
  BY DEF ConnInv, ConnTypeOK
<1>2. k \in Nat \ {0}
  BY <1>1, EmptySeq
<1>3. /\ less \in Seq(SUBSET Writes) /\ Len(less) = k - 1
      /\ \A i \in 1..(k - 1) : less[i] = saves[i]
  BY <1>1, <1>2, SavesLess
<1>4. saves[k] \in SUBSET Writes /\ saves[k] \ loose = committed \ loose
  <2>1. k \in 1..Len(saves)
    BY <1>2
  <2> QED
    BY <1>1, <2>1, ElementOfSeq DEF Drift
<1>5. k = 1 => less = <<>>
  <2> SUFFICES ASSUME k = 1 PROVE less = <<>>
    OBVIOUS
  <2>1. Len(less) = 0
    BY <1>3
  <2> HIDE DEF less
  <2> QED
    BY <1>3, <2>1, EmptySeq
<1>6. k = 1 => saves[k] = committed
  BY <1>1 DEF Drift
<1> HIDE DEF k, less
<1> QED
  BY <1>2, <1>3, <1>4, <1>5, <1>6 DEF k, less

LEMMA ReleaseKeeps ==
    ASSUME ConnInv, NEW t \in Threads, ExitRelease(t)
    PROVE  ConnInv'
<1> DEFINE f == frames[t]
           m == Level(t)
           r == Popped(t, f[m])
<1>1. /\ Level(t) > 0 /\ Leaving(t) /\ t \notin raising /\ depth > 1
      /\ frames' = [frames EXCEPT ![t] = r]
      /\ view' = view /\ raising' = raising /\ kept' = kept /\ drawn' = drawn
      /\ connFaults' = connFaults /\ loose' = loose
      /\ saves' = IF saves = <<>> THEN saves ELSE SubSeq(saves, 1, Len(saves) - 1)
      /\ inTransaction' = (Len(saves) > 1)
      /\ committed' = IF Len(saves) = 1 THEN view ELSE committed
  BY DEF ExitRelease, Leaving
<1>2. /\ depth = m /\ m \in Nat /\ m > 1 /\ f \in Seq(SUBSET Writes) /\ Len(f) = m
      /\ ~adrift => inTransaction /\ Layers(f) /\ Clean(f)
  BY <1>1, Inside DEF Level
<1>3. f[m] \in SUBSET Writes
  <2>1. m \in 1..Len(f)
    BY <1>2
  <2> QED
    BY <1>2, <2>1, ElementOfSeq
<1>4. /\ frames' \in [Threads -> Seq(SUBSET Writes)] /\ frames'[t] = r
      /\ lockOwner' \in Threads \cup {NoThread} /\ lockCount' \in Nat
      /\ depth' \in Nat /\ depth' = m - 1 /\ Turns' /\ lockOwner' = t
      /\ adrift' = adrift /\ raising' = {} /\ ConnTypeOK
      /\ committed \ loose = kept /\ kept \subseteq drawn /\ loose \subseteq drawn
  <2>1. /\ frames' \in [Threads -> Seq(SUBSET Writes)] /\ frames'[t] = r
        /\ lockOwner' \in Threads \cup {NoThread} /\ lockCount' \in Nat
        /\ depth' \in Nat /\ depth' = Level(t) - 1 /\ Turns'
        /\ depth' > 0 => lockOwner' = t
        /\ adrift' = (adrift /\ Level(t) > 1)
        /\ raising \subseteq {t} /\ ConnTypeOK
        /\ committed \ loose = kept /\ kept \subseteq drawn /\ loose \subseteq drawn
    BY <1>1, <1>3, LeavingPops
  <2>2. adrift \in BOOLEAN
    BY <2>1 DEF ConnTypeOK
  <2> HIDE DEF r
  <2> QED
    BY <1>1, <1>2, <2>1, <2>2
<1>5. r \in Seq(SUBSET Writes) /\ Len(r) = m - 1
  BY <1>1, <1>3, PoppedIs
<1>6. CASE ~adrift
  <2>1. /\ Len(saves) = m /\ (\A i \in 1..m : saves[i] = committed \cup Upto(f, i - 1))
        /\ view = committed \cup Upto(f, m) /\ saves # <<>>
    BY <1>2, <1>6 DEF Layers
  <2>2. saves' = SubSeq(saves, 1, m - 1) /\ inTransaction' = TRUE /\ committed' = committed
    <3>1. Len(saves) > 1 /\ Len(saves) # 1 /\ Len(saves) = m
      BY <1>2, <2>1
    <3> HIDE DEF m
    <3> QED
      BY <1>1, <2>1, <3>1
  <2>3. /\ saves' \in Seq(SUBSET Writes) /\ Len(saves') = m - 1
        /\ \A i \in 1..(m - 1) : saves'[i] = saves[i]
    <3>1. saves \in Seq(SUBSET Writes) /\ m \in Nat \ {0}
      BY <1>2, <1>4 DEF ConnTypeOK
    <3> HIDE DEF m
    <3> QED
      BY <2>1, <2>2, <3>1, SavesLess
  <2>4. (\A i \in 0..(m - 2) : Upto(r, i) = Upto(f, i)) /\ Upto(r, m - 1) = Upto(f, m - 1) \cup f[m]
    BY <1>2, <1>3, PoppedUpto
  <2>5. Upto(f, m) = Upto(f, m - 1) \cup f[m]
    <3>1. m - 1 \in Nat /\ m - 1 + 1 = m
      BY <1>2
    <3> QED
      BY <3>1, UptoNext
  <2>6. Clean(r)
    <3>1. f[m] \subseteq drawn \ loose
      <4>1. m \in 1..Len(f) /\ Clean(f)
        BY <1>2, <1>6
      <4> QED
        BY <4>1, Zenon DEF Clean
    <3> QED
      BY <1>2, <1>3, <1>6, <3>1, PoppedClean
  <2> HIDE DEF f, m, r
  <2>7. \A i \in 1..(m - 1) : saves'[i] = committed' \cup Upto(r, i - 1)
    BY <1>2, <2>1, <2>2, <2>3, <2>4
  <2>8. view' = committed' \cup Upto(r, m - 1)
    BY <1>1, <2>1, <2>2, <2>4, <2>5
  <2>9. /\ Len(saves') = Len(frames'[t])
        /\ \A i \in 1..Len(frames'[t]) : saves'[i] = committed' \cup Upto(frames'[t], i - 1)
        /\ view' = committed' \cup Upto(frames'[t], Len(frames'[t]))
    BY <1>4, <1>5, <2>3, <2>7, <2>8
  <2>10. \A i \in 1..Len(frames'[t]) : frames'[t][i] \subseteq drawn' \ loose'
    BY <1>1, <1>4, <2>6 DEF Clean
  <2>11. Layers(frames[t])' /\ Clean(frames[t])'
    BY <2>9, <2>10, Zenon DEF Layers, Clean
  <2>12. ConnTypeOK'
    BY <1>1, <1>4, <2>2, <2>3 DEF ConnTypeOK
  <2> QED
    BY <1>1, <1>2, <1>4, <1>6, <2>2, <2>11, <2>12 DEF ConnInv, Wedged
<1>7. CASE adrift
  <2> HIDE DEF f, m, r
  <2>1. Drift /\ view \ loose = committed \ loose /\ Len(saves) < m
    BY <1>2, <1>7 DEF ConnInv, Drift
  <2>2. CASE saves = <<>>
    <3>1. view = committed /\ saves' = <<>> /\ committed' = committed /\ ~(Len(saves) > 1)
      <4>1. view = committed
        BY <2>1, <2>2 DEF Drift, ConnInv
      <4> QED
        BY <1>1, <2>2, <4>1, EmptySeq
    <3>2. inTransaction' = FALSE /\ Len(saves') = 0 /\ saves' \in Seq(SUBSET Writes)
      <4>1. (Len(saves) > 1) = FALSE
        BY <3>1
      <4>2. inTransaction' = (Len(saves) > 1)
        BY <1>1, Zenon
      <4> QED
        BY <3>1, <4>1, <4>2, EmptySeq
    <3>3. Drift'
      BY <1>1, <1>2, <1>4, <3>1, <3>2 DEF Drift
    <3>4. ConnTypeOK'
      BY <1>1, <1>4, <3>1, <3>2 DEF ConnTypeOK
    <3> QED
      BY <1>1, <1>2, <1>4, <1>7, <3>1, <3>2, <3>3, <3>4 DEF ConnInv, Wedged
  <2>3. CASE saves # <<>>
    <3> DEFINE k == Len(saves)
               less == SubSeq(saves, 1, k - 1)
    <3>1. /\ k \in Nat \ {0} /\ less \in Seq(SUBSET Writes) /\ Len(less) = k - 1
          /\ \A i \in 1..(k - 1) : less[i] = saves[i]
          /\ k = 1 => less = <<>>
      BY <1>7, <2>3, DriftLess
    <3>2. saves' = less /\ inTransaction' = (k > 1)
      BY <1>1, <2>3
    <3>3. committed' \in SUBSET Writes /\ committed' \ loose = committed \ loose
      BY <1>1, <1>4, <2>1 DEF ConnTypeOK
    <3>4. k # 1 => committed' = committed
      BY <1>1
    <3>5. k = 1 => committed' = view
      BY <1>1
    <3>6. k < m /\ (\A i \in 1..k : saves[i] \ loose = committed \ loose) /\ saves[1] = committed
      BY <2>1, <2>3 DEF Drift
    <3> HIDE DEF k, less
    <3>7. ~inTransaction' => saves' = <<>> /\ view' = committed'
      <4> SUFFICES ASSUME ~inTransaction' PROVE saves' = <<>> /\ view' = committed'
        OBVIOUS
      <4>1. ~(k > 1)
        BY <3>2, Zenon
      <4>2. k = 1
        BY <3>1, <4>1
      <4> QED
        BY <1>1, <3>1, <3>2, <3>5, <4>2
    <3>8. \A i \in 1..Len(saves') : saves'[i] \ loose' = committed' \ loose'
      BY <1>1, <3>1, <3>2, <3>3, <3>6
    <3>9. saves' # <<>> => k # 1 /\ saves'[1] = committed'
      <4> SUFFICES ASSUME saves' # <<>> PROVE k # 1 /\ saves'[1] = committed'
        OBVIOUS
      <4>1. k # 1 /\ 1 \in 1..(k - 1)
        BY <3>1, <3>2
      <4> QED
        BY <4>1, <3>1, <3>2, <3>4, <3>6
    <3>10. Len(saves') < depth' /\ view' \ loose' = committed' \ loose'
      BY <1>1, <1>2, <1>4, <2>1, <3>1, <3>2, <3>3, <3>6
    <3>11. inTransaction' => saves' # <<>>
      <4> SUFFICES ASSUME inTransaction' PROVE saves' # <<>>
        OBVIOUS
      <4>1. k > 1
        BY <3>2, Zenon
      <4> QED
        BY <3>1, <3>2, <4>1, EmptySeq
    <3>12. Drift'
      BY <3>8, <3>9, <3>10, <3>11 DEF Drift
    <3>13. ConnTypeOK'
      <4>1. inTransaction' \in BOOLEAN
        BY <3>2
      <4> QED
        BY <1>1, <1>4, <3>1, <3>2, <3>3, <4>1 DEF ConnTypeOK
    <3>14. depth' > 0
      BY <1>2, <1>4
    <3>15. committed' \ loose' = kept'
      BY <1>1, <1>4, <3>3
    <3> QED
      BY <1>1, <1>4, <1>7, <3>7, <3>12, <3>13, <3>14, <3>15 DEF ConnInv, Wedged
  <2> QED
    BY <2>2, <2>3
<1> QED
  BY <1>6, <1>7

\* COMMIT, or its failure.
LEMMA CommitKeeps ==
    ASSUME ConnInv, NEW t \in Threads,
           ExitCommit(t) \/ \E over \in BOOLEAN : ExitCommitFails(t, over)
    PROVE  ConnInv'
<1>1. /\ Leaving(t) /\ frames' = [frames EXCEPT ![t] = Popped(t, {})]
      /\ t \notin raising /\ depth = 1 /\ raising' = raising /\ drawn' = drawn /\ Level(t) > 0
      /\ loose' = loose
  BY DEF ExitCommit, ExitCommitFails, Leaving
<1>2. {} \in SUBSET Writes
  OBVIOUS
<1>3. /\ frames' \in [Threads -> Seq(SUBSET Writes)]
      /\ lockOwner' \in Threads \cup {NoThread} /\ lockCount' \in Nat
      /\ depth' \in Nat /\ depth' = Level(t) - 1 /\ Turns'
      /\ depth' = 0 => \A u \in Threads : Level(u)' = 0
      /\ adrift' = (adrift /\ Level(t) > 1)
      /\ raising \subseteq {t} /\ depth = Level(t) /\ ConnTypeOK
      /\ committed \ loose = kept /\ kept \subseteq drawn /\ loose \subseteq drawn
  BY <1>1, <1>2, LeavingPops
<1>4. /\ depth' = 0 /\ raising' = {} /\ \A u \in Threads : Level(u)' = 0
      /\ adrift' = FALSE /\ ~(depth' > 0)
  <2>1. (Level(t) > 1) = FALSE
    BY <1>1, <1>3
  <2>2. adrift' = FALSE
    BY <1>3, <2>1, Zenon
  <2> QED
    BY <1>1, <1>3, <2>2
<1>5. Len(frames[t]) = 1 /\ frames[t] \in Seq(SUBSET Writes)
  BY <1>1, <1>3, Inside DEF Level
<1>6. frames[t][1] \in SUBSET Writes
  <2>1. 1 \in 1..Len(frames[t])
    BY <1>5
  <2> QED
    BY <1>5, <2>1, ElementOfSeq
<1>7. ~adrift => /\ view = committed \cup frames[t][1]
                 /\ frames[t][1] \subseteq drawn \ loose
  <2> SUFFICES ASSUME ~adrift
               PROVE  view = committed \cup frames[t][1] /\ frames[t][1] \subseteq drawn \ loose
    OBVIOUS
  <2>1. Layers(frames[t]) /\ Clean(frames[t])
    BY <1>1, Inside
  <2>2. Upto(frames[t], 1) = frames[t][1]
    BY DEF Upto
  <2> QED
    BY <1>5, <2>1, <2>2 DEF Layers, Clean
<1>8. adrift => ~inTransaction /\ view = committed
  <2> SUFFICES ASSUME adrift PROVE ~inTransaction /\ view = committed
    OBVIOUS
  <2>1. Drift
    BY DEF ConnInv
  <2>2. saves \in Seq(SUBSET Writes) /\ Len(saves) < 1
    BY <1>1, <1>3, <2>1 DEF Drift, ConnTypeOK
  <2>3. saves = <<>>
    BY <2>2, EmptySeq
  <2> QED
    BY <2>1, <2>3 DEF Drift, ConnInv
<1>9. CASE ExitCommit(t)
  <2>1. /\ committed' = view /\ inTransaction' = FALSE /\ saves' = <<>> /\ view' = view
        /\ kept' = (IF adrift THEN kept ELSE kept \cup frames[t][1]) /\ connFaults' = connFaults
    BY <1>1, <1>3, <1>9 DEF ExitCommit
  <2>2. committed' \ loose' = kept' /\ kept' \subseteq drawn' /\ kept' \in SUBSET Writes
    <3>1. kept \in SUBSET Writes
      BY <1>3 DEF ConnTypeOK
    <3>2. CASE adrift
      BY <2>1, <3>1, <3>2, <1>1, <1>3, <1>8
    <3>3. CASE ~adrift
      BY <2>1, <3>1, <3>3, <1>1, <1>3, <1>6, <1>7
    <3> QED
      BY <3>2, <3>3
  <2>3. ConnTypeOK'
    BY <2>1, <2>2, <1>1, <1>3, <1>4, EmptySeq DEF ConnTypeOK
  <2> QED
    BY <2>1, <2>2, <2>3, <1>1, <1>3, <1>4 DEF ConnInv, Wedged
<1>10. ASSUME NEW over \in BOOLEAN, ExitCommitFails(t, over) PROVE ConnInv'
  <2>1. /\ committed' = committed /\ kept' = kept /\ inTransaction' = ~over
        /\ view' = (IF over THEN committed ELSE view)
        /\ saves' = (IF over THEN <<>> ELSE saves) /\ connFaults' = connFaults + 1
    BY <1>10 DEF ExitCommitFails, Fault
  <2>2. saves' \in Seq(SUBSET Writes)
    BY <2>1, <1>3, EmptySeq DEF ConnTypeOK
  <2>3. ConnTypeOK'
    BY <2>1, <2>2, <1>1, <1>3, <1>4 DEF ConnTypeOK
  <2>4. ~inTransaction' => saves' = <<>> /\ view' = committed'
    BY <2>1
  <2>5. /\ committed' \ loose' = kept' /\ kept' \subseteq drawn' /\ loose' \subseteq drawn'
        /\ (\A u \in raising' : Level(u)' > 0)
    BY <2>1, <1>1, <1>3, <1>4
  <2> QED
    BY <2>3, <2>4, <2>5, <1>3, <1>4 DEF ConnInv
<1> QED
  BY <1>9, <1>10

\* ROLLBACK, ROLLBACK TO, or nothing when SQLite has ended the transaction.
LEMMA RollbackKeeps ==
    ASSUME ConnInv, NEW t \in Threads, ExitRollback(t)
    PROVE  ConnInv'
<1> DEFINE f == frames[t]
           m == Level(t)
           r == Popped(t, {})
<1>1. /\ Leaving(t) /\ frames' = [frames EXCEPT ![t] = r] /\ t \in raising /\ Level(t) > 0
      /\ raising' = (IF Level(t) = 1 THEN raising \ {t} ELSE raising) /\ loose' = loose
      /\ committed' = committed /\ kept' = kept /\ drawn' = drawn /\ connFaults' = connFaults
  BY DEF ExitRollback, Leaving
<1>2. {} \in SUBSET Writes
  OBVIOUS
<1>3. /\ frames' \in [Threads -> Seq(SUBSET Writes)] /\ frames'[t] = r
      /\ lockOwner' \in Threads \cup {NoThread} /\ lockCount' \in Nat
      /\ depth' \in Nat /\ depth' = m - 1 /\ Turns'
      /\ depth' > 0 => lockOwner' = t
      /\ depth' = 0 => \A u \in Threads : Level(u)' = 0
      /\ adrift' = (adrift /\ m > 1)
      /\ raising \subseteq {t} /\ m \in Nat \ {0} /\ ConnTypeOK
      /\ committed \ loose = kept /\ kept \subseteq drawn /\ loose \subseteq drawn
  BY <1>1, <1>2, LeavingPops
<1>4. /\ Len(r) = m - 1 /\ f \in Seq(SUBSET Writes) /\ Len(f) = m /\ depth = m
      /\ ~adrift /\ inTransaction => Layers(f) /\ Clean(f)
  BY <1>1, <1>2, PoppedIs, Inside DEF Level
<1>5. m = 1 => raising' = {}
  BY <1>1, <1>3
<1>6. m # 1 => raising' = raising /\ Level(t)' > 0 /\ depth' > 0 /\ lockOwner' = t
  BY <1>1, <1>3, <1>4 DEF Level
<1>7. \A u \in raising' : Level(u)' > 0
  BY <1>3, <1>5, <1>6
<1>8. CASE ~inTransaction
  <2>1. view' = view /\ saves' = saves /\ inTransaction' = inTransaction
    BY <1>8 DEF ExitRollback
  <2>2. saves = <<>> /\ view = committed
    BY <1>8 DEF ConnInv
  <2>3. ConnTypeOK'
    BY <2>1, <1>1, <1>3 DEF ConnTypeOK
  <2>4. depth' > 0 => lockOwner' \in raising'
    BY <1>1, <1>3, <1>5, <1>6
  <2>5. adrift' => Drift'
    <3>1. Len(saves') = 0 /\ \A i \in 1..Len(saves') : FALSE
      BY <2>1, <2>2, EmptySeq
    <3>2. adrift' => depth' > 0
      <4> SUFFICES ASSUME adrift' PROVE depth' > 0
        OBVIOUS
      <4>1. m > 1
        BY <1>3, Zenon
      <4> QED
        BY <1>3, <4>1
    <3> QED
      BY <2>1, <2>2, <3>1, <3>2, <1>1, <1>8 DEF Drift
  <2> QED
    BY <2>1, <2>2, <2>3, <2>4, <2>5, <1>1, <1>3, <1>7, <1>8 DEF ConnInv, Wedged
<1>9. CASE inTransaction /\ ~adrift
  <2>1. /\ Len(saves) = m /\ (\A i \in 1..m : saves[i] = committed \cup Upto(f, i - 1))
        /\ Clean(f) /\ adrift' = FALSE
    BY <1>3, <1>4, <1>9 DEF Layers
  <2>2. /\ view' = saves[m] /\ saves' = SubSeq(saves, 1, m - 1) /\ inTransaction' = (m > 1)
    BY <2>1, <1>9 DEF ExitRollback
  <2>3. /\ saves' \in Seq(SUBSET Writes) /\ Len(saves') = m - 1
        /\ \A i \in 1..(m - 1) : saves'[i] = saves[i]
    <3>1. saves \in Seq(SUBSET Writes) /\ m \in Nat \ {0}
      BY <1>3 DEF ConnTypeOK
    <3> HIDE DEF m
    <3> QED
      BY <2>1, <2>2, <3>1, SavesLess
  <2>4. saves[m] \in SUBSET Writes /\ saves[m] = committed \cup Upto(f, m - 1)
    <3>1. m \in 1..Len(saves) /\ m \in 1..m
      BY <1>3, <2>1
    <3> QED
      BY <2>1, <3>1, <1>3, ElementOfSeq DEF ConnTypeOK
  <2>5. ConnTypeOK'
    BY <2>1, <2>2, <2>3, <2>4, <1>1, <1>3 DEF ConnTypeOK
  <2>6. CASE m = 1
    <3>1. saves' = <<>> /\ inTransaction' = FALSE /\ depth' = 0
      <4>1. Len(saves') = 0 /\ ~(m > 1) /\ depth' = 0
        BY <2>3, <2>6, <1>3
      <4>2. saves' = <<>>
        BY <2>3, <4>1, EmptySeq
      <4>3. inTransaction' = (m > 1)
        BY <2>2, Zenon
      <4>4. inTransaction' = FALSE
        <5>1. (m > 1) = FALSE
          BY <4>1
        <5> QED
          BY <4>3, <5>1, Zenon
      <4> QED
        BY <4>1, <4>2, <4>4, Zenon
    <3>2. view' = committed'
      BY <2>2, <2>4, <2>6, <1>1, UptoZero
    <3> QED
      BY <2>1, <2>5, <3>1, <3>2, <1>1, <1>3, <1>7 DEF ConnInv, Wedged
  <2>7. CASE m # 1
    <3>1. m > 1 /\ inTransaction' = TRUE
      <4>1. m > 1
        BY <2>7, <1>3
      <4> HIDE DEF m
      <4> QED
        BY <2>2, <4>1
    <3>2. /\ \A i \in 0..(m - 2) : Upto(r, i) = Upto(f, i)
          /\ Upto(r, m - 1) = Upto(f, m - 1) \cup {}
      BY <3>1, <1>2, PoppedUpto
    <3>3. Clean(r)
      BY <3>1, <1>2, <2>1, PoppedClean
    <3> HIDE DEF f, m, r
    <3>4. Layers(frames[t])' /\ Clean(frames[t])'
      <4>1. \A i \in 1..(m - 1) : saves'[i] = committed' \cup Upto(r, i - 1)
        BY <1>1, <1>3, <2>1, <2>3, <3>2
      <4>2. view' = committed' \cup Upto(r, m - 1)
        BY <1>1, <2>2, <2>4, <3>2
      <4>3. /\ Len(saves') = Len(frames'[t])
            /\ \A i \in 1..Len(frames'[t]) : saves'[i] = committed' \cup Upto(frames'[t], i - 1)
            /\ view' = committed' \cup Upto(frames'[t], Len(frames'[t]))
        BY <1>3, <1>4, <2>3, <4>1, <4>2
      <4>4. \A i \in 1..Len(frames'[t]) : frames'[t][i] \subseteq drawn' \ loose'
        BY <1>1, <1>3, <3>3 DEF Clean
      <4> QED
        BY <4>3, <4>4, Zenon DEF Layers, Clean
    <3> QED
      BY <2>1, <2>5, <2>7, <3>1, <3>4, <1>1, <1>3, <1>6, <1>7 DEF ConnInv, Wedged
  <2> QED
    BY <2>6, <2>7
<1>10. CASE inTransaction /\ adrift
  <2> DEFINE k == Len(saves)
             less == SubSeq(saves, 1, k - 1)
  <2> HIDE DEF f, m, r
  <2>1. Drift /\ saves # <<>> /\ k < m /\ saves[1] = committed
    BY <1>4, <1>10 DEF ConnInv, Drift
  <2>2. /\ k \in Nat \ {0} /\ less \in Seq(SUBSET Writes) /\ Len(less) = k - 1
        /\ \A i \in 1..(k - 1) : less[i] = saves[i]
        /\ k = 1 => less = <<>>
        /\ saves[k] \in SUBSET Writes /\ saves[k] \ loose = committed \ loose
        /\ k = 1 => saves[k] = committed
    BY <1>10, <2>1, DriftLess
  <2>3. view' = saves[k] /\ saves' = less /\ inTransaction' = (k > 1)
    BY <1>10 DEF ExitRollback
  <2>4. \A i \in 1..k : saves[i] \ loose = committed \ loose
    BY <2>1 DEF Drift
  <2> HIDE DEF k, less
  <2>5. m > 1 /\ m # 1 /\ depth' > 0
    BY <1>3, <2>1, <2>2
  <2>6. adrift' = TRUE
    BY <1>3, <1>10, <2>5
  <2>7. ~inTransaction' => saves' = <<>> /\ view' = committed'
    <3> SUFFICES ASSUME ~inTransaction' PROVE saves' = <<>> /\ view' = committed'
      OBVIOUS
    <3>1. ~(k > 1)
      BY <2>3, Zenon
    <3>2. k = 1
      BY <2>2, <3>1
    <3> QED
      BY <1>1, <2>2, <2>3, <3>2
  <2>8. \A i \in 1..Len(saves') : saves'[i] \ loose' = committed' \ loose'
    BY <1>1, <2>2, <2>3, <2>4
  <2>9. saves' # <<>> => saves'[1] = committed'
    <3> SUFFICES ASSUME saves' # <<>> PROVE saves'[1] = committed'
      OBVIOUS
    <3>1. 1 \in 1..(k - 1)
      BY <2>2, <2>3
    <3> QED
      BY <3>1, <1>1, <2>1, <2>2, <2>3
  <2>10. Len(saves') < depth' /\ view' \ loose' = committed' \ loose'
    BY <1>1, <1>3, <2>1, <2>2, <2>3
  <2>11. inTransaction' => saves' # <<>>
    <3> SUFFICES ASSUME inTransaction' PROVE saves' # <<>>
      OBVIOUS
    <3>1. k > 1
      BY <2>3, Zenon
    <3> QED
      BY <2>2, <2>3, <3>1, EmptySeq
  <2>12. Drift'
    BY <2>8, <2>9, <2>10, <2>11 DEF Drift
  <2>13. ConnTypeOK'
    <3>1. inTransaction' \in BOOLEAN /\ view' \in SUBSET Writes
      BY <2>2, <2>3
    <3> QED
      BY <1>1, <1>3, <2>2, <2>3, <2>6, <3>1 DEF ConnTypeOK
  <2> QED
    BY <1>1, <1>3, <1>7, <2>5, <2>6, <2>7, <2>12, <2>13 DEF ConnInv, Wedged
<1> QED
  BY <1>8, <1>9, <1>10

LEMMA ConnStep == ConnInv /\ [ConnNext]_connVars => ConnInv'
<1> SUFFICES ASSUME ConnInv, [ConnNext]_connVars PROVE ConnInv'
  OBVIOUS
<1>1. ASSUME NEW t \in Threads, EnterRaises(t) PROVE ConnInv'
  <2>1. /\ Wedged /\ lockOwner' = t /\ lockCount' = lockCount + 1
        /\ UNCHANGED <<depth, inTransaction, saves, view, committed, raising, frames,
                       adrift, loose, kept, drawn, connFaults>>
    BY <1>1 DEF EnterRaises, Acquired
  <2> QED
    BY <2>1 DEF ConnInv, ConnTypeOK, Wedged, Level, Drift
<1>2. CASE Reconnect
  <2>1. /\ lockOwner' = NoThread /\ lockCount' = 0 /\ depth' = 0 /\ inTransaction' = FALSE
        /\ saves' = <<>> /\ view' = committed /\ raising' = {} /\ adrift' = FALSE
        /\ frames' = [t \in Threads |-> <<>>] /\ connFaults' = connFaults + 1
        /\ committed' = committed /\ loose' = loose /\ kept' = kept /\ drawn' = drawn
    BY <1>2 DEF Reconnect, Fault
  <2>2. \A t \in Threads : Level(t)' = 0
    BY <2>1 DEF Level
  <2>3. ConnTypeOK'
    <3>1. ConnTypeOK
      BY DEF ConnInv
    <3>2. saves' \in Seq(SUBSET Writes) /\ frames' \in [Threads -> Seq(SUBSET Writes)]
      BY <2>1, EmptySeq
    <3>3. connFaults' \in Nat
      BY <2>1, <3>1 DEF ConnTypeOK
    <3> QED
      BY <2>1, <3>1, <3>2, <3>3 DEF ConnTypeOK
  <2>4. Turns'
    BY <2>1, <2>2 DEF Turns
  <2> QED
    BY <2>1, <2>3, <2>4 DEF ConnInv, Wedged
<1>3. CASE UNCHANGED connVars
  <2>1. /\ lockOwner' = lockOwner /\ lockCount' = lockCount /\ depth' = depth
        /\ inTransaction' = inTransaction /\ saves' = saves /\ view' = view
        /\ committed' = committed /\ raising' = raising /\ frames' = frames
        /\ adrift' = adrift /\ loose' = loose
        /\ kept' = kept /\ drawn' = drawn /\ connFaults' = connFaults
    BY <1>3 DEF connVars
  <2> QED
    BY <2>1 DEF ConnInv, ConnTypeOK, Wedged, Turns, Level, Layers, Clean, Drift
<1> QED
  BY <1>1, <1>2, <1>3, EnterKeeps, ExecuteKeeps, ExceptionKeeps, ReleaseKeeps, CommitKeeps,
     RollbackKeeps DEF ConnNext

LEMMA ConnInvariant == ConnSpec => []ConnInv
<1>1. ConnInit => ConnInv
  <2> SUFFICES ASSUME ConnInit PROVE ConnInv
    OBVIOUS
  <2>1. ConnTypeOK
    BY EmptySeq DEF ConnInit, ConnTypeOK
  <2>2. Turns
    BY DEF ConnInit, Turns, Level
  <2> QED
    BY <2>1, <2>2 DEF ConnInit, ConnInv, Wedged
<1>2. ConnInv /\ [ConnNext]_connVars => ConnInv'
  BY ConnStep
<1> QED
  BY <1>1, <1>2, PTL DEF ConnSpec

(* For any number of threads, blocks and faults: what is in the database is *)
(* what the blocks that ended normally have written, and what was executed  *)
(* in a block that went on without its transaction.                         *)
THEOREM BlocksAreWhole == ConnSpec => []WholeBlocks
<1>1. ConnInv => WholeBlocks
  BY DEF ConnInv, WholeBlocks
<1> QED
  BY <1>1, ConnInvariant, PTL

(* The lock follows the blocks, but for a COMMIT that left its transaction  *)
(* open.                                                                    *)
THEOREM LockIsHeldInside == ConnSpec => []LockFollowsBlocks
<1>1. ConnInv => LockFollowsBlocks
  BY DEF ConnInv, Turns, LockFollowsBlocks
<1> QED
  BY <1>1, ConnInvariant, PTL

(* What a transaction of any other module takes for granted.                *)
THEOREM BlocksHold == ConnSpec => []BlocksAreAtomic
<1>1. WholeBlocks /\ LockFollowsBlocks => BlocksAreAtomic
  BY DEF BlocksAreAtomic
<1> QED
  BY <1>1, BlocksAreWhole, LockIsHeldInside, PTL

-----------------------------------------------------------------------------
(* Readiness. *)

(* A row that says RUNNING was written while the worker was able to trade,  *)
(* or by a resume, and is not newer than that.                              *)
ReadyInv ==
    /\ time \in Nat /\ back \in Nat /\ lastOpen \in Int /\ lastResume \in Int
    /\ lastOpen <= time /\ lastResume <= time
    /\ CanTrade => lastOpen = time
    /\ state # NoState => state.stamp \in Int
    /\ state # NoState /\ state.fsm = "RUNNING" =>
          \/ lastOpen >= 0 /\ state.stamp <= lastOpen
          \/ lastResume >= 0 /\ state.stamp <= lastResume

LEMMA ReadyStep == ReadyInv /\ [ReadyNext]_readyVars => ReadyInv'
<1> SUFFICES ASSUME ReadyInv, [ReadyNext]_readyVars PROVE ReadyInv'
  OBVIOUS
<1> USE DEF ReadyInv, CanTrade
<1>1. CASE TimePasses
  <2>1. /\ time' = time + 1 /\ back' = back /\ alive' = alive /\ machine' = machine
        /\ lastResume' = lastResume /\ state' = state
        /\ lastOpen' = IF alive /\ machine = "RUNNING" THEN time + 1 ELSE lastOpen
    BY <1>1 DEF TimePasses, Noted, api
  <2> QED
    BY <2>1
<1>2. CASE ClockSetBack
  <2>1. /\ back' = back + 1 /\ time' = time /\ alive' = alive /\ machine' = machine
        /\ lastResume' = lastResume /\ state' = state /\ lastOpen' = lastOpen
    BY <1>2 DEF ClockSetBack, worker, api
  <2> QED
    BY <2>1
<1>3. ASSUME NEW feedsOk \in BOOLEAN, NEW ok \in BOOLEAN, WorkerStarts(feedsOk, ok)
      PROVE  ReadyInv'
  <2>1. /\ time' = time /\ back' = back /\ lastResume' = lastResume
        /\ state' = [fsm |-> machine', stamp |-> time - back]
        /\ lastOpen' = IF machine' = "RUNNING" THEN time ELSE lastOpen
    BY <1>3 DEF WorkerStarts, Published, Noted, Clock, api
  <2>2. state'.stamp = time - back /\ state'.fsm = machine'
    BY <2>1
  <2> QED
    BY <2>1, <2>2
<1>4. ASSUME NEW feedsOk \in BOOLEAN, WorkerDrains(feedsOk) PROVE ReadyInv'
  <2>1. /\ time' = time /\ back' = back /\ lastResume' = lastResume /\ state' = state
        /\ lastOpen' = IF machine' = "RUNNING" THEN time ELSE lastOpen
    BY <1>4 DEF WorkerDrains, Noted, api
  <2> QED
    BY <2>1
<1>5. CASE WorkerPublishes
  <2>1. /\ alive /\ time' = time /\ back' = back /\ alive' = alive /\ machine' = machine
        /\ lastOpen' = lastOpen /\ lastResume' = lastResume
        /\ state' = [fsm |-> machine, stamp |-> time - back]
    BY <1>5 DEF WorkerPublishes, Published, Clock, api
  <2>2. state'.stamp = time - back /\ state'.fsm = machine
    BY <2>1
  <2> QED
    BY <2>1, <2>2
<1>6. CASE CycleRaises
  <2>1. /\ time' = time /\ back' = back /\ alive' = alive /\ lastOpen' = lastOpen
        /\ lastResume' = lastResume /\ state' = state
        /\ machine' = "RUNNING" => machine = "RUNNING"
    BY <1>6 DEF CycleRaises, api
  <2> QED
    BY <2>1
<1>7. CASE WorkerDies
  <2>1. /\ time' = time /\ back' = back /\ alive' = FALSE /\ lastOpen' = lastOpen
        /\ lastResume' = lastResume /\ state' = state
    BY <1>7 DEF WorkerDies, api
  <2> QED
    BY <2>1
<1>11. ASSUME NEW n \in 0..MaxOrders, NEW dies \in BOOLEAN, DrainBreaksOff(n, dies)
       PROVE  ReadyInv'
  <2>1. /\ time' = time /\ back' = back /\ lastOpen' = lastOpen
        /\ lastResume' = lastResume /\ state' = state /\ machine' \in {"HALTED", "DEGRADED"}
    BY <1>11 DEF DrainBreaksOff, api
  <2> QED
    BY <2>1
<1>8. ASSUME NEW kind \in {"halt", "resume"}, Order(kind) PROVE ReadyInv'
  <2>1. /\ time' = time /\ back' = back /\ alive' = alive /\ machine' = machine
        /\ lastOpen' = lastOpen /\ lastResume' = lastResume /\ state' = state
    BY <1>8 DEF Order
  <2> QED
    BY <2>1
<1>9. ASSUME NEW kind \in {"halt", "resume"}, NEW fails \in BOOLEAN, OrderWrites(kind, fails)
      PROVE  ReadyInv'
  <2>1. /\ time' = time /\ back' = back /\ alive' = alive /\ machine' = machine
        /\ lastOpen' = lastOpen
    BY <1>9 DEF OrderWrites, worker
  <2>2. CASE fails \/ state = NoState
    <3>1. state' = state /\ lastResume' = lastResume
      BY <1>9, <2>2 DEF OrderWrites
    <3> QED
      BY <2>1, <3>1
  <2>3. CASE ~(fails \/ state = NoState)
    <3>1. /\ state' = [fsm |-> IF kind = "halt" THEN "HALTED" ELSE "RUNNING", stamp |-> time - back]
          /\ lastResume' = IF kind = "resume" THEN time ELSE lastResume
      BY <1>9, <2>3 DEF OrderWrites, Published, Clock
    <3>2. /\ state'.stamp = time - back
          /\ state'.fsm = IF kind = "halt" THEN "HALTED" ELSE "RUNNING"
      BY <3>1
    <3> QED
      BY <2>1, <3>1, <3>2
  <2> QED
    BY <2>2, <2>3
<1>10. CASE UNCHANGED readyVars
  BY <1>10 DEF readyVars
<1> QED
  BY <1>1, <1>2, <1>3, <1>4, <1>5, <1>6, <1>7, <1>8, <1>9, <1>10, <1>11
  DEF ReadyNext, WorkerLoop, OrderEnds

(* Whatever dies, hangs or raises, and however late the API writes: /ready  *)
(* says of a bot that cannot trade that it is enabled for the length of the *)
(* threshold and no longer.                                                 *)
THEOREM ReportIsBounded == ReadySpec => []ReadyIsBounded
<1>1. ReadyInit => ReadyInv
  BY DEF ReadyInit, ReadyInv, CanTrade
<1>2. ReadyInv => ReadyIsBounded
  <2> SUFFICES ASSUME ReadyInv, Enabled, ~CanTrade PROVE ReadyIsBounded
    BY DEF ReadyIsBounded
  <2>1. state # NoState /\ ~(time - back - state.stamp > Threshold) /\ state.fsm = "RUNNING"
    BY DEF Enabled, Stale, Age, Clock
  <2> QED
    BY <2>1, ReadinessAssumption DEF ReadyInv, ReadyIsBounded
<1> QED
  BY <1>1, <1>2, ReadyStep, PTL DEF ReadySpec

-----------------------------------------------------------------------------
(* Sessions. *)

Places == {"idle", "check", "tooMany", "record", "recordWrite", "rejected", "clear",
           "found", "refused", "raised", "granted"}

AuthInv ==
    /\ clock \in Int
    /\ sessions \in [SessionIds -> [account : Accounts \cup {NoSession}, expires : Int] \cup {NoSession}]
    /\ issued \in [SessionIds -> Accounts \cup {NoSession}]
    /\ doing \in [Clients -> Places]
    /\ token \in [Clients -> Accounts \cup {NoSession}]
    /\ cookie \in [Clients -> SessionIds \cup {NoSession}]
    /\ granted \in [Clients -> Accounts \cup {NoSession}]
    /\ \A s \in SessionIds : sessions[s] # NoSession =>
          sessions[s].account = issued[s] /\ issued[s] # NoSession /\ s \notin ended
    /\ \A s \in ended : issued[s] # NoSession
    /\ ended \subseteq SessionIds
    /\ \A c \in Clients :
          /\ doing[c] = "clear" => token[c] # NoSession
          /\ doing[c] \in {"found", "granted"} =>
                cookie[c] \in SessionIds /\ issued[cookie[c]] # NoSession
          /\ granted[c] # NoSession => doing[c] = "granted" /\ granted[c] = issued[cookie[c]]

LEMMA AuthStep == AuthInv /\ [AuthNext]_authVars => AuthInv'
<1> SUFFICES ASSUME AuthInv, [AuthNext]_authVars PROVE AuthInv'
  OBVIOUS
<1> USE DEF AuthInv, Places
<1>1. CASE ClockTicks
  BY <1>1 DEF ClockTicks, requests, histories, counts
<1>2. ASSUME NEW c \in Clients, NEW account \in Accounts \cup {NoSession}, CheckReads(c, account)
      PROVE  AuthInv'
  BY <1>2 DEF CheckReads, Turn
<1>3. ASSUME NEW c \in Clients, CheckWrites(c) PROVE AuthInv'
  <2>1. /\ doing[c] = "check"
        /\ UNCHANGED <<clock, sessions, token, cookie, granted, issued, ended>>
        /\ doing' = [doing EXCEPT ![c] = IF Count(read[c]) >= MaxFailed THEN "tooMany"
                                        ELSE IF token[c] = NoSession THEN "record" ELSE "clear"]
    BY <1>3 DEF CheckWrites, requests, histories, Turn
  <2> QED
    BY <2>1
<1>4. ASSUME NEW c \in Clients, RecordReads(c) \/ RecordWrites(c) PROVE AuthInv'
  <2>1. /\ doing[c] \in {"record", "recordWrite"}
        /\ UNCHANGED <<clock, sessions, token, cookie, granted, issued, ended>>
        /\ \E where \in {"recordWrite", "rejected"} : doing' = [doing EXCEPT ![c] = where]
    BY <1>4 DEF RecordReads, RecordWrites, requests, histories, Turn
  <2> QED
    BY <2>1
<1>5. ASSUME NEW c \in Clients, NEW s \in SessionIds, LogsIn(c, s) PROVE AuthInv'
  <2>1. /\ doing[c] = "clear" /\ issued[s] = NoSession /\ token[c] # NoSession
        /\ sessions' = [sessions EXCEPT ![s] = [account |-> token[c], expires |-> clock + Duration]]
        /\ issued' = [issued EXCEPT ![s] = token[c]]
        /\ doing' = [doing EXCEPT ![c] = "idle"]
        /\ token' = [token EXCEPT ![c] = NoSession]
        /\ UNCHANGED <<clock, cookie, granted, ended>>
    BY <1>5 DEF LogsIn, SessionOf, Turn, Expiry
  <2> DEFINE new == [account |-> token[c], expires |-> clock + Duration]
  <2>2. new \in [account : Accounts \cup {NoSession}, expires : Int] /\ new.account = token[c]
    BY SessionAssumption
  <2> HIDE DEF new
  <2>3. /\ sessions' \in [SessionIds -> [account : Accounts \cup {NoSession}, expires : Int] \cup {NoSession}]
        /\ sessions'[s] = new /\ \A u \in SessionIds : u # s => sessions'[u] = sessions[u]
    BY <2>1, <2>2 DEF new
  <2>4. /\ issued' \in [SessionIds -> Accounts \cup {NoSession}] /\ issued'[s] = token[c]
        /\ \A u \in SessionIds : u # s => issued'[u] = issued[u]
    BY <2>1
  <2>5. \A u \in SessionIds : sessions'[u] # NoSession =>
            sessions'[u].account = issued'[u] /\ issued'[u] # NoSession /\ u \notin ended'
    BY <2>1, <2>2, <2>3, <2>4
  <2>6. \A u \in ended' : issued'[u] # NoSession
    BY <2>1, <2>4
  <2>7. ASSUME NEW d \in Clients
        PROVE  /\ doing'[d] = "clear" => token'[d] # NoSession
               /\ doing'[d] \in {"found", "granted"} =>
                     cookie'[d] \in SessionIds /\ issued'[cookie'[d]] # NoSession
               /\ granted'[d] # NoSession =>
                     doing'[d] = "granted" /\ granted'[d] = issued'[cookie'[d]]
    <3>1. CASE d = c
      BY <3>1, <2>1
    <3>2. CASE d # c
      <4>1. doing'[d] = doing[d] /\ token'[d] = token[d] /\ cookie' = cookie /\ granted' = granted
        BY <3>2, <2>1
      <4>2. doing[d] \in {"found", "granted"} => cookie[d] # s /\ issued'[cookie[d]] = issued[cookie[d]]
        BY <2>1, <2>4
      <4> QED
        BY <4>1, <4>2
    <3> QED
      BY <3>1, <3>2
  <2>8. /\ clock' \in Int /\ doing' \in [Clients -> Places] /\ ended' \subseteq SessionIds
        /\ token' \in [Clients -> Accounts \cup {NoSession}]
        /\ cookie' \in [Clients -> SessionIds \cup {NoSession}]
        /\ granted' \in [Clients -> Accounts \cup {NoSession}]
    BY <2>1
  <2> QED
    BY <2>3, <2>4, <2>5, <2>6, <2>7, <2>8
<1>6. ASSUME NEW c \in Clients, NEW s \in SessionIds, LooksUp(c, s) PROVE AuthInv'
  <2>1. /\ doing[c] = "idle" /\ issued[s] # NoSession
        /\ cookie' = [cookie EXCEPT ![c] = s]
        /\ doing' = [doing EXCEPT ![c] = IF sessions[s] = NoSession THEN "refused" ELSE "found"]
        /\ UNCHANGED <<clock, sessions, token, granted, issued, ended>>
    BY <1>6 DEF LooksUp, Turn, histories
  <2> QED
    BY <2>1
<1>7. ASSUME NEW c \in Clients, Reads(c) PROVE AuthInv'
  <2> DEFINE s == cookie[c]
  <2>1. /\ doing[c] = "found" /\ s \in SessionIds /\ issued[s] # NoSession
        /\ UNCHANGED <<clock, token, cookie, issued, ended>>
    BY <1>7 DEF Reads, histories
  <2>2. CASE sessions[s] = NoSession
    <3>1. sessions' = sessions /\ granted' = granted /\ doing' = [doing EXCEPT ![c] = "raised"]
      BY <1>7, <2>2 DEF Reads, Turn
    <3> QED
      BY <2>1, <3>1
  <2>3. CASE sessions[s] # NoSession /\ Expired(s)
    <3>1. /\ sessions' = [sessions EXCEPT ![s] = NoSession] /\ granted' = granted
          /\ doing' = [doing EXCEPT ![c] = "refused"]
      BY <1>7, <2>3 DEF Reads, Turn
    <3> QED
      BY <2>1, <3>1
  <2>4. CASE sessions[s] # NoSession /\ ~Expired(s)
    <3>1. /\ sessions' = sessions /\ granted' = [granted EXCEPT ![c] = sessions[s].account]
          /\ doing' = [doing EXCEPT ![c] = "granted"]
      BY <1>7, <2>4 DEF Reads, Turn
    <3>2. sessions[s].account = issued[s] /\ issued[s] \in Accounts \cup {NoSession}
      BY <2>1, <2>4
    <3> QED
      BY <2>1, <3>1, <3>2
  <2> QED
    BY <2>2, <2>3, <2>4
<1>8. ASSUME NEW c \in Clients, NEW s \in SessionIds, LogsOut(c, s) PROVE AuthInv'
  <2>1. /\ issued[s] # NoSession /\ sessions' = [sessions EXCEPT ![s] = NoSession]
        /\ ended' = ended \cup {s}
        /\ UNCHANGED <<clock, doing, token, cookie, granted, issued>>
    BY <1>8 DEF LogsOut, requests
  <2> QED
    BY <2>1
<1>9. ASSUME NEW c \in Clients, Answered(c) PROVE AuthInv'
  <2>1. /\ doing' = [doing EXCEPT ![c] = "idle"] /\ token' = [token EXCEPT ![c] = NoSession]
        /\ cookie' = [cookie EXCEPT ![c] = NoSession] /\ granted' = [granted EXCEPT ![c] = NoSession]
        /\ UNCHANGED <<clock, sessions, issued, ended>>
    BY <1>9 DEF Answered, Turn, histories
  <2> QED
    BY <2>1
<1>10. CASE UNCHANGED authVars
  BY <1>10 DEF authVars
<1> QED
  BY <1>1, <1>2, <1>3, <1>4, <1>5, <1>6, <1>7, <1>8, <1>9, <1>10 DEF AuthNext

(* For any number of clients, sessions and accounts: a request is answered  *)
(* for the account its session was created for, and a session that was      *)
(* logged out stays out.                                                    *)
THEOREM SessionsStandForOne == AuthSpec => []SessionsAreBound
<1>1. AuthInit => AuthInv
  BY DEF AuthInit, AuthInv, Places
<1>2. AuthInv => SessionsAreBound
  BY DEF AuthInv, SessionsAreBound
<1> QED
  BY <1>1, <1>2, AuthStep, PTL DEF AuthSpec

-----------------------------------------------------------------------------
(* The limit on failed logins. *)

Covers(bag, more) == \A f \in Instants : bag[f] <= more[f]

BagsInv ==
    /\ clock \in Instants
    /\ attempts \in [Instants -> Nat]
    /\ failures \in [Instants -> Nat]
    /\ uncleared \in [Instants -> Nat]
    /\ read \in [Clients -> [Instants -> Nat]]
    /\ DOMAIN doing = Clients

InWindow(bag, t) == \A f \in Instants : bag[f] > 0 => f \in t - Window + 1 .. t

(* What is counted has happened: the attempts that are stored or read are   *)
(* no more than the failures, those of a thread that checks them lie within *)
(* one window, and a thread that turns a login away has counted enough.     *)
FailureInv ==
    /\ \A f \in Instants : failures[f] > 0 => f <= clock
    /\ Covers(attempts, failures)
    /\ \A c \in Clients : Covers(read[c], failures)
    /\ \A c \in Clients : doing[c] \in {"check", "tooMany"} =>
          \E t \in 0..clock : InWindow(read[c], t)
    /\ \A c \in Clients : doing[c] = "tooMany" => Count(read[c]) >= MaxFailed

(* While logins have not overlapped, the stored attempts are those since    *)
(* the last login that succeeded, but for a failure about to be written;    *)
(* and so are those that the login under way has read.                      *)
SerialInv ==
    ~overlapped =>
        /\ \A c, d \in Clients : InLogin(c) /\ InLogin(d) => c = d
        /\ \A f \in Instants : clock - f < Window =>
              /\ (\A c \in Clients : doing[c] # "recordWrite") => attempts[f] = uncleared[f]
              /\ \A c \in Clients :
                    doing[c] \in {"check", "recordWrite"} => read[c][f] = uncleared[f]

LimitInv == BagsInv /\ FailureInv /\ SerialInv

(* What the filter and the new attempt are made of. *)
LEMMA RecentType ==
    ASSUME BagsInv, NEW bag \in [Instants -> Nat]
    PROVE  /\ Recent(bag) \in [Instants -> Nat]
           /\ WithNow(bag) \in [Instants -> Nat]
           /\ \A f \in Instants : Recent(bag)[f] = IF clock - f < Window THEN bag[f] ELSE 0
           /\ \A f \in Instants : WithNow(bag)[f] = IF f = clock THEN bag[f] + 1 ELSE bag[f]
  BY DEF Recent, Within, WithNow, BagsInv

(* Every step of a thread keeps the three. *)
LEMMA LimitStep == LimitInv /\ [AuthNext]_authVars => LimitInv'
<1> SUFFICES ASSUME LimitInv, [AuthNext]_authVars PROVE LimitInv'
  OBVIOUS
<1>0. /\ BagsInv /\ FailureInv /\ SerialInv
      /\ NoAttempts \in [Instants -> Nat] /\ \A f \in Instants : NoAttempts[f] = 0
      /\ \A f \in Instants : f \in Nat
      /\ Window \in Nat \ {0} /\ MaxClock \in Nat
  BY SessionAssumption DEF LimitInv, NoAttempts, Instants
<1>1. CASE ClockTicks
  <2>1. /\ clock' = clock + 1 /\ clock < MaxClock
        /\ UNCHANGED <<attempts, doing, read, failures, uncleared, overlapped>>
    BY <1>1 DEF ClockTicks, requests, histories, counts
  <2>2. BagsInv'
    BY <1>0, <2>1 DEF BagsInv, Instants
  <2>3. FailureInv'
    <3>1. 0..clock \subseteq 0..(clock + 1) /\ \A f \in Instants : f <= clock => f <= clock + 1
      BY <1>0 DEF BagsInv, Instants
    <3> QED
      BY <1>0, <2>1, <3>1 DEF FailureInv, InWindow, Covers, Count
  <2>4. SerialInv'
    BY <1>0, <2>1 DEF BagsInv, SerialInv, InLogin, Instants
  <2> QED
    BY <2>2, <2>3, <2>4 DEF LimitInv
<1>2. ASSUME NEW c \in Clients, NEW account \in Accounts \cup {NoSession}, CheckReads(c, account)
      PROVE  LimitInv'
  <2>1. /\ doing[c] = "idle" /\ doing' = [doing EXCEPT ![c] = "check"]
        /\ read' = [read EXCEPT ![c] = Recent(attempts)]
        /\ overlapped' = (overlapped \/ \E d \in Clients : InLogin(d))
        /\ UNCHANGED <<clock, attempts, failures, uncleared>>
    BY <1>2 DEF CheckReads, Turn
  <2>2. /\ Recent(attempts) \in [Instants -> Nat]
        /\ \A f \in Instants : Recent(attempts)[f] = IF clock - f < Window THEN attempts[f] ELSE 0
    BY <1>0, RecentType DEF BagsInv
  <2>3. BagsInv'
    BY <1>0, <2>1, <2>2 DEF BagsInv
  <2>4. FailureInv'
    <3>1. Covers(Recent(attempts), failures)
      BY <1>0, <2>2 DEF BagsInv, FailureInv, Covers
    <3>2. InWindow(Recent(attempts), clock) /\ clock \in 0..clock
      <4> SUFFICES ASSUME NEW f \in Instants, Recent(attempts)[f] > 0
                   PROVE  f \in clock - Window + 1 .. clock
        BY <1>0 DEF InWindow, BagsInv, Instants
      <4>1. clock - f < Window /\ attempts[f] > 0
        BY <2>2
      <4>2. failures[f] > 0
        BY <1>0, <4>1 DEF BagsInv, FailureInv, Covers
      <4> QED
        BY <1>0, <4>1, <4>2 DEF BagsInv, FailureInv, Instants
    <3>3. read'[c] = Recent(attempts) /\ \A d \in Clients : d # c => read'[d] = read[d]
      BY <1>0, <2>1 DEF BagsInv
    <3>4. doing'[c] = "check" /\ \A d \in Clients : d # c => doing'[d] = doing[d]
      BY <1>0, <2>1 DEF BagsInv
    <3> QED
      BY <1>0, <2>1, <3>1, <3>2, <3>3, <3>4 DEF FailureInv, Covers, InWindow
  <2>5. SerialInv'
    <3> SUFFICES ASSUME ~overlapped' PROVE SerialInv'
      BY DEF SerialInv
    <3>1. ~overlapped /\ \A d \in Clients : ~InLogin(d)
      BY <2>1
    <3>2. \A d \in Clients : d # c => ~InLogin(d)'
      BY <1>0, <2>1, <3>1 DEF BagsInv, InLogin
    <3>3. \A f \in Instants : clock - f < Window => attempts[f] = uncleared[f]
      BY <1>0, <3>1 DEF SerialInv, InLogin
    <3>4. \A f \in Instants : clock - f < Window => read'[c][f] = uncleared[f]
      BY <1>0, <2>1, <2>2, <3>3 DEF BagsInv
    <3> QED
      BY <2>1, <3>2, <3>3, <3>4 DEF SerialInv, InLogin
  <2> QED
    BY <2>3, <2>4, <2>5 DEF LimitInv
<1>3. ASSUME NEW c \in Clients, CheckWrites(c) PROVE LimitInv'
  <2>1. /\ doing[c] = "check" /\ attempts' = read[c]
        /\ UNCHANGED <<clock, read, failures, uncleared, overlapped>>
    BY <1>3 DEF CheckWrites, requests, histories, counts
  <2>2. /\ \A d \in Clients : d # c => doing'[d] = doing[d]
        /\ doing'[c] \in {"tooMany", "record", "clear"}
        /\ doing'[c] = "tooMany" => Count(read[c]) >= MaxFailed
        /\ DOMAIN doing' = Clients
    BY <1>0, <1>3 DEF CheckWrites, Turn, BagsInv
  <2>3. BagsInv'
    BY <1>0, <2>1, <2>2 DEF BagsInv
  <2>4. FailureInv'
    BY <1>0, <2>1, <2>2 DEF FailureInv, Count
  <2>5. SerialInv'
    <3>1. InLogin(c)
      BY <2>1 DEF InLogin
    <3>2. \A d \in Clients : InLogin(d)' => InLogin(d)
      BY <2>2, <3>1 DEF InLogin
    <3> QED
      BY <1>0, <2>1, <2>2, <3>1, <3>2 DEF SerialInv, InLogin
  <2> QED
    BY <2>3, <2>4, <2>5 DEF LimitInv
<1>4. ASSUME NEW c \in Clients, RecordReads(c) PROVE LimitInv'
  <2> DEFINE new == WithNow(Recent(attempts))
  <2>1. /\ doing[c] = "record" /\ doing' = [doing EXCEPT ![c] = "recordWrite"]
        /\ read' = [read EXCEPT ![c] = new]
        /\ failures' = WithNow(failures) /\ uncleared' = WithNow(uncleared)
        /\ UNCHANGED <<clock, attempts, overlapped>>
    BY <1>4 DEF RecordReads, Turn
  <2>2. /\ new \in [Instants -> Nat]
        /\ \A f \in Instants :
              new[f] = (IF clock - f < Window THEN attempts[f] ELSE 0)
                       + (IF f = clock THEN 1 ELSE 0)
    <3>1. /\ Recent(attempts) \in [Instants -> Nat]
          /\ \A f \in Instants : Recent(attempts)[f] = IF clock - f < Window THEN attempts[f] ELSE 0
      BY <1>0, RecentType DEF BagsInv
    <3> HIDE DEF new
    <3>2. /\ new \in [Instants -> Nat]
          /\ \A f \in Instants : new[f] = IF f = clock THEN Recent(attempts)[f] + 1
                                          ELSE Recent(attempts)[f]
      BY <1>0, <3>1, RecentType DEF new
    <3> QED
      BY <1>0, <3>1, <3>2 DEF BagsInv
  <2>3. /\ failures' \in [Instants -> Nat] /\ uncleared' \in [Instants -> Nat]
        /\ \A f \in Instants : failures'[f] = failures[f] + (IF f = clock THEN 1 ELSE 0)
        /\ \A f \in Instants : uncleared'[f] = uncleared[f] + (IF f = clock THEN 1 ELSE 0)
    <3>1. failures \in [Instants -> Nat] /\ uncleared \in [Instants -> Nat]
      BY <1>0 DEF BagsInv
    <3> QED
      BY <1>0, <2>1, <3>1, RecentType
  <2> HIDE DEF new
  <2>4. read'[c] = new /\ \A d \in Clients : d # c => read'[d] = read[d]
    BY <1>0, <2>1 DEF BagsInv
  <2>5. doing'[c] = "recordWrite" /\ \A d \in Clients : d # c => doing'[d] = doing[d]
    BY <1>0, <2>1 DEF BagsInv
  <2>6. BagsInv'
    BY <1>0, <2>1, <2>2, <2>3 DEF BagsInv
  <2>7. FailureInv'
    <3>1. /\ Covers(new, failures') /\ Covers(attempts', failures')
          /\ \A d \in Clients : Covers(read[d], failures')
      <4>1. ASSUME NEW f \in Instants
            PROVE  /\ attempts[f] \in Nat /\ failures[f] \in Nat /\ attempts[f] <= failures[f]
                   /\ new[f] <= failures'[f] /\ failures[f] <= failures'[f]
        BY <1>0, <2>2, <2>3 DEF BagsInv, FailureInv, Covers
      <4>2. \A d \in Clients, f \in Instants :
               read[d][f] \in Nat /\ read[d][f] <= failures[f] /\ failures'[f] \in Nat
        BY <1>0, <2>3 DEF BagsInv, FailureInv, Covers
      <4> QED
        BY <2>1, <4>1, <4>2 DEF Covers
    <3>2. \A f \in Instants : failures'[f] > 0 => f <= clock'
      BY <1>0, <2>1, <2>3 DEF BagsInv, FailureInv
    <3>3. \A d \in Clients : Covers(read'[d], failures')
      BY <2>4, <3>1
    <3>4. ASSUME NEW d \in Clients, doing'[d] \in {"check", "tooMany"}
          PROVE  /\ d # c /\ read'[d] = read[d] /\ doing[d] = doing'[d]
                 /\ \E t \in 0..clock : InWindow(read[d], t)
      BY <1>0, <2>4, <2>5, <3>4 DEF FailureInv
    <3> QED
      BY <1>0, <2>1, <3>1, <3>2, <3>3, <3>4 DEF FailureInv, InWindow, Count
  <2>8. SerialInv'
    <3> SUFFICES ASSUME ~overlapped PROVE SerialInv'
      BY <2>1 DEF SerialInv
    <3>1. InLogin(c) /\ \A d \in Clients : InLogin(d) => d = c
      BY <1>0, <2>1 DEF SerialInv, InLogin
    <3>2. \A d \in Clients : d # c => ~InLogin(d) /\ doing'[d] = doing[d]
      BY <2>5, <3>1
    <3>3. \A f \in Instants : clock - f < Window => attempts[f] = uncleared[f]
      BY <1>0, <2>1, <3>2 DEF SerialInv, InLogin
    <3>4. \A f \in Instants : clock - f < Window => read'[c][f] = uncleared'[f]
      BY <1>0, <2>2, <2>3, <2>4, <3>3 DEF BagsInv
    <3> QED
      BY <2>1, <2>5, <3>2, <3>4 DEF SerialInv, InLogin
  <2> QED
    BY <2>6, <2>7, <2>8 DEF LimitInv
<1>5. ASSUME NEW c \in Clients, RecordWrites(c) PROVE LimitInv'
  <2>1. /\ doing[c] = "recordWrite" /\ attempts' = read[c]
        /\ doing' = [doing EXCEPT ![c] = "rejected"]
        /\ UNCHANGED <<clock, read, failures, uncleared, overlapped>>
    BY <1>5 DEF RecordWrites, Turn, requests, histories, counts
  <2>2. doing'[c] = "rejected" /\ \A d \in Clients : d # c => doing'[d] = doing[d]
    BY <1>0, <2>1 DEF BagsInv
  <2>3. BagsInv'
    BY <1>0, <2>1 DEF BagsInv
  <2>4. FailureInv'
    BY <1>0, <2>1, <2>2 DEF FailureInv, Count
  <2>5. SerialInv'
    <3>1. InLogin(c)
      BY <2>1 DEF InLogin
    <3>2. \A d \in Clients : InLogin(d)' => InLogin(d)
      BY <2>2, <3>1 DEF InLogin
    <3> QED
      BY <1>0, <2>1, <2>2, <3>1, <3>2 DEF SerialInv, InLogin
  <2> QED
    BY <2>3, <2>4, <2>5 DEF LimitInv
<1>6. ASSUME NEW c \in Clients, NEW s \in SessionIds, LogsIn(c, s) PROVE LimitInv'
  <2>1. /\ doing[c] = "clear" /\ attempts' = NoAttempts /\ uncleared' = NoAttempts
        /\ doing' = [doing EXCEPT ![c] = "idle"]
        /\ read' = [read EXCEPT ![c] = NoAttempts]
        /\ UNCHANGED <<clock, failures, overlapped>>
    BY <1>6 DEF LogsIn, Turn
  <2>2. doing'[c] = "idle" /\ \A d \in Clients : d # c => doing'[d] = doing[d]
    BY <1>0, <2>1 DEF BagsInv
  <2>3. read'[c] = NoAttempts /\ \A d \in Clients : d # c => read'[d] = read[d]
    BY <1>0, <2>1 DEF BagsInv
  <2>4. BagsInv'
    BY <1>0, <2>1 DEF BagsInv
  <2>5. FailureInv'
    <3>1. Covers(NoAttempts, failures)
      BY <1>0 DEF BagsInv, Covers
    <3> QED
      BY <1>0, <2>1, <2>2, <2>3, <3>1 DEF FailureInv, Count
  <2>6. SerialInv'
    <3>1. InLogin(c)
      BY <2>1 DEF InLogin
    <3>2. ~overlapped' => \A d \in Clients : ~InLogin(d)'
      BY <1>0, <2>1, <2>2, <3>1 DEF SerialInv, InLogin
    <3> QED
      BY <1>0, <2>1, <3>2 DEF SerialInv, InLogin
  <2> QED
    BY <2>4, <2>5, <2>6 DEF LimitInv
<1>7. ASSUME NEW c \in Clients, UNCHANGED <<clock, attempts, failures, uncleared, overlapped>>,
             DOMAIN doing' = Clients, \A d \in Clients : d # c => doing'[d] = doing[d],
             doing'[c] \in {"idle", "found", "refused", "raised", "granted"} /\ ~InLogin(c),
             \/ read' = read
             \/ read' = [read EXCEPT ![c] = NoAttempts]
      PROVE  LimitInv'
  <2>1. \A d \in Clients : d # c => read'[d] = read[d]
    BY <1>0, <1>7 DEF BagsInv
  <2>2. BagsInv'
    BY <1>0, <1>7 DEF BagsInv
  <2>3. FailureInv'
    <3>1. Covers(NoAttempts, failures)
      BY <1>0 DEF BagsInv, Covers
    <3>2. Covers(read'[c], failures)
      BY <1>0, <1>7, <3>1 DEF BagsInv, FailureInv
    <3> QED
      BY <1>0, <1>7, <2>1, <3>2 DEF FailureInv, Count
  <2>4. SerialInv'
    BY <1>0, <1>7, <2>1 DEF SerialInv, InLogin
  <2> QED
    BY <2>2, <2>3, <2>4 DEF LimitInv
<1>8. ASSUME NEW c \in Clients, NEW s \in SessionIds, LooksUp(c, s) PROVE LimitInv'
  <2>1. /\ UNCHANGED <<clock, attempts, failures, uncleared, overlapped, read>>
        /\ doing[c] = "idle"
        /\ doing' = [doing EXCEPT ![c] = IF sessions[s] = NoSession THEN "refused" ELSE "found"]
    BY <1>8 DEF LooksUp, Turn, histories, counts
  <2>2. /\ DOMAIN doing' = Clients /\ \A d \in Clients : d # c => doing'[d] = doing[d]
        /\ doing'[c] \in {"refused", "found"} /\ ~InLogin(c)
    BY <1>0, <2>1 DEF BagsInv, InLogin
  <2> QED
    BY <1>7, <2>1, <2>2
<1>9. ASSUME NEW c \in Clients, Reads(c) PROVE LimitInv'
  <2>1. /\ UNCHANGED <<clock, attempts, failures, uncleared, overlapped, read>>
        /\ doing[c] = "found"
        /\ \E where \in {"raised", "refused", "granted"} : doing' = [doing EXCEPT ![c] = where]
    BY <1>9 DEF Reads, Turn, histories, counts
  <2>2. /\ DOMAIN doing' = Clients /\ \A d \in Clients : d # c => doing'[d] = doing[d]
        /\ doing'[c] \in {"raised", "refused", "granted"} /\ ~InLogin(c)
    BY <1>0, <2>1 DEF BagsInv, InLogin
  <2> QED
    BY <1>7, <2>1, <2>2
<1>10. ASSUME NEW c \in Clients, NEW s \in SessionIds, LogsOut(c, s) PROVE LimitInv'
  <2>1. UNCHANGED <<clock, attempts, failures, uncleared, overlapped, read, doing>>
    BY <1>10 DEF LogsOut, requests, counts
  <2> QED
    BY <1>0, <2>1 DEF LimitInv, BagsInv, FailureInv, SerialInv, InLogin, Covers, InWindow, Count
<1>11. ASSUME NEW c \in Clients, Answered(c) PROVE LimitInv'
  <2>1. /\ UNCHANGED <<clock, attempts, failures, uncleared, overlapped>>
        /\ doing[c] \in {"tooMany", "rejected", "refused", "raised", "granted"}
        /\ doing' = [doing EXCEPT ![c] = "idle"]
        /\ read' = [read EXCEPT ![c] = NoAttempts]
    BY <1>11 DEF Answered, Turn, histories, counts
  <2>2. /\ DOMAIN doing' = Clients /\ \A d \in Clients : d # c => doing'[d] = doing[d]
        /\ doing'[c] = "idle" /\ ~InLogin(c)
    BY <1>0, <2>1 DEF BagsInv, InLogin
  <2> QED
    BY <1>7, <2>1, <2>2
<1>12. CASE UNCHANGED authVars
  <2>1. UNCHANGED <<clock, attempts, failures, uncleared, overlapped, read, doing>>
    BY <1>12 DEF authVars
  <2> QED
    BY <1>0, <2>1 DEF LimitInv, BagsInv, FailureInv, SerialInv, InLogin, Covers, InWindow, Count
<1> QED
  BY <1>1, <1>2, <1>3, <1>4, <1>5, <1>6, <1>8, <1>9, <1>10, <1>11, <1>12 DEF AuthNext

(* What a thread has counted within a window it could have counted among    *)
(* the failures.                                                            *)
LEMMA CountedFailed ==
    ASSUME BagsInv, NEW bag \in [Instants -> Nat], Covers(bag, failures),
           NEW t \in Int, InWindow(bag, t)
    PROVE  Count(bag) <=
               Count([f \in Instants |-> IF f \in t - Window + 1 .. t THEN failures[f] ELSE 0])
<1> DEFINE all == [f \in Instants |-> IF f \in t - Window + 1 .. t THEN failures[f] ELSE 0]
<1>1. IsFiniteSet(Instants)
  <2>1. 0 \in Int /\ MaxClock \in Int
    BY SessionAssumption
  <2> QED
    BY <2>1, FS_Interval DEF Instants
<1>2. \A f \in Instants : bag[f] \in Int /\ all[f] \in Int /\ bag[f] <= all[f]
  BY SMTT(30) DEF BagsInv, Covers, InWindow
<1>3. DOMAIN bag = Instants /\ DOMAIN all = Instants
  OBVIOUS
<1> HIDE DEF all
<1>4. SumFunctionOnSet(bag, Instants) <= SumFunctionOnSet(all, Instants)
  BY <1>1, <1>2, SumMonotone
<1>5. Count(bag) <= Count(all)
  BY <1>3, <1>4 DEF Count, SumFunction
<1> QED
  BY <1>5 DEF all

(* The limit turns nobody away for less than it says, and without           *)
(* overlapping logins it misses nothing.                                    *)
THEOREM LimitHolds == AuthSpec => []LimitIsFair
<1>1. AuthInit => LimitInv
  <2> SUFFICES ASSUME AuthInit PROVE LimitInv
    OBVIOUS
  <2>1. /\ NoAttempts \in [Instants -> Nat] /\ \A f \in Instants : NoAttempts[f] = 0
        /\ 0 \in Instants /\ Instants \subseteq Int
    BY SessionAssumption DEF NoAttempts, Instants
  <2>2. /\ clock = 0 /\ attempts = NoAttempts /\ failures = NoAttempts /\ uncleared = NoAttempts
        /\ read = [c \in Clients |-> NoAttempts] /\ doing = [c \in Clients |-> "idle"]
    BY DEF AuthInit
  <2>3. BagsInv
    BY <2>1, <2>2 DEF BagsInv
  <2>4. FailureInv
    BY <2>1, <2>2 DEF FailureInv, Covers
  <2>5. SerialInv
    BY <2>1, <2>2 DEF SerialInv, InLogin
  <2> QED
    BY <2>3, <2>4, <2>5 DEF LimitInv
<1>2. LimitInv => LimitIsFair
  <2> SUFFICES ASSUME LimitInv PROVE LimitIsFair
    OBVIOUS
  <2>1. BagsInv /\ FailureInv /\ SerialInv
    BY DEF LimitInv
  <2>2. LimitCountsFailures
    <3> SUFFICES ASSUME NEW c \in Clients, doing[c] = "tooMany"
                 PROVE  \E t \in 0..clock :
                            Count([f \in Instants |-> IF f \in t - Window + 1 .. t
                                                      THEN failures[f] ELSE 0]) >= MaxFailed
      BY DEF LimitCountsFailures
    <3>1. PICK t \in 0..clock : InWindow(read[c], t)
      BY <2>1 DEF FailureInv
    <3>2. read[c] \in [Instants -> Nat] /\ Covers(read[c], failures) /\ t \in Int
      BY <2>1 DEF BagsInv, FailureInv
    <3> DEFINE all == Count([f \in Instants |-> IF f \in t - Window + 1 .. t
                                                THEN failures[f] ELSE 0])
    <3>3. Count(read[c]) <= all
      BY <2>1, <3>1, <3>2, CountedFailed
    <3>4. Count(read[c]) >= MaxFailed
      BY <2>1 DEF FailureInv
    <3>5. all \in Int /\ Count(read[c]) \in Int
      <4>1. IsFiniteSet(Instants)
        <5>1. 0 \in Int /\ MaxClock \in Int
          BY SessionAssumption
        <5> QED
          BY <5>1, FS_Interval DEF Instants
      <4> DEFINE bag == [f \in Instants |-> IF f \in t - Window + 1 .. t
                                            THEN failures[f] ELSE 0]
      <4>2. DOMAIN bag = Instants /\ \A f \in Instants : bag[f] \in Int
        BY <2>1 DEF BagsInv
      <4>3. DOMAIN read[c] = Instants /\ \A f \in Instants : read[c][f] \in Int
        BY <3>2
      <4> HIDE DEF bag
      <4>4. SumFunction(bag) \in Int
        BY <4>1, <4>2, SumType DEF SumFunction
      <4>5. SumFunction(read[c]) \in Int
        BY <4>1, <4>3, SumType DEF SumFunction
      <4> QED
        BY <4>4, <4>5 DEF Count, bag
    <3> HIDE DEF all
    <3>6. all >= MaxFailed
      BY <3>3, <3>4, <3>5, SessionAssumption
    <3> QED
      BY <3>6 DEF all
  <2>3. SerialCountIsExact
    <3> SUFFICES ASSUME ~overlapped, \A c \in Clients : ~InLogin(c)
                 PROVE  Recent(attempts) = Recent(uncleared)
      BY DEF SerialCountIsExact
    <3>1. \A f \in Instants : clock - f < Window => attempts[f] = uncleared[f]
      BY <2>1 DEF SerialInv, InLogin
    <3> QED
      BY <3>1 DEF Recent, Within
  <2> QED
    BY <2>2, <2>3 DEF LimitIsFair
<1> QED
  BY <1>1, <1>2, LimitStep, PTL DEF AuthSpec

-----------------------------------------------------------------------------
(* The import. *)

ImportTypes ==
    /\ trades \in [TradeIds -> {NoTrade, "open", "closed"}]
    /\ touched \in [TradeIds -> {NoTrade, "open", "closed"}]
    /\ shadowLog \in [Rows -> Nat] /\ revisions \in Nat
    /\ markers \in SUBSET Files /\ IsFiniteSet(markers)
    /\ commits \in Nat /\ snapshot \in [Importers -> Nat]
    /\ importing \in [Importers -> {"idle", "checked", "writing"}]
    /\ source \in [Importers -> Files]
    /\ lockHolder \in Importers \cup {NoImporter}

(* An import that has found no marker, and nothing committed since, still   *)
(* has no marker; the one that writes keeps it so with the lock.            *)
Importing ==
    \A p \in Importers :
        /\ snapshot[p] <= commits
        /\ importing[p] # "idle" /\ snapshot[p] = commits => ~Recorded(source[p])
        /\ importing[p] = "writing" => lockHolder = p /\ snapshot[p] = commits

ImportInv == ImportTypes /\ Importing /\ ImportsAreWhole /\ ImportKeepsTrades

\* How many of the markers a new one adds to.
LEMMA MarkerCounts ==
    ASSUME NEW M, IsFiniteSet(M), NEW f, f \notin M, NEW S
    PROVE  Cardinality({g \in M \cup {f} : g \in S})
             = Cardinality({g \in M : g \in S}) + IF f \in S THEN 1 ELSE 0
<1> DEFINE A == {g \in M : g \in S}
<1>1. IsFiniteSet(A) /\ Cardinality(A) \in Nat
  <2>1. A \subseteq M
    OBVIOUS
  <2>2. IsFiniteSet(A)
    BY <2>1, FS_Subset
  <2> QED
    BY <2>2, FS_CardinalityType
<1>2. CASE f \in S
  <2>1. {g \in M \cup {f} : g \in S} = A \cup {f} /\ f \notin A
    BY <1>2
  <2>2. Cardinality(A \cup {f}) = Cardinality(A) + 1
    BY <1>1, <2>1, FS_AddElement
  <2> QED
    BY <1>2, <2>1, <2>2
<1>3. CASE f \notin S
  <2>1. {g \in M \cup {f} : g \in S} = A
    BY <1>3
  <2>2. Cardinality({g \in M \cup {f} : g \in S}) = Cardinality(A)
    BY <2>1, Zenon
  <2>3. \A n \in Nat : n + (IF f \in S THEN 1 ELSE 0) = n
    BY <1>3
  <2> HIDE DEF A
  <2>4. Cardinality(A) + (IF f \in S THEN 1 ELSE 0) = Cardinality(A)
    BY <1>1, <2>3
  <2>5. A = {g \in M : g \in S}
    BY Zenon DEF A
  <2> QED
    BY <2>2, <2>4, <2>5, Zenon
<1> QED
  BY <1>2, <1>3

LEMMA FinishKeeps ==
    ASSUME ImportInv, NEW p \in Importers, Finish(p)
    PROVE  ImportInv'
<1> DEFINE f == source[p]
<1>1. /\ importing[p] = "writing"
      /\ trades' = [i \in TradeIds |-> Merged(f, i)]
      /\ shadowLog' = [r \in Rows |-> shadowLog[r] + IF r \in f.shadow THEN 1 ELSE 0]
      /\ revisions' = revisions + IF f.config THEN 1 ELSE 0
      /\ markers' = markers \cup {f} /\ commits' = commits + 1
      /\ importing' = [importing EXCEPT ![p] = "idle"] /\ lockHolder' = NoImporter
      /\ source' = source /\ snapshot' = snapshot /\ touched' = touched
  BY DEF Finish
<1>2. ImportTypes /\ Importing
  BY DEF ImportInv
<1>3. /\ f \in Files /\ ~Recorded(f) /\ lockHolder = p /\ p # NoImporter
      /\ IsFiniteSet(markers) /\ markers \in SUBSET Files
  BY <1>1, <1>2, ImportAssumption DEF ImportTypes, Importing
<1> HIDE DEF f
<1>new. f \notin markers /\ \A g \in markers : Hash(g) # Hash(f)
  BY <1>3 DEF Recorded
<1>4. ImportTypes'
  <2>1. trades' \in [TradeIds -> {NoTrade, "open", "closed"}]
    BY <1>1, <1>2 DEF ImportTypes, Merged
  <2>2. shadowLog' \in [Rows -> Nat] /\ revisions' \in Nat
    BY <1>1, <1>2 DEF ImportTypes
  <2>3. markers' \in SUBSET Files /\ IsFiniteSet(markers')
    BY <1>1, <1>3, FS_AddElement
  <2>4. importing' \in [Importers -> {"idle", "checked", "writing"}] /\ commits' \in Nat
    BY <1>1, <1>2 DEF ImportTypes
  <2> QED
    BY <1>1, <1>2, <2>1, <2>2, <2>3, <2>4 DEF ImportTypes
<1>5. Importing'
  <2> SUFFICES ASSUME NEW q \in Importers
               PROVE  /\ snapshot[q] <= commits'
                      /\ importing'[q] # "idle" /\ snapshot[q] = commits' => ~Recorded(source[q])'
                      /\ importing'[q] = "writing" => lockHolder' = q /\ snapshot[q] = commits'
    BY <1>1 DEF Importing, Recorded
  <2>1. snapshot[q] \in Nat /\ commits \in Nat /\ snapshot[q] <= commits
    BY <1>2 DEF ImportTypes, Importing
  <2>2. importing'[q] # "writing"
    <3>1. CASE q = p
      BY <3>1, <1>1, <1>2 DEF ImportTypes
    <3>2. CASE q # p
      BY <3>2, <1>1, <1>2, <1>3 DEF ImportTypes, Importing
    <3> QED
      BY <3>1, <3>2
  <2> QED
    BY <2>1, <2>2, <1>1
<1>6. \A r \in Rows : shadowLog'[r] = Cardinality({g \in markers' : r \in g.shadow})
  <2> SUFFICES ASSUME NEW r \in Rows
               PROVE  shadowLog'[r] = Cardinality({g \in markers' : r \in g.shadow})
    OBVIOUS
  <2> DEFINE S == {g \in Files : r \in g.shadow}
  <2>1. /\ {g \in markers : r \in g.shadow} = {g \in markers : g \in S}
        /\ {g \in markers' : r \in g.shadow} = {g \in markers \cup {f} : g \in S}
        /\ f \in S <=> r \in f.shadow
    BY <1>1, <1>3
  <2>2. Cardinality({g \in markers \cup {f} : g \in S})
          = Cardinality({g \in markers : g \in S}) + IF f \in S THEN 1 ELSE 0
    BY <1>3, <1>new, MarkerCounts
  <2>3. shadowLog[r] = Cardinality({g \in markers : r \in g.shadow})
    BY DEF ImportInv, ImportsAreWhole
  <2>4. shadowLog'[r] = shadowLog[r] + IF r \in f.shadow THEN 1 ELSE 0
    BY <1>1
  <2> HIDE DEF S
  <2> QED
    BY <2>1, <2>2, <2>3, <2>4
<1>7. revisions' = Cardinality({g \in markers' : g.config})
  <2> DEFINE S == {g \in Files : g.config}
  <2>1. /\ {g \in markers : g.config} = {g \in markers : g \in S}
        /\ {g \in markers' : g.config} = {g \in markers \cup {f} : g \in S}
        /\ f \in S <=> f.config
    BY <1>1, <1>3
  <2>2. Cardinality({g \in markers \cup {f} : g \in S})
          = Cardinality({g \in markers : g \in S}) + IF f \in S THEN 1 ELSE 0
    BY <1>3, <1>new, MarkerCounts
  <2>3. revisions = Cardinality({g \in markers : g.config})
    BY DEF ImportInv, ImportsAreWhole
  <2> HIDE DEF S
  <2> QED
    BY <1>1, <2>1, <2>2, <2>3
<1>8. /\ \A g \in markers' : \A i \in Complete(g) : trades'[i] # NoTrade
      /\ \A i \in TradeIds :
            trades'[i] = NoTrade \/ touched'[i] # NoTrade \/ \E g \in markers' : i \in Complete(g)
  <2>1. ASSUME NEW i \in TradeIds
        PROVE  /\ trades[i] # NoTrade => trades'[i] = trades[i]
               /\ i \in Complete(f) => trades'[i] # NoTrade
               /\ trades'[i] # NoTrade => trades[i] # NoTrade \/ i \in Complete(f)
    BY <1>1, ImportAssumption DEF Merged, Complete
  <2>2. \A g \in markers' : Complete(g) \subseteq TradeIds
    BY <1>1, <1>3, ImportAssumption DEF File, Complete
  <2>3. /\ \A g \in markers : \A i \in Complete(g) : trades[i] # NoTrade
        /\ \A i \in TradeIds :
              trades[i] = NoTrade \/ touched[i] # NoTrade \/ \E g \in markers : i \in Complete(g)
    BY DEF ImportInv, ImportsAreWhole
  <2>4. ASSUME NEW g \in markers', NEW i \in Complete(g) PROVE trades'[i] # NoTrade
    BY <2>1, <2>2, <2>3, <1>1
  <2>5. ASSUME NEW i \in TradeIds, trades'[i] # NoTrade, touched[i] = NoTrade
        PROVE  \E g \in markers' : i \in Complete(g)
    <3>1. CASE trades[i] # NoTrade
      BY <3>1, <2>3, <2>5, <1>1
    <3>2. CASE i \in Complete(f)
      BY <3>2, <1>1
    <3> QED
      BY <3>1, <3>2, <2>1, <2>5
  <2> QED
    BY <2>4, <2>5, <1>1
<1>once. \A g, h \in markers' : Hash(g) = Hash(h) => g = h
  <2>1. \A g, h \in markers : Hash(g) = Hash(h) => g = h
    BY DEF ImportInv, ImportsAreWhole
  <2> QED
    BY <2>1, <1>1, <1>new
<1>9. ImportKeepsTrades'
  BY <1>1 DEF ImportInv, ImportKeepsTrades, Merged
<1> QED
  BY <1>4, <1>5, <1>6, <1>7, <1>8, <1>9, <1>once DEF ImportInv, ImportsAreWhole

LEMMA ImportStep == ImportInv /\ [ImportNext]_importVars => ImportInv'
<1> SUFFICES ASSUME ImportInv, [ImportNext]_importVars PROVE ImportInv'
  OBVIOUS
<1>0. ImportTypes /\ Importing /\ ImportsAreWhole /\ ImportKeepsTrades
  BY DEF ImportInv
<1>1. ASSUME NEW p \in Importers, NEW f \in Files, Check(p, f) PROVE ImportInv'
  <2>1. /\ UNCHANGED <<trades, shadowLog, revisions, markers, commits, lockHolder, touched>>
        /\ source' = [source EXCEPT ![p] = f] /\ snapshot' = [snapshot EXCEPT ![p] = commits]
        /\ importing' = [importing EXCEPT ![p] = IF Recorded(f) THEN "idle" ELSE "checked"]
    BY <1>1 DEF Check, database
  <2>2. ImportTypes' /\ Importing'
    BY <1>0, <2>1 DEF ImportTypes, Importing, Recorded
  <2> QED
    BY <1>0, <2>1, <2>2 DEF ImportInv, ImportsAreWhole, ImportKeepsTrades
<1>2. ASSUME NEW p \in Importers, FirstWrite(p) PROVE ImportInv'
  <2>1. /\ UNCHANGED <<trades, shadowLog, revisions, markers, commits, source, snapshot, touched>>
        /\ lockHolder = NoImporter /\ lockHolder' = p /\ snapshot[p] = commits
        /\ importing[p] = "checked" /\ importing' = [importing EXCEPT ![p] = "writing"]
    BY <1>2 DEF FirstWrite, database, Current
  <2>2. ImportTypes' /\ Importing'
    BY <1>0, <2>1, ImportAssumption DEF ImportTypes, Importing, Recorded
  <2> QED
    BY <1>0, <2>1, <2>2 DEF ImportInv, ImportsAreWhole, ImportKeepsTrades
<1>3. ASSUME NEW p \in Importers, ImportFails(p) PROVE ImportInv'
  <2>1. /\ UNCHANGED <<trades, shadowLog, revisions, markers, commits, source, snapshot, touched>>
        /\ lockHolder' = (IF lockHolder = p THEN NoImporter ELSE lockHolder)
        /\ importing' = [importing EXCEPT ![p] = "idle"]
    BY <1>3 DEF ImportFails, database
  <2>2. ImportTypes' /\ Importing'
    BY <1>0, <2>1 DEF ImportTypes, Importing, Recorded
  <2> QED
    BY <1>0, <2>1, <2>2 DEF ImportInv, ImportsAreWhole, ImportKeepsTrades
\* The running system commits, which no writing import allows.
<1>4. ASSUME SystemCommits PROVE /\ Importing' /\ UNCHANGED <<shadowLog, revisions, markers>>
                                 /\ UNCHANGED <<importing, source, snapshot, lockHolder>>
                                 /\ commits' \in Nat
  <2>1. /\ lockHolder = NoImporter /\ commits' = commits + 1
        /\ UNCHANGED <<shadowLog, revisions, markers, importing, source, snapshot, lockHolder>>
    BY <1>4 DEF SystemCommits
  <2>2. ASSUME NEW q \in Importers
        PROVE  snapshot[q] <= commits' /\ snapshot[q] # commits' /\ importing[q] # "writing"
    BY <1>0, <2>1, ImportAssumption DEF Importing, ImportTypes
  <2> QED
    BY <1>0, <2>1, <2>2 DEF Importing, ImportTypes, Recorded
<1>5. ASSUME NEW i \in TradeIds, TradeStep(i) PROVE ImportInv'
  <2>1. /\ SystemCommits
        /\ trades' = [trades EXCEPT ![i] = IF trades[i] = NoTrade THEN "open" ELSE "closed"]
        /\ touched' = [touched EXCEPT ![i] = trades'[i]]
    BY <1>5 DEF TradeStep
  <2>2. /\ trades' \in [TradeIds -> {NoTrade, "open", "closed"}]
        /\ touched' \in [TradeIds -> {NoTrade, "open", "closed"}]
        /\ trades'[i] # NoTrade /\ touched'[i] = trades'[i]
        /\ \A j \in TradeIds : j # i => trades'[j] = trades[j] /\ touched'[j] = touched[j]
    BY <1>0, <2>1, ImportAssumption DEF ImportTypes
  <2>3. ImportTypes' /\ Importing'
    BY <1>0, <1>4, <2>1, <2>2 DEF ImportTypes
  <2>4. \A g \in markers : Complete(g) \subseteq TradeIds
    BY <1>0, ImportAssumption DEF File, Complete, ImportTypes
  <2>5. /\ \A g \in markers : \A j \in Complete(g) : trades'[j] # NoTrade
        /\ \A j \in TradeIds :
              trades'[j] = NoTrade \/ touched'[j] # NoTrade
              \/ \E g \in markers : j \in Complete(g)
    BY <1>0, <2>2, <2>4 DEF ImportsAreWhole
  <2>6. ImportsAreWhole'
    BY <1>0, <1>4, <2>1, <2>5 DEF ImportsAreWhole
  <2>7. ImportKeepsTrades'
    BY <1>0, <2>2 DEF ImportKeepsTrades
  <2> QED
    BY <2>3, <2>6, <2>7 DEF ImportInv
<1>6. ASSUME NEW fsm, NEW equity, PublishState(fsm, equity) PROVE ImportInv'
  <2>1. SystemCommits /\ trades' = trades /\ touched' = touched
    BY <1>6 DEF PublishState
  <2>2. ImportTypes' /\ Importing'
    BY <1>0, <1>4, <2>1 DEF ImportTypes
  <2> QED
    BY <1>0, <1>4, <2>1, <2>2 DEF ImportInv, ImportsAreWhole, ImportKeepsTrades
<1>7. CASE UNCHANGED importVars
  <2>1. UNCHANGED <<trades, shadowLog, revisions, markers, commits, importing, source, snapshot,
                    lockHolder, touched>>
    BY <1>7 DEF importVars
  <2>2. ImportTypes' /\ Importing'
    BY <1>0, <2>1 DEF ImportTypes, Importing, Recorded
  <2> QED
    BY <1>0, <2>1, <2>2 DEF ImportInv, ImportsAreWhole, ImportKeepsTrades
<1> QED
  BY <1>1, <1>2, <1>3, <1>5, <1>6, <1>7, FinishKeeps DEF ImportNext

LEMMA ImportInvariant == ImportSpec => []ImportInv
<1>1. ImportInit => ImportInv
  <2> SUFFICES ASSUME ImportInit PROVE ImportInv
    OBVIOUS
  <2>1. source \in [Importers -> Files]
    BY ImportAssumption DEF ImportInit
  <2>2. IsFiniteSet({}) /\ Cardinality({}) = 0
    BY FS_EmptySet
  <2>3. ImportTypes /\ Importing
    BY <2>1, <2>2 DEF ImportInit, ImportTypes, Importing
  <2>4. /\ \A r \in Rows : {f \in markers : r \in f.shadow} = {}
        /\ {f \in markers : f.config} = {}
    BY DEF ImportInit
  <2>5. ImportsAreWhole
    BY <2>2, <2>4 DEF ImportInit, ImportsAreWhole
  <2>6. ImportKeepsTrades
    BY DEF ImportInit, ImportKeepsTrades
  <2> QED
    BY <2>3, <2>5, <2>6 DEF ImportInv
<1> QED
  BY <1>1, ImportStep, PTL DEF ImportSpec

(* However many imports of however many files overlap, fail and are started *)
(* again beside the running system: the tables hold what the markers say.   *)
THEOREM ImportIsIdempotent == ImportSpec => []ImportsAreWhole
<1>1. ImportInv => ImportsAreWhole
  BY DEF ImportInv
<1> QED
  BY <1>1, ImportInvariant, PTL

(* No import undoes what the running system has made of a trade.            *)
THEOREM ImportUndoesNothing == ImportSpec => []ImportKeepsTrades
<1>1. ImportInv => ImportKeepsTrades
  BY DEF ImportInv
<1> QED
  BY <1>1, ImportInvariant, PTL

(* An import may be started at any time, and any number of times.           *)
THEOREM ImportsAreSafe == ImportSpec => []ImportIsSafe
<1>1. ImportsAreWhole /\ ImportKeepsTrades => ImportIsSafe
  BY DEF ImportIsSafe
<1> QED
  BY <1>1, ImportIsIdempotent, ImportUndoesNothing, PTL

-----------------------------------------------------------------------------
(* The notifier: what the dispatcher remembers against what was delivered.  *)

Delivery == [alert : Alerts, at : Nat, life : Nat, known : BOOLEAN]

NotifyTypes ==
    /\ wall \in Nat /\ setBack \in 0..MaxSetBack /\ setAhead \in 0..MaxSetBack /\ life \in Nat
    /\ outbox \in Seq(Alerts)
    /\ sentAt \in [Alerts -> Int]
    /\ arrived \in Seq(Delivery)
    /\ \A i \in DOMAIN arrived : arrived[i].life <= life /\ arrived[i].at <= wall

OfThisLife(i, a) == arrived[i].life = life /\ arrived[i].alert = a

\* A delivery that was acknowledged is remembered, as no older than it is.
Remembered ==
    \A i \in DOMAIN arrived :
        arrived[i].known /\ arrived[i].life = life =>
            arrived[i].at <= sentAt[arrived[i].alert] + setBack + RequestTimeout

\* What is remembered was delivered, later but for what the clock was set ahead.
Backed ==
    \A a \in Alerts :
        \/ sentAt[a] = NeverSent
        \/ \E i \in DOMAIN arrived : OfThisLife(i, a) /\ sentAt[a] <= arrived[i].at + setAhead

\* A request goes out after the cooldown of every delivery that was known.
AskedLate ==
    ~Idle =>
        /\ request.alert \in Alerts /\ request.now \in Int /\ request.asked \in Nat
        /\ request.asked <= wall /\ wall <= request.asked + RequestTimeout
        /\ request.now <= request.asked + setAhead /\ request.asked <= request.now + setBack
        /\ \A i \in DOMAIN arrived :
              arrived[i].known /\ OfThisLife(i, request.alert) =>
                  arrived[i].at + Cooldown - RequestTimeout <= request.asked + setAhead

NotifyInv ==
    /\ NotifyTypes /\ Remembered /\ Backed /\ AskedLate
    /\ NotTwiceInCooldown /\ SuppressedWasDelivered
    /\ outcome.result = "suppressed" => outcome.at \in Nat

LEMMA DeliveryFacts ==
    ASSUME NotifyTypes
    PROVE  \A i \in DOMAIN arrived :
              arrived[i].alert \in Alerts /\ arrived[i].at \in Nat /\ arrived[i].life \in Nat
<1>1. \A i \in DOMAIN arrived : arrived[i] \in Delivery
  <2>1. arrived \in Seq(Delivery)
    BY DEF NotifyTypes
  <2> QED
    BY <2>1
<1> QED
  BY <1>1 DEF Delivery

\* Steps that leave deliveries and memory alone, though time may pass.
LEMMA QuietKeeps ==
    ASSUME NotifyInv, UNCHANGED <<sentAt, life, arrived>>,
           wall' \in Nat, wall' >= wall, setBack' \in 0..MaxSetBack, setBack' >= setBack,
           setAhead' \in 0..MaxSetBack, setAhead' >= setAhead,
           outbox' \in Seq(Alerts)
    PROVE  NotifyTypes' /\ Remembered' /\ Backed' /\ NotTwiceInCooldown'
<1>0. /\ wall \in Nat /\ setBack \in 0..MaxSetBack /\ setAhead \in 0..MaxSetBack /\ life \in Nat
      /\ sentAt \in [Alerts -> Int] /\ arrived \in Seq(Delivery)
      /\ \A i \in DOMAIN arrived :
            /\ arrived[i].life <= life /\ arrived[i].at <= wall
            /\ arrived[i].alert \in Alerts /\ arrived[i].at \in Nat /\ arrived[i].life \in Nat
  BY DeliveryFacts DEF NotifyInv, NotifyTypes
<1>1. NotifyTypes'
  BY <1>0 DEF NotifyTypes
<1>2. Remembered'
  BY <1>0, NotifierAssumption, SMTT(30) DEF NotifyInv, Remembered
<1>3. Backed'
  BY <1>0, SMTT(30) DEF NotifyInv, Backed, OfThisLife, NeverSent
<1>4. NotTwiceInCooldown'
  <2> SUFFICES ASSUME NEW i \in DOMAIN arrived, NEW j \in DOMAIN arrived, i < j,
                      arrived[i].alert = arrived[j].alert,
                      arrived[i].life = arrived[j].life, arrived[i].known
               PROVE  arrived[j].at - arrived[i].at >= Cooldown - RequestTimeout - setAhead'
    BY DEF NotTwiceInCooldown
  <2>1. arrived[j].at - arrived[i].at >= Cooldown - RequestTimeout - setAhead
    BY DEF NotifyInv, NotTwiceInCooldown
  <2>2. /\ arrived[i].at \in Nat /\ arrived[j].at \in Nat
        /\ setAhead \in Nat /\ setAhead' \in Nat /\ setAhead' >= setAhead
    BY <1>0, NotifierAssumption
  <2> QED
    BY <2>1, <2>2, NotifierAssumption
<1> QED
  BY <1>1, <1>2, <1>3, <1>4

LEMMA SuppressKeeps ==
    ASSUME NotifyInv, Suppress
    PROVE  NotifyInv'
<1> DEFINE a == Head(outbox)
<1>1. a \in Alerts /\ Tail(outbox) \in Seq(Alerts)
  BY DEF NotifyInv, NotifyTypes, Suppress
<1>2. NotifyTypes' /\ Remembered' /\ Backed' /\ NotTwiceInCooldown'
  BY <1>1, QuietKeeps DEF NotifyInv, NotifyTypes, Suppress
<1>3. AskedLate'
  BY DEF Suppress, AskedLate, Idle
<1>4. /\ outcome'.alert = a /\ outcome'.at = wall
      /\ (wall - setBack + setAhead) - sentAt[a] < Cooldown
      /\ life' = life /\ arrived' = arrived /\ setBack' = setBack /\ setAhead' = setAhead
  <2>1. outcome'.alert = a /\ outcome'.at = wall
    BY DEF Suppress
  <2>2. Cooling(a) /\ UNCHANGED <<wall, setBack, setAhead, sentAt, request, life, arrived>>
    BY DEF Suppress
  <2> HIDE DEF a
  <2> QED
    BY <2>1, <2>2 DEF Cooling, WallClock
<1>5. wall \in Nat /\ setBack \in 0..MaxSetBack /\ setAhead \in 0..MaxSetBack /\ sentAt[a] \in Int
  BY <1>1 DEF NotifyInv, NotifyTypes
<1> HIDE DEF a
<1>6. sentAt[a] # NeverSent
  BY <1>4, <1>5, NotifierAssumption DEF NeverSent
<1>7. PICK i \in DOMAIN arrived : OfThisLife(i, a) /\ sentAt[a] <= arrived[i].at + setAhead
  BY <1>1, <1>6 DEF NotifyInv, Backed
<1>8. arrived[i].at \in Nat
  BY DeliveryFacts DEF NotifyInv
<1>9. outcome'.at - arrived[i].at < Cooldown + setBack
  BY <1>4, <1>5, <1>7, <1>8, NotifierAssumption
<1>10. SuppressedWasDelivered'
  BY <1>4, <1>7, <1>9 DEF SuppressedWasDelivered, OfThisLife
<1> QED
  BY <1>2, <1>3, <1>4, <1>5, <1>10 DEF NotifyInv

LEMMA PostKeeps ==
    ASSUME NotifyInv, Post
    PROVE  NotifyInv'
<1> DEFINE a == Head(outbox)
<1>1. a \in Alerts /\ Tail(outbox) \in Seq(Alerts)
  BY DEF NotifyInv, NotifyTypes, Post
<1>2. NotifyTypes' /\ Remembered' /\ Backed' /\ NotTwiceInCooldown'
  BY <1>1, QuietKeeps DEF NotifyInv, NotifyTypes, Post
<1>3. /\ request'.alert = a /\ request'.now = wall - setBack + setAhead /\ request'.asked = wall
      /\ ~((wall - setBack + setAhead) - sentAt[a] < Cooldown)
      /\ life' = life /\ arrived' = arrived /\ wall' = wall
      /\ setBack' = setBack /\ setAhead' = setAhead
  <2>1. request'.alert = a /\ request'.now = WallClock /\ request'.asked = wall
    BY DEF Post
  <2>2. ~Cooling(a) /\ UNCHANGED <<wall, setBack, setAhead, sentAt, life, arrived>>
    BY DEF Post
  <2> HIDE DEF a
  <2> QED
    BY <2>1, <2>2 DEF Cooling, WallClock
<1>4. wall \in Nat /\ setBack \in 0..MaxSetBack /\ setAhead \in 0..MaxSetBack /\ sentAt[a] \in Int
  BY <1>1 DEF NotifyInv, NotifyTypes
<1> HIDE DEF a
<1>5. ASSUME NEW i \in DOMAIN arrived, arrived[i].known, OfThisLife(i, a)
      PROVE  arrived[i].at + Cooldown - RequestTimeout <= wall + setAhead
  <2>1. arrived[i].at \in Nat
    BY DeliveryFacts DEF NotifyInv
  <2>2. arrived[i].at <= sentAt[a] + setBack + RequestTimeout
    BY <1>5 DEF NotifyInv, Remembered, OfThisLife
  <2> QED
    BY <1>3, <1>4, <2>1, <2>2, NotifierAssumption
<1>6. AskedLate'
  BY <1>1, <1>3, <1>4, <1>5, NotifierAssumption DEF AskedLate, OfThisLife
<1>7. outcome'.result = "none"
  BY DEF Post, NoOutcome
<1> QED
  BY <1>2, <1>6, <1>7 DEF NotifyInv, SuppressedWasDelivered

\* A delivery at the end of a request, acknowledged or not.
LEMMA DeliveryKeeps ==
    ASSUME NotifyInv, ~Idle, NEW known \in BOOLEAN, Delivered(known),
           request' = NoAlert, outcome'.result # "suppressed",
           UNCHANGED <<wall, setBack, setAhead, outbox, life>>,
           sentAt' = IF known THEN [sentAt EXCEPT ![request.alert] = request.now] ELSE sentAt
    PROVE  NotifyInv'
<1> DEFINE d == [alert |-> request.alert, at |-> wall, life |-> life, known |-> known]
           n == Len(arrived)
<1>1. /\ request.alert \in Alerts /\ request.now \in Int /\ request.asked \in Nat
      /\ request.asked <= wall /\ wall <= request.asked + RequestTimeout
      /\ request.now <= request.asked + setAhead /\ request.asked <= request.now + setBack
      /\ \A i \in DOMAIN arrived :
            arrived[i].known /\ OfThisLife(i, request.alert) =>
                arrived[i].at + Cooldown - RequestTimeout <= request.asked + setAhead
  BY DEF NotifyInv, AskedLate
<1>2. /\ wall \in Nat /\ setBack \in 0..MaxSetBack /\ setAhead \in 0..MaxSetBack /\ life \in Nat
      /\ sentAt \in [Alerts -> Int] /\ arrived \in Seq(Delivery) /\ n \in Nat
      /\ DOMAIN arrived = 1..n
      /\ \A i \in 1..n : /\ arrived[i] \in Delivery
                         /\ arrived[i].life <= life /\ arrived[i].at <= wall
  BY DEF NotifyInv, NotifyTypes
<1>3. d \in Delivery
  BY <1>1, <1>2 DEF Delivery
<1>4. /\ arrived' \in Seq(Delivery) /\ DOMAIN arrived' = 1..(n + 1)
      /\ \A i \in 1..n : arrived'[i] = arrived[i]
      /\ arrived'[n + 1] = d
  BY <1>2, <1>3 DEF Delivered
<1>5. /\ sentAt' \in [Alerts -> Int]
      /\ \A b \in Alerts : b # request.alert => sentAt'[b] = sentAt[b]
      /\ known => sentAt'[request.alert] = request.now
      /\ ~known => sentAt' = sentAt
  BY <1>1, <1>2
<1>6. d.alert = request.alert /\ d.at = wall /\ d.life = life /\ d.known = known
  OBVIOUS
<1>7. \A i \in 1..n : /\ arrived[i].at \in Nat /\ arrived[i].life \in Nat
                      /\ arrived[i].alert \in Alerts
  BY <1>2 DEF Delivery
<1> HIDE DEF d, n
<1>8. \A i \in 1..(n + 1) : i \in 1..n \/ i = n + 1
  BY <1>2
<1>9. NotifyTypes'
  BY <1>2, <1>4, <1>5, <1>6, <1>8, SMTT(30) DEF NotifyTypes, NotifyInv
<1>10. Remembered'
  <2> SUFFICES ASSUME NEW i \in 1..(n + 1), arrived'[i].known, arrived'[i].life = life
               PROVE  arrived'[i].at <= sentAt'[arrived'[i].alert] + setBack + RequestTimeout
    BY <1>4 DEF Remembered
  <2>1. CASE i = n + 1
    <3>1. known
      BY <1>4, <1>6, <2>1
    <3> QED
      BY <1>1, <1>2, <1>4, <1>5, <1>6, <2>1, <3>1, NotifierAssumption, SMTT(30)
  <2>2. CASE i \in 1..n
    <3>1. /\ arrived'[i] = arrived[i] /\ arrived[i].at \in Nat /\ arrived[i].alert \in Alerts
          /\ arrived[i].at <= wall
      BY <1>2, <1>4, <1>7, <2>2
    <3>2. arrived[i].at <= sentAt[arrived[i].alert] + setBack + RequestTimeout
      BY <1>2, <2>2, <3>1 DEF NotifyInv, Remembered
    <3>3. CASE arrived[i].alert = request.alert /\ known
      BY <1>1, <1>2, <1>5, <3>1, <3>3, NotifierAssumption, SMTT(30)
    <3>4. CASE ~(arrived[i].alert = request.alert /\ known)
      BY <1>5, <3>1, <3>2, <3>4
    <3> QED
      BY <3>3, <3>4
  <2> QED
    BY <1>8, <2>1, <2>2
<1>11. Backed'
  <2> SUFFICES ASSUME NEW b \in Alerts, sentAt'[b] # NeverSent
               PROVE  \E i \in 1..(n + 1) : /\ arrived'[i].life = life /\ arrived'[i].alert = b
                                            /\ sentAt'[b] <= arrived'[i].at + setAhead
    BY <1>4 DEF Backed, OfThisLife, NeverSent
  <2>1. CASE b = request.alert /\ known
    <3>1. /\ arrived'[n + 1].life = life /\ arrived'[n + 1].alert = b
          /\ sentAt'[b] <= arrived'[n + 1].at + setAhead
      BY <1>1, <1>2, <1>4, <1>5, <1>6, <2>1
    <3> QED
      BY <1>2, <3>1
  <2>2. CASE ~(b = request.alert /\ known)
    <3>1. sentAt'[b] = sentAt[b]
      BY <1>5, <2>2
    <3>2. PICK i \in 1..n : OfThisLife(i, b) /\ sentAt[b] <= arrived[i].at + setAhead
      BY <1>2, <3>1 DEF NotifyInv, Backed
    <3>3. i \in 1..(n + 1) /\ arrived'[i] = arrived[i]
      BY <1>2, <1>4
    <3> QED
      BY <3>1, <3>2, <3>3 DEF OfThisLife
  <2> QED
    BY <2>1, <2>2
<1>12. NotTwiceInCooldown'
  <2> SUFFICES ASSUME NEW i \in 1..(n + 1), NEW j \in 1..(n + 1), i < j,
                      arrived'[i].alert = arrived'[j].alert,
                      arrived'[i].life = arrived'[j].life, arrived'[i].known
               PROVE  arrived'[j].at - arrived'[i].at >= Cooldown - RequestTimeout - setAhead
    BY <1>4 DEF NotTwiceInCooldown
  <2>0. i \in 1..n /\ arrived'[i] = arrived[i]
    BY <1>2, <1>4
  <2>1. CASE j = n + 1
    <3>1. OfThisLife(i, request.alert) /\ arrived[i].known
      BY <1>4, <1>6, <2>0, <2>1 DEF OfThisLife
    <3>2. arrived[i].at + Cooldown - RequestTimeout <= request.asked + setAhead
      BY <1>1, <1>2, <2>0, <3>1
    <3> QED
      BY <1>1, <1>2, <1>4, <1>6, <1>7, <2>0, <2>1, <3>2, NotifierAssumption, SMTT(30)
  <2>2. CASE j \in 1..n
    BY <1>2, <1>4, <2>0, <2>2 DEF NotifyInv, NotTwiceInCooldown
  <2> QED
    BY <1>8, <2>1, <2>2
<1>13. AskedLate' /\ SuppressedWasDelivered'
  BY DEF AskedLate, Idle, SuppressedWasDelivered
<1> QED
  BY <1>9, <1>10, <1>11, <1>12, <1>13 DEF NotifyInv

LEMMA RestartKeeps ==
    ASSUME NotifyInv, DispatcherRestarts
    PROVE  NotifyInv'
<1>1. /\ life' = life + 1 /\ life \in Nat /\ arrived' = arrived
      /\ \A i \in DOMAIN arrived : arrived[i] \in Delivery /\ arrived[i].life <= life
  BY DEF NotifyInv, NotifyTypes, DispatcherRestarts
<1>2. \A i \in DOMAIN arrived : arrived[i].life # life'
  BY <1>1 DEF Delivery
<1>3. NotifyTypes'
  <2>1. sentAt' \in [Alerts -> Int] /\ outbox' \in Seq(Alerts)
    BY NotifierAssumption DEF DispatcherRestarts, NeverSent
  <2>2. \A i \in DOMAIN arrived : arrived[i].life <= life + 1
    BY <1>1 DEF Delivery
  <2> QED
    BY <1>1, <2>1, <2>2 DEF NotifyInv, NotifyTypes, DispatcherRestarts
<1>4. Remembered' /\ AskedLate'
  BY <1>1, <1>2 DEF Remembered, AskedLate, Idle, DispatcherRestarts
<1>5. Backed'
  BY DEF Backed, NeverSent, DispatcherRestarts
<1>6. NotTwiceInCooldown'
  <2>1. setAhead' = setAhead /\ arrived' = arrived
    BY DEF DispatcherRestarts
  <2> QED
    BY <2>1 DEF NotifyInv, NotTwiceInCooldown
<1>7. outcome'.result = "none"
  BY DEF DispatcherRestarts, NoOutcome
<1> QED
  BY <1>3, <1>4, <1>5, <1>6, <1>7 DEF NotifyInv, SuppressedWasDelivered

LEMMA NotifyStep == NotifyInv /\ [NotifyNext]_notifyVars => NotifyInv'
<1> SUFFICES ASSUME NotifyInv, [NotifyNext]_notifyVars PROVE NotifyInv'
  OBVIOUS
<1>1. CASE WallTicks
  <2>1. wall \in Nat /\ setBack \in 0..MaxSetBack /\ setAhead \in 0..MaxSetBack /\ outbox \in Seq(Alerts)
    BY DEF NotifyInv, NotifyTypes
  <2>2. wall' = wall + 1 /\ wall' \in Nat /\ wall' >= wall
    BY <1>1, <2>1 DEF WallTicks
  <2>3. NotifyTypes' /\ Remembered' /\ Backed' /\ NotTwiceInCooldown'
    BY <1>1, <2>1, <2>2, QuietKeeps DEF WallTicks
  <2>4. AskedLate'
    BY <1>1, <2>1, <2>2, NotifierAssumption DEF WallTicks, NotifyInv, AskedLate, OfThisLife, Idle
  <2>5. SuppressedWasDelivered' /\ (outcome'.result = "suppressed" => outcome'.at \in Nat)
    BY <1>1 DEF WallTicks, NotifyInv, SuppressedWasDelivered
  <2> QED
    BY <2>3, <2>4, <2>5 DEF NotifyInv
<1>2. CASE WallSetBack
  <2>1. wall \in Nat /\ setBack \in 0..MaxSetBack /\ setAhead \in 0..MaxSetBack /\ outbox \in Seq(Alerts)
    BY DEF NotifyInv, NotifyTypes
  <2>2. setBack' = setBack + 1 /\ setBack' \in 0..MaxSetBack /\ setBack' >= setBack
    BY <1>2, <2>1, NotifierAssumption DEF WallSetBack
  <2>3. NotifyTypes' /\ Remembered' /\ Backed' /\ NotTwiceInCooldown'
    BY <1>2, <2>1, <2>2, QuietKeeps DEF WallSetBack
  <2>4. AskedLate'
    BY <1>2, <2>1, <2>2, NotifierAssumption DEF WallSetBack, NotifyInv, AskedLate, OfThisLife, Idle
  <2>5. \A i \in DOMAIN arrived : arrived[i].at \in Nat
    BY DeliveryFacts DEF NotifyInv
  <2>6. SuppressedWasDelivered' /\ (outcome'.result = "suppressed" => outcome'.at \in Nat)
    BY <1>2, <2>1, <2>2, <2>5, NotifierAssumption
    DEF WallSetBack, NotifyInv, SuppressedWasDelivered
  <2> QED
    BY <2>3, <2>4, <2>6 DEF NotifyInv
<1>8. CASE WallSetAhead
  <2>1. /\ wall \in Nat /\ setBack \in 0..MaxSetBack /\ setAhead \in 0..MaxSetBack
        /\ outbox \in Seq(Alerts)
    BY DEF NotifyInv, NotifyTypes
  <2>2. setAhead' = setAhead + 1 /\ setAhead' \in 0..MaxSetBack /\ setAhead' >= setAhead
    BY <1>8, <2>1, NotifierAssumption DEF WallSetAhead
  <2>3. NotifyTypes' /\ Remembered' /\ Backed' /\ NotTwiceInCooldown'
    BY <1>8, <2>1, <2>2, QuietKeeps DEF WallSetAhead
  <2>4. AskedLate'
    <3>1. \A i \in DOMAIN arrived : arrived[i].at \in Nat
      BY DeliveryFacts DEF NotifyInv
    <3> QED
      BY <1>8, <2>1, <2>2, <3>1, NotifierAssumption
      DEF WallSetAhead, NotifyInv, AskedLate, OfThisLife, Idle
  <2>5. SuppressedWasDelivered' /\ (outcome'.result = "suppressed" => outcome'.at \in Nat)
    BY <1>8 DEF WallSetAhead, NotifyInv, SuppressedWasDelivered
  <2> QED
    BY <2>3, <2>4, <2>5 DEF NotifyInv
<1>3. ASSUME NEW a \in Alerts, NEW b \in Alerts, BarCommitted(<<a>>) \/ BarCommitted(<<a, b>>)
      PROVE  NotifyInv'
  <2>1. wall \in Nat /\ setBack \in 0..MaxSetBack /\ setAhead \in 0..MaxSetBack /\ outbox' \in Seq(Alerts)
    <3>1. <<a>> \in Seq(Alerts) /\ <<a, b>> \in Seq(Alerts)
      BY <1>3
    <3>2. outbox' = <<a>> \/ outbox' = <<a, b>>
      BY <1>3 DEF BarCommitted
    <3> QED
      BY <3>1, <3>2 DEF NotifyInv, NotifyTypes
  <2>2. UNCHANGED <<wall, setBack, setAhead, sentAt, request, outcome, life, arrived>>
    BY <1>3 DEF BarCommitted
  <2>3. NotifyTypes' /\ Remembered' /\ Backed' /\ NotTwiceInCooldown'
    BY <2>1, <2>2, QuietKeeps
  <2>4. AskedLate' /\ SuppressedWasDelivered'
        /\ (outcome'.result = "suppressed" => outcome'.at \in Nat)
    BY <2>2 DEF NotifyInv, AskedLate, OfThisLife, Idle, SuppressedWasDelivered
  <2> QED
    BY <2>3, <2>4 DEF NotifyInv
<1>4. CASE Accepted
  <2>1. outcome'.result # "suppressed" /\ request' = NoAlert
    BY <1>4 DEF Accepted, Ended
  <2> QED
    BY <1>4, <2>1, DeliveryKeeps DEF Accepted
<1>5. CASE AnswerLost
  <2>1. outcome'.result # "suppressed" /\ request' = NoAlert
    BY <1>5 DEF AnswerLost, Ended
  <2> QED
    BY <1>5, <2>1, DeliveryKeeps DEF AnswerLost
<1>6. CASE NotDelivered
  <2>1. wall \in Nat /\ setBack \in 0..MaxSetBack /\ setAhead \in 0..MaxSetBack /\ outbox \in Seq(Alerts)
    BY DEF NotifyInv, NotifyTypes
  <2>2. outcome'.result # "suppressed" /\ request' = NoAlert
    BY <1>6 DEF NotDelivered, Ended
  <2>3. NotifyTypes' /\ Remembered' /\ Backed' /\ NotTwiceInCooldown'
    BY <1>6, <2>1, QuietKeeps DEF NotDelivered
  <2> QED
    BY <2>2, <2>3 DEF NotifyInv, AskedLate, Idle, SuppressedWasDelivered
<1>7. CASE UNCHANGED notifyVars
  BY <1>7 DEF notifyVars, NotifyInv, NotifyTypes, Remembered, Backed, AskedLate, OfThisLife, Idle,
              NeverSent, NotTwiceInCooldown, SuppressedWasDelivered
<1> QED
  BY <1>1, <1>2, <1>3, <1>4, <1>5, <1>6, <1>7, <1>8, SuppressKeeps, PostKeeps, RestartKeeps DEF NotifyNext

LEMMA NotifyInvariant == NotifySpec => []NotifyInv
<1>1. NotifyInit => NotifyInv
  <2> SUFFICES ASSUME NotifyInit PROVE NotifyInv
    OBVIOUS
  <2>1. NotifyTypes
    BY NotifierAssumption DEF NotifyInit, NotifyTypes, NeverSent
  <2>2. DOMAIN arrived = {}
    BY DEF NotifyInit
  <2>3. outcome.result = "none"
    BY DEF NotifyInit, NoOutcome
  <2> QED
    BY <2>1, <2>2, <2>3
    DEF NotifyInit, NotifyInv, Remembered, Backed, AskedLate, Idle, NotTwiceInCooldown,
        SuppressedWasDelivered, NeverSent
<1> QED
  BY <1>1, NotifyStep, PTL DEF NotifySpec

(* However requests are delayed, fail or lose their answers, and however    *)
(* far the clock is set: one process does not repeat an alert it knows to   *)
(* be delivered before its cooldown, less one request and what the clock    *)
(* was set ahead, is over.                                                  *)
THEOREM CooldownIsKept == NotifySpec => []NotTwiceInCooldown
<1>1. NotifyInv => NotTwiceInCooldown
  BY DEF NotifyInv
<1> QED
  BY <1>1, NotifyInvariant, PTL

(* An alert is suppressed only if this process has delivered it before.     *)
THEOREM NothingIsHeldBack == NotifySpec => []SuppressedWasDelivered
<1>1. NotifyInv => SuppressedWasDelivered
  BY DEF NotifyInv
<1> QED
  BY <1>1, NotifyInvariant, PTL
(* Both together: an alert is sent as often as the cooldown wants.          *)
THEOREM CooldownHolds == NotifySpec => []CooldownIsRight
<1>1. NotTwiceInCooldown /\ SuppressedWasDelivered => CooldownIsRight
  BY DEF CooldownIsRight
<1> QED
  BY <1>1, CooldownIsKept, NothingIsHeldBack, PTL

-----------------------------------------------------------------------------
(* The cache of public market data. *)

Entry == [key : Keys, exp : Int, val : Int]

\* A key is there once, and no entry outlives the answer it holds.
CacheOK(s, now) ==
    /\ s \in Seq(Entry)
    /\ \A i, j \in 1..Len(s) : s[i].key = s[j].key => i = j
    /\ \A i \in 1..Len(s) :
          s[i].val <= now /\ s[i].exp <= s[i].val + FetchTime + TTL[s[i].key]

CallType ==
    [step : {"idle", "fetch", "answered"}, key : Keys \cup {Unanswered}, asked : Int,
     val : Int \cup {Unanswered}]

CallOK(x, now) ==
    /\ x \in CallType
    /\ x.step = "fetch" => /\ x.key \in Keys /\ x.asked \in Int
                           /\ x.asked <= now /\ now - x.asked <= FetchTime
    /\ x.step = "answered" => /\ x.key \in Keys /\ x.val \in Int
                              /\ now - x.val <= TTL[x.key] + FetchTime

CacheInv ==
    /\ instant \in Nat
    /\ CacheOK(entries, instant) /\ Len(entries) <= MaxEntries
    /\ DOMAIN calls = Callers
    /\ \A c \in Callers : CallOK(calls[c], instant)

CacheStep ==
    CacheIsBounded' /\ AnswersAreRecent' /\ FreshSurvives

\* s keeps of another list the entries at the indices S.
KeepsOf(s, t, S) ==
    /\ \A n \in 1..Len(s) : \E i \in S : s[n] = t[i]
    /\ \A i \in S : \E n \in 1..Len(s) : s[n] = t[i]

(* A filter of a sound cache is sound, and no longer than what it keeps.    *)
LEMMA KeptOK ==
    ASSUME NEW s, NEW now \in Int, CacheOK(s, now), NEW S \in SUBSET (1..Len(s))
    PROVE  /\ CacheOK(Kept(s, S), now)
           /\ Len(Kept(s, S)) = Cardinality(S) /\ Len(Kept(s, S)) <= Len(s)
           /\ KeepsOf(Kept(s, S), s, S)
<1> DEFINE k == Kept(s, S)
<1>1. s \in Seq(Entry) /\ Len(s) \in Nat
  BY DEF CacheOK
<1>2. PICK where : /\ Enumerates(where, S) /\ k \in Seq(Entry) /\ Len(k) = Len(where)
                /\ \A n \in 1..Len(where) : where[n] \in S /\ k[n] = s[where[n]]
  BY <1>1, KeptIs
<1> HIDE DEF k
<1>3. IsFiniteSet(S) /\ Cardinality(S) = Len(where)
  <2>1. S \in SUBSET Int
    OBVIOUS
  <2> QED
    BY <1>2, <2>1, ListsCount
<1>4. Cardinality(S) <= Len(s)
  <2>1. IsFiniteSet(1..Len(s)) /\ Cardinality(1..Len(s)) = Len(s)
    BY <1>1, IndexCount
  <2> QED
    BY <2>1, FS_Subset
<1>5. \A n \in 1..Len(where) : where[n] \in 1..Len(s)
  BY <1>2
<1>6. \A l, m \in 1..Len(where) : l < m => where[l] < where[m]
  BY <1>2 DEF Enumerates
<1>7. ASSUME NEW l \in 1..Len(k), NEW m \in 1..Len(k), k[l].key = k[m].key PROVE l = m
  <2>1. where[l] = where[m]
    BY <1>2, <1>5, <1>7 DEF CacheOK
  <2>2. l \in 1..Len(where) /\ m \in 1..Len(where) /\ where[l] \in Int /\ Len(where) \in Nat
    BY <1>1, <1>2, <1>5
  <2>3. ~(l < m) /\ ~(m < l)
    BY <1>6, <2>1, <2>2
  <2> QED
    BY <2>2, <2>3
<1>8. \A n \in 1..Len(k) :
          k[n].val <= now /\ k[n].exp <= k[n].val + FetchTime + TTL[k[n].key]
  BY <1>2, <1>5 DEF CacheOK
<1>9. KeepsOf(k, s, S)
  <2>1. \A i \in S : \E n \in 1..Len(where) : where[n] = i
    BY <1>2 DEF Enumerates
  <2>2. ASSUME NEW i \in S PROVE \E n \in 1..Len(k) : k[n] = s[i]
    <3>1. PICK n \in 1..Len(where) : where[n] = i
      BY <2>1
    <3> QED
      BY <1>2, <3>1
  <2>3. \A n \in 1..Len(k) : \E i \in S : k[n] = s[i]
    BY <1>2
  <2> QED
    BY <2>2, <2>3 DEF KeepsOf
<1> QED
  BY <1>2, <1>3, <1>4, <1>7, <1>8, <1>9 DEF CacheOK, k

(* With an entry for a key that it does not hold a cache stays sound.       *)
LEMMA AddedOK ==
    ASSUME NEW s, NEW now \in Int, CacheOK(s, now), NEW e \in Entry,
           \A i \in 1..Len(s) : s[i].key # e.key,
           e.val <= now, e.exp <= e.val + FetchTime + TTL[e.key]
    PROVE  CacheOK(Append(s, e), now) /\ Len(Append(s, e)) = Len(s) + 1
<1> DEFINE t == Append(s, e)
<1>1. s \in Seq(Entry) /\ Len(s) \in Nat
  BY DEF CacheOK
<1>2. /\ t \in Seq(Entry) /\ Len(t) = Len(s) + 1 /\ t[Len(s) + 1] = e
      /\ \A i \in 1..Len(s) : t[i] = s[i]
  BY <1>1, AppendProperties
<1> HIDE DEF t
<1>3. ASSUME NEW i \in 1..Len(t), NEW j \in 1..Len(t), t[i].key = t[j].key PROVE i = j
  <2>1. CASE i \in 1..Len(s) /\ j \in 1..Len(s)
    BY <1>2, <1>3, <2>1 DEF CacheOK
  <2>2. CASE i = Len(s) + 1 /\ j \in 1..Len(s)
    BY <1>2, <1>3, <2>2
  <2>3. CASE i \in 1..Len(s) /\ j = Len(s) + 1
    BY <1>2, <1>3, <2>3
  <2>4. CASE i = Len(s) + 1 /\ j = Len(s) + 1
    BY <2>4
  <2> QED
    BY <1>1, <1>2, <2>1, <2>2, <2>3, <2>4
<1>4. ASSUME NEW i \in 1..Len(t)
      PROVE  t[i].val <= now /\ t[i].exp <= t[i].val + FetchTime + TTL[t[i].key]
  <2>1. CASE i \in 1..Len(s)
    BY <1>2, <2>1 DEF CacheOK
  <2>2. CASE i = Len(s) + 1
    BY <1>2, <2>2
  <2> QED
    BY <1>1, <1>2, <2>1, <2>2
<1> QED
  BY <1>2, <1>3, <1>4 DEF CacheOK, t

(* What is removed for a key are the entries of the key.                    *)
LEMMA WithoutIs ==
    ASSUME CacheInv, NEW k \in Keys
    PROVE  /\ CacheOK(Without(k), instant)
           /\ Len(Without(k)) <= Len(entries)
           /\ Held(k) # {} => Len(Without(k)) < Len(entries)
           /\ \A n \in 1..Len(Without(k)) : Without(k)[n].key # k
           /\ \A i \in 1..Len(entries) : entries[i].key # k =>
                 \E n \in 1..Len(Without(k)) : Without(k)[n] = entries[i]
<1> DEFINE S == 1..Len(entries) \ Held(k)
           w == Without(k)
<1>1. CacheOK(entries, instant) /\ instant \in Int /\ entries \in Seq(Entry)
  BY DEF CacheInv, CacheOK
<1>2. w = Kept(entries, S) /\ DOMAIN entries = 1..Len(entries) /\ Len(entries) \in Nat
  <2>1. DOMAIN entries = 1..Len(entries) /\ Len(entries) \in Nat
    BY <1>1
  <2>2. w = Kept(entries, DOMAIN entries \ Held(k))
    BY DEF Without
  <2> QED
    BY <2>1, <2>2, Zenon
<1>3. S \in SUBSET (1..Len(entries)) /\ \A i \in 1..Len(entries) : i \in S <=> entries[i].key # k
  BY <1>2 DEF Held
<1>4. Held(k) # {} => S # 1..Len(entries)
  BY <1>2 DEF Held
<1> HIDE DEF S, w
<1>5. /\ CacheOK(w, instant) /\ Len(w) = Cardinality(S) /\ Len(w) <= Len(entries)
      /\ KeepsOf(w, entries, S)
  BY <1>1, <1>2, <1>3, KeptOK
<1>6. ASSUME Held(k) # {} PROVE Len(w) < Len(entries)
  <2>1. IsFiniteSet(1..Len(entries)) /\ Cardinality(1..Len(entries)) = Len(entries)
    BY <1>2, IndexCount
  <2>2. Cardinality(S) # Len(entries)
    BY <1>3, <1>4, <1>6, <2>1, FS_Subset
  <2>3. Len(w) \in Nat
    BY <1>5 DEF CacheOK
  <2> QED
    BY <1>2, <1>5, <2>2, <2>3
<1> QED
  BY <1>3, <1>5, <1>6 DEF KeepsOf, w

FreshOnes == {i \in 1..Len(entries) : Fresh(entries[i])}

(* Eviction makes room; a fresh entry goes only if all the room was taken   *)
(* by fresh ones.                                                           *)
LEMMA EvictedIs ==
    ASSUME CacheInv
    PROVE  /\ CacheOK(Evicted(entries), instant)
           /\ Len(Evicted(entries)) < MaxEntries
           /\ \A n \in 1..Len(Evicted(entries)) : \E i \in 1..Len(entries) :
                 Evicted(entries)[n] = entries[i]
           /\ Cardinality(FreshOnes) \in Nat /\ Cardinality(FreshOnes) <= MaxEntries
           /\ Cardinality(FreshOnes) < MaxEntries =>
                 \A i \in FreshOnes : \E n \in 1..Len(Evicted(entries)) :
                    Evicted(entries)[n] = entries[i]
<1> DEFINE f == FreshOf(entries)
           F == FreshOnes
           n == Len(f)
           from == n - MaxEntries + 2
           rest == SubSeq(f, from, n)
           ev == Evicted(entries)
<1>1. CacheOK(entries, instant) /\ instant \in Int /\ entries \in Seq(Entry)
  BY DEF CacheInv, CacheOK
<1>2. f = Kept(entries, F) /\ F \in SUBSET (1..Len(entries)) /\ Len(entries) \in Nat
  <2>1. DOMAIN entries = 1..Len(entries) /\ Len(entries) \in Nat
    BY <1>1
  <2>2. f = Kept(entries, {i \in DOMAIN entries : Fresh(entries[i])})
    BY DEF FreshOf
  <2>3. F = {i \in DOMAIN entries : Fresh(entries[i])}
    BY <2>1 DEF FreshOnes
  <2> QED
    BY <2>1, <2>2, <2>3 DEF FreshOnes
<1>3. ev = IF n < MaxEntries THEN f ELSE rest
  BY DEF Evicted
<1> HIDE DEF f, F, ev
<1>4. /\ CacheOK(f, instant) /\ n = Cardinality(F) /\ n <= Len(entries)
      /\ KeepsOf(f, entries, F)
  BY <1>1, <1>2, KeptOK
<1>5. /\ f \in Seq(Entry) /\ n \in Nat /\ n <= MaxEntries /\ MaxEntries \in Nat \ {0}
  <2>1. f \in Seq(Entry)
    BY <1>4 DEF CacheOK
  <2>2. Len(f) \in Nat
    BY <2>1
  <2>3. Len(entries) <= MaxEntries /\ MaxEntries \in Nat \ {0}
    BY CacheAssumption DEF CacheInv
  <2> QED
    BY <1>2, <1>4, <2>1, <2>2, <2>3
<1>6. CASE n < MaxEntries
  <2>1. ev = f
    BY <1>3, <1>6
  <2> QED
    BY <1>2, <1>4, <1>5, <1>6, <2>1 DEF KeepsOf, F, ev
<1>7. CASE ~(n < MaxEntries)
  <2>1. ev = rest /\ n = MaxEntries /\ from = 2
    BY <1>3, <1>5, <1>7
  <2>2. /\ rest \in Seq(Entry) /\ Len(rest) = n - 1
        /\ \A m \in 1..(n - 1) : rest[m] = f[m + 1]
    <3>1. SubSeq(f, 2, n) \in Seq(Entry) /\ Len(SubSeq(f, 2, n)) = n - 1
      BY <1>5, <2>1
    <3>2. \A m \in 1..(n - 1) : SubSeq(f, 2, n)[m] = f[m + 1]
      BY <1>5, <2>1
    <3> QED
      BY <2>1, <3>1, <3>2
  <2> HIDE DEF rest, n
  <2>3. CacheOK(rest, instant)
    <3>1. \A m \in 1..(n - 1) : m + 1 \in 1..n
      BY <1>5
    <3>2. ASSUME NEW l \in 1..(n - 1), NEW m \in 1..(n - 1), rest[l].key = rest[m].key
          PROVE  l = m
      <4>1. l + 1 = m + 1
        BY <1>4, <2>2, <3>1, <3>2 DEF CacheOK, n
      <4> QED
        BY <1>5, <4>1
    <3>3. \A m \in 1..(n - 1) :
             rest[m].val <= instant
             /\ rest[m].exp <= rest[m].val + FetchTime + TTL[rest[m].key]
      BY <1>4, <2>2, <3>1 DEF CacheOK, n
    <3> QED
      BY <2>2, <3>2, <3>3 DEF CacheOK
  <2>4. \A m \in 1..(n - 1) : \E i \in 1..Len(entries) : rest[m] = entries[i]
    <3>1. \A m \in 1..(n - 1) : m + 1 \in 1..n
      BY <1>5
    <3>2. \A m \in 1..n : \E i \in F : f[m] = entries[i]
      BY <1>4 DEF KeepsOf, n
    <3> QED
      BY <1>2, <2>2, <3>1, <3>2
  <2>5. Len(ev) = n - 1 /\ n - 1 < MaxEntries
    BY <1>5, <2>1, <2>2
  <2> QED
    BY <1>4, <1>5, <1>7, <2>1, <2>3, <2>4, <2>5 DEF F, ev
<1> QED
  BY <1>6, <1>7

(* What set stores is sound and has room; an entry of another key that is   *)
(* lost was not fresh, or all the room was taken by fresh ones.             *)
LEMMA StoredIs ==
    ASSUME CacheInv, NEW k \in Keys, NEW v \in Int, v <= instant, instant <= v + FetchTime
    PROVE  /\ CacheOK(Stored(k, v), instant) /\ Len(Stored(k, v)) <= MaxEntries
           /\ \A i \in FreshOnes :
                 \/ \E n \in 1..Len(Stored(k, v)) : Stored(k, v)[n].key = entries[i].key
                 \/ Cardinality(FreshOnes) = MaxEntries
<1> DEFINE base == IF Held(k) # {} THEN Without(k)
                   ELSE IF Len(entries) >= MaxEntries THEN Evicted(entries)
                   ELSE entries
           e == [key |-> k, exp |-> instant + TTL[k], val |-> v]
           s == Stored(k, v)
<1>1. /\ CacheOK(entries, instant) /\ instant \in Int /\ Len(entries) \in Nat
      /\ Len(entries) <= MaxEntries /\ MaxEntries \in Nat \ {0} /\ FetchTime \in Nat
      /\ TTL[k] \in Nat /\ FreshOnes \subseteq 1..Len(entries)
      /\ DOMAIN entries = 1..Len(entries)
  <2>1. entries \in Seq(Entry) /\ instant \in Int
    BY DEF CacheInv, CacheOK
  <2> QED
    BY <2>1, CacheAssumption DEF CacheInv, FreshOnes
<1>2. s = Append(base, e)
  BY DEF Stored, Life
<1>3. /\ e \in Entry /\ e.key = k /\ e.val <= instant
      /\ e.exp <= e.val + FetchTime + TTL[e.key]
  BY <1>1 DEF Entry
<1> HIDE DEF e
<1>4. /\ CacheOK(base, instant) /\ Len(base) < MaxEntries
      /\ \A n \in 1..Len(base) : base[n].key # k
      /\ \A i \in FreshOnes :
            \/ entries[i].key = k
            \/ \E n \in 1..Len(base) : base[n] = entries[i]
            \/ Cardinality(FreshOnes) = MaxEntries
  <2>1. CASE Held(k) # {}
    <3>1. base = Without(k)
      BY <2>1
    <3> HIDE DEF base
    <3>2. /\ CacheOK(base, instant) /\ Len(base) < Len(entries)
          /\ \A n \in 1..Len(base) : base[n].key # k
          /\ \A i \in 1..Len(entries) : entries[i].key # k =>
                \E n \in 1..Len(base) : base[n] = entries[i]
      BY <2>1, <3>1, WithoutIs
    <3>3. Len(base) \in Nat
      BY <3>2 DEF CacheOK
    <3> QED
      BY <1>1, <3>2, <3>3
  <2>2. ASSUME Held(k) = {} PROVE \A i \in 1..Len(entries) : entries[i].key # k
    BY <1>1, <2>2 DEF Held
  <2>3. CASE Held(k) = {} /\ Len(entries) >= MaxEntries
    <3>1. base = Evicted(entries)
      BY <2>3
    <3> HIDE DEF base
    <3>2. /\ CacheOK(base, instant) /\ Len(base) < MaxEntries
          /\ \A n \in 1..Len(base) : \E i \in 1..Len(entries) : base[n] = entries[i]
          /\ Cardinality(FreshOnes) \in Nat /\ Cardinality(FreshOnes) <= MaxEntries
          /\ Cardinality(FreshOnes) < MaxEntries =>
                \A i \in FreshOnes : \E n \in 1..Len(base) : base[n] = entries[i]
      BY <3>1, EvictedIs
    <3>3. \A n \in 1..Len(base) : base[n].key # k
      BY <2>2, <2>3, <3>2
    <3>4. Cardinality(FreshOnes) < MaxEntries \/ Cardinality(FreshOnes) = MaxEntries
      BY <1>1, <3>2
    <3> QED
      BY <3>2, <3>3, <3>4
  <2>4. CASE Held(k) = {} /\ ~(Len(entries) >= MaxEntries)
    <3>1. base = entries /\ Len(entries) < MaxEntries
      BY <1>1, <2>4
    <3> QED
      BY <1>1, <2>2, <2>4, <3>1
  <2> QED
    BY <2>1, <2>3, <2>4
<1> HIDE DEF base, s
<1>5. CacheOK(s, instant) /\ Len(s) = Len(base) + 1
  BY <1>1, <1>2, <1>3, <1>4, AddedOK
<1>6. /\ base \in Seq(Entry) /\ Len(base) \in Nat /\ s[Len(base) + 1] = e
      /\ \A n \in 1..Len(base) : s[n] = base[n]
  <2>1. base \in Seq(Entry)
    BY <1>4 DEF CacheOK
  <2> QED
    BY <1>2, <1>3, <2>1, AppendProperties
<1>7. Len(s) <= MaxEntries
  BY <1>1, <1>4, <1>5, <1>6
<1>8. ASSUME NEW i \in FreshOnes, Cardinality(FreshOnes) # MaxEntries
      PROVE  \E n \in 1..Len(s) : s[n].key = entries[i].key
  <2>1. CASE entries[i].key = k
    <3>1. Len(base) + 1 \in 1..Len(s) /\ s[Len(base) + 1].key = k
      BY <1>3, <1>5, <1>6
    <3> QED
      BY <2>1, <3>1
  <2>2. CASE entries[i].key # k
    <3>1. PICK n \in 1..Len(base) : base[n] = entries[i]
      BY <1>4, <1>8, <2>2
    <3>2. n \in 1..Len(s) /\ s[n] = entries[i]
      BY <1>5, <1>6, <3>1
    <3> QED
      BY <3>2
  <2> QED
    BY <2>1, <2>2
<1> QED
  BY <1>5, <1>7, <1>8 DEF s

(* An empty cache without requests is sound.                                *)
LEMMA CacheBegins == CacheInit => CacheInv
<1> SUFFICES ASSUME CacheInit PROVE CacheInv
  OBVIOUS
<1>1. CacheOK(entries, instant) /\ Len(entries) <= MaxEntries /\ instant \in Nat
  BY CacheAssumption DEF CacheInit, CacheOK
<1>2. CallOK(NoCall, instant)
  BY DEF CallOK, NoCall, CallType, CacheInit
<1> QED
  BY <1>1, <1>2 DEF CacheInv, CacheInit

(* A step that leaves the entries and the clock alone, and one call sound,  *)
(* keeps the cache as it should be.                                         *)
LEMMA CallMoves ==
    ASSUME CacheInv, NEW c \in Callers, NEW x, CallOK(x, instant),
           calls' = [calls EXCEPT ![c] = x], UNCHANGED <<instant, entries>>
    PROVE  CacheInv' /\ FreshSurvives
<1>1. CacheInv'
  BY DEF CacheInv
<1>2. FreshSurvives
  BY DEF FreshSurvives
<1> QED
  BY <1>1, <1>2

(* A step that changes the entries to a sound list, and one call.           *)
LEMMA EntriesMove ==
    ASSUME CacheInv, NEW c \in Callers, NEW x, CallOK(x, instant),
           calls' = [calls EXCEPT ![c] = x], instant' = instant,
           CacheOK(entries', instant), Len(entries') <= MaxEntries,
           \A i \in FreshOnes :
              \/ \E n \in 1..Len(entries') : entries'[n].key = entries[i].key
              \/ Cardinality(FreshOnes) = MaxEntries
    PROVE  CacheInv' /\ FreshSurvives
<1>1. CacheInv'
  BY DEF CacheInv
<1>2. DOMAIN entries = 1..Len(entries) /\ DOMAIN entries' = 1..Len(entries')
  <2>1. entries \in Seq(Entry) /\ entries' \in Seq(Entry)
    BY DEF CacheInv, CacheOK
  <2> QED
    BY <2>1
<1>3. FreshOnes = {j \in DOMAIN entries : Fresh(entries[j])}
  BY <1>2 DEF FreshOnes
<1>4. \A i \in DOMAIN entries : Fresh(entries[i]) => i \in FreshOnes
  BY <1>3
<1> DEFINE F == FreshOnes
<1> HIDE DEF F
<1>5. ASSUME NEW i \in DOMAIN entries, Fresh(entries[i]),
             \A j \in DOMAIN entries' : entries'[j].key # entries[i].key
      PROVE  Cardinality(FreshOnes) = MaxEntries
  BY <1>2, <1>4, <1>5
<1>6. FreshSurvives
  BY <1>3, <1>5, Zenon DEF FreshSurvives
<1> QED
  BY <1>1, <1>6

(* A hit: the entry moves to the end, and its answer is recent enough.      *)
LEMMA GetStep ==
    ASSUME CacheInv, NEW c \in Callers, NEW k \in Keys, Get(c, k)
    PROVE  CacheInv' /\ FreshSurvives
<1> DEFINE w == Without(k)
           hit == entries[CHOOSE i \in Held(k) : TRUE]
           asks == [step |-> "fetch", key |-> k, asked |-> instant, val |-> Unanswered]
           gets == [step |-> "answered", key |-> k, asked |-> instant, val |-> hit.val]
<1>1. /\ CacheOK(entries, instant) /\ instant \in Int /\ entries \in Seq(Entry)
      /\ Len(entries) \in Nat /\ Len(entries) <= MaxEntries /\ MaxEntries \in Nat
      /\ DOMAIN entries = 1..Len(entries) /\ TTL[k] \in Nat /\ FetchTime \in Nat
      /\ FreshOnes \subseteq 1..Len(entries)
  <2>1. entries \in Seq(Entry)
    BY DEF CacheInv, CacheOK
  <2> QED
    BY <2>1, CacheAssumption DEF CacheInv, FreshOnes
<1>2. /\ CacheOK(w, instant) /\ Len(w) <= Len(entries)
      /\ Held(k) # {} => Len(w) < Len(entries)
      /\ \A n \in 1..Len(w) : w[n].key # k
      /\ \A i \in 1..Len(entries) : entries[i].key # k =>
            \E n \in 1..Len(w) : w[n] = entries[i]
  BY WithoutIs
<1>3. w \in Seq(Entry) /\ Len(w) \in Nat
  BY <1>2 DEF CacheOK
<1> HIDE DEF w
<1>4. CASE \E i \in Held(k) : Fresh(entries[i])
  <2>1. PICK i \in Held(k) : Fresh(entries[i])
    BY <1>4
  <2>2. i \in 1..Len(entries) /\ entries[i].key = k /\ Held(k) # {}
    BY <1>1, <2>1 DEF Held
  <2>3. (CHOOSE j \in Held(k) : TRUE) \in Held(k)
    BY <2>1
  <2>4. (CHOOSE j \in Held(k) : TRUE) = i
    BY <1>1, <2>2, <2>3 DEF Held, CacheOK
  <2>5. hit = entries[i]
    BY <2>4
  <2> HIDE DEF hit
  <2>6. /\ hit \in Entry /\ hit.key = k /\ hit.val <= instant /\ instant < hit.exp
        /\ hit.exp <= hit.val + FetchTime + TTL[k]
    BY <1>1, <2>1, <2>2, <2>5, ElementOfSeq DEF CacheOK, Fresh
  <2>7. hit.val \in Int /\ hit.exp \in Int
    BY <2>6 DEF Entry
  <2>8. CallOK(gets, instant)
    <3>1. instant - hit.val <= TTL[k] + FetchTime
      BY <1>1, <2>6, <2>7
    <3> QED
      BY <1>1, <2>7, <3>1 DEF CallOK, CallType
  <2>9. entries' = Append(w, hit) /\ calls' = [calls EXCEPT ![c] = gets] /\ instant' = instant
    BY <1>4 DEF Get, hit, w
  <2> HIDE DEF gets
  <2>10. CacheOK(Append(w, hit), instant) /\ Len(Append(w, hit)) = Len(w) + 1
    BY <1>1, <1>2, <2>6, AddedOK
  <2>11. /\ Append(w, hit)[Len(w) + 1] = hit
         /\ \A n \in 1..Len(w) : Append(w, hit)[n] = w[n]
    BY <1>3, <2>6, AppendProperties
  <2>12. CacheOK(entries', instant) /\ Len(entries') <= MaxEntries
    <3>1. Len(w) < Len(entries)
      BY <1>2, <2>2
    <3>2. Len(w) + 1 <= MaxEntries
      BY <1>1, <1>3, <3>1
    <3> QED
      BY <2>9, <2>10, <3>2
  <2>13. ASSUME NEW j \in FreshOnes
         PROVE  \E n \in 1..Len(entries') : entries'[n].key = entries[j].key
    <3>1. CASE entries[j].key = k
      <4>1. Len(w) + 1 \in 1..Len(entries') /\ entries'[Len(w) + 1].key = k
        BY <1>3, <2>6, <2>9, <2>10, <2>11
      <4> QED
        BY <3>1, <4>1
    <3>2. CASE entries[j].key # k
      <4>1. PICK n \in 1..Len(w) : w[n] = entries[j]
        BY <1>1, <1>2, <3>2
      <4>2. n \in 1..Len(entries') /\ entries'[n] = entries[j]
        BY <1>3, <2>9, <2>10, <2>11, <4>1
      <4> QED
        BY <4>2
    <3> QED
      BY <3>1, <3>2
  <2> QED
    BY <2>8, <2>9, <2>12, <2>13, EntriesMove
<1>5. CASE ~\E i \in Held(k) : Fresh(entries[i])
  <2>1. entries' = w /\ calls' = [calls EXCEPT ![c] = asks] /\ instant' = instant
    BY <1>5 DEF Get, w
  <2>2. CallOK(asks, instant)
    BY <1>1 DEF CallOK, CallType
  <2> HIDE DEF asks
  <2>3. CacheOK(entries', instant) /\ Len(entries') <= MaxEntries
    BY <1>1, <1>2, <1>3, <2>1
  <2>4. ASSUME NEW j \in FreshOnes
        PROVE  \E n \in 1..Len(entries') : entries'[n].key = entries[j].key
    <3>1. j \in 1..Len(entries) /\ Fresh(entries[j])
      BY DEF FreshOnes
    <3>2. entries[j].key # k
      BY <1>1, <1>5, <3>1 DEF Held
    <3>3. PICK n \in 1..Len(w) : w[n] = entries[j]
      BY <1>2, <3>1, <3>2
    <3> QED
      BY <2>1, <3>3
  <2> QED
    BY <2>1, <2>2, <2>3, <2>4, EntriesMove
<1> QED
  BY <1>4, <1>5

(* The exchange answers: what is stored was computed within the request.    *)
LEMMA FetchReturnsStep ==
    ASSUME CacheInv, NEW c \in Callers, NEW v \in 0..MaxInstant, NEW ok \in BOOLEAN,
           FetchReturns(c, v, ok)
    PROVE  CacheInv' /\ FreshSurvives
<1> DEFINE x == [calls[c] EXCEPT !.step = "answered", !.val = v]
           k == calls[c].key
<1>1. /\ calls[c] \in CallType /\ k \in Keys /\ calls[c].asked \in Int
      /\ instant - calls[c].asked <= FetchTime /\ calls[c].step = "fetch"
  BY DEF CacheInv, CallOK, FetchReturns
<1>2. /\ v \in Int /\ v <= instant /\ instant <= v + FetchTime /\ instant \in Int
      /\ FetchTime \in Nat /\ TTL[k] \in Nat
  <2>1. instant \in Int /\ FetchTime \in Nat /\ TTL[k] \in Nat /\ v \in Int
    BY <1>1, CacheAssumption DEF CacheInv
  <2>2. v \in calls[c].asked..instant
    BY DEF FetchReturns, Computed
  <2> QED
    BY <1>1, <2>1, <2>2
<1>3. x \in CallType /\ x.step = "answered" /\ x.key = k /\ x.val = v
  BY <1>1, <1>2 DEF CallType
<1>4. calls' = [calls EXCEPT ![c] = x] /\ instant' = instant
  BY DEF FetchReturns
<1>5. entries' = IF ok THEN Stored(k, v) ELSE entries
  BY DEF FetchReturns
<1> HIDE DEF x, k
<1>6. CallOK(x, instant)
  <2>1. instant - v <= TTL[k] + FetchTime
    BY <1>2
  <2> QED
    BY <1>1, <1>2, <1>3, <2>1 DEF CallOK
<1>7. CASE ok
  <2>1. entries' = Stored(k, v)
    BY <1>5, <1>7
  <2>2. /\ CacheOK(Stored(k, v), instant) /\ Len(Stored(k, v)) <= MaxEntries
        /\ \A i \in FreshOnes :
              \/ \E n \in 1..Len(Stored(k, v)) : Stored(k, v)[n].key = entries[i].key
              \/ Cardinality(FreshOnes) = MaxEntries
    BY <1>1, <1>2, StoredIs
  <2>3. /\ CacheOK(entries', instant) /\ Len(entries') <= MaxEntries
        /\ \A i \in FreshOnes :
              \/ \E n \in 1..Len(entries') : entries'[n].key = entries[i].key
              \/ Cardinality(FreshOnes) = MaxEntries
    BY <2>1, <2>2, Zenon
  <2> QED
    BY <1>4, <1>6, <2>3, EntriesMove
<1>8. CASE ~ok
  <2>1. UNCHANGED <<instant, entries>>
    BY <1>4, <1>5, <1>8
  <2> QED
    BY <1>4, <1>6, <2>1, CallMoves
<1> QED
  BY <1>7, <1>8

(* Every step of every request keeps the cache sound and loses no fresh     *)
(* entry without need.                                                      *)
LEMMA CacheMoves == CacheInv /\ [CacheNext]_cacheVars => CacheInv' /\ FreshSurvives
<1> SUFFICES ASSUME CacheInv, [CacheNext]_cacheVars
             PROVE  CacheInv' /\ FreshSurvives
  OBVIOUS
<1>1. CallOK(NoCall, instant)
  BY DEF CallOK, NoCall, CallType
<1>2. CASE TimeGoes
  <2>1. CacheOK(entries, instant + 1)
    <3>1. /\ instant \in Nat /\ entries \in Seq(Entry)
          /\ \A i \in 1..Len(entries) : entries[i].val <= instant /\ entries[i] \in Entry
      BY ElementOfSeq DEF CacheInv, CacheOK
    <3>2. \A i \in 1..Len(entries) : entries[i].val <= instant + 1
      BY <3>1 DEF Entry
    <3> QED
      BY <3>2 DEF CacheInv, CacheOK
  <2>2. ASSUME NEW c \in Callers PROVE CallOK(calls[c], instant + 1)
    <3>1. CallOK(calls[c], instant) /\ calls[c].step # "answered" /\ instant \in Nat
      BY <1>2 DEF CacheInv, TimeGoes
    <3>2. calls[c].step = "fetch" => instant - calls[c].asked < FetchTime
      BY <1>2 DEF TimeGoes
    <3>3. calls[c].step = "fetch" =>
             calls[c].asked <= instant + 1 /\ (instant + 1) - calls[c].asked <= FetchTime
      BY <3>1, <3>2, CacheAssumption DEF CallOK
    <3> QED
      BY <3>1, <3>3 DEF CallOK
  <2>3. CacheInv'
    BY <1>2, <2>1, <2>2 DEF CacheInv, TimeGoes
  <2>4. FreshSurvives
    BY <1>2 DEF FreshSurvives, TimeGoes
  <2> QED
    BY <2>3, <2>4
<1>3. ASSUME NEW c \in Callers, FetchRaises(c) \/ Return(c)
      PROVE  CacheInv' /\ FreshSurvives
  <2>1. calls' = [calls EXCEPT ![c] = NoCall] /\ UNCHANGED <<instant, entries>>
    BY <1>3 DEF FetchRaises, Return
  <2> QED
    BY <1>1, <2>1, CallMoves
<1>4. CASE UNCHANGED cacheVars
  <2>1. CacheInv'
    BY <1>4 DEF CacheInv, cacheVars
  <2>2. FreshSurvives
    BY <1>4 DEF FreshSurvives, cacheVars
  <2> QED
    BY <2>1, <2>2
<1> QED
  BY <1>2, <1>3, <1>4, GetStep, FetchReturnsStep DEF CacheNext

(* What the invariant says of a state of the cache.                         *)
LEMMA CacheSays == CacheInv => CacheIsBounded /\ AnswersAreRecent
<1> SUFFICES ASSUME CacheInv PROVE CacheIsBounded /\ AnswersAreRecent
  OBVIOUS
<1>1. DOMAIN entries = 1..Len(entries)
  <2>1. entries \in Seq(Entry)
    BY DEF CacheInv, CacheOK
  <2> QED
    BY <2>1
<1>2. CacheIsBounded
  BY <1>1 DEF CacheIsBounded, CacheInv, CacheOK
<1>3. AnswersAreRecent
  BY DEF AnswersAreRecent, CacheInv, CallOK
<1> QED
  BY <1>2, <1>3

(* Whatever requests miss together and however late their answers come, the *)
(* cache of public data stays within its limit with each key once, no       *)
(* answer is older than its key's life and one request, and a fresh entry   *)
(* goes for another only when fresh ones take all the room (app.py:59,      *)
(* :99-106).                                                                *)
THEOREM CacheHolds == CacheSpec => CacheIsSound
<1>1. CacheInit => CacheInv
  BY CacheBegins
<1>2. CacheInv /\ [CacheNext]_cacheVars => CacheInv' /\ FreshSurvives
  BY CacheMoves
<1>3. CacheInv => CacheIsBounded /\ AnswersAreRecent
  BY CacheSays
<1> QED
  BY <1>1, <1>2, <1>3, PTL DEF CacheSpec, CacheIsSound

-----------------------------------------------------------------------------
(* What the API shows of the trades. *)

Status == {"none", "open", "closed", "deleted"}
Over   == {"closed", "deleted"}

\* Rows are numbered as they are written.
Numbered(rw) ==
    /\ rw \in [TradeNos -> Status]
    /\ \A i, j \in TradeNos : j < i /\ rw[i] # "none" => rw[j] # "none"

Ascending(s) == \A m, n \in 1..Len(s) : m < n => s[m] < s[n]

\* A list of trades that were open: an open one no younger than one of the
\* list stands before it, and none was closed when the last load began.
Chart(s, rw, g) ==
    /\ s \in Seq(TradeNos) /\ Ascending(s)
    /\ \A n \in 1..Len(s) : rw[s[n]] # "none" /\ s[n] \notin g.last /\ s[n] \notin g.loading
    /\ \A n \in 1..Len(s), i \in TradeNos :
          rw[i] = "open" /\ i <= s[n] => \E k \in 1..n : s[k] = i

\* What comes after m elements of s is younger than the last of the m of list.
Ahead(s, m, list) == 0 < m /\ m < Len(s) => list[m] < s[m + 1]

Iterating == {"iterating", "listed"}
Loading   == {"selectOpen", "fillOpen", "fillClosed"}

AheadOfAll(s, where, p, an) ==
    \A t \in Requests : where[t] \in Iterating => Ahead(s, p[t][1], an[t].open)

OpenUpTo(rw, x) == {i \in TradeNos : rw[i] = "open" /\ i <= x}

\* What an iteration has: as many trades as it has taken, and no more of them
\* are open that are no younger than the last.
Taken(list, m, rw, out) ==
    /\ m = Len(list) /\ Ascending(list)
    /\ \A n \in 1..m : rw[list[n]] # "none" /\ list[n] \notin out
    /\ 0 < m => Cardinality(OpenUpTo(rw, list[m])) <= m

\* The trades that are copied as closed: over, and each of them once.
ClosedOK(s, rw) ==
    /\ s \in Seq(TradeNos)
    /\ \A m, n \in 1..Len(s) : s[m] = s[n] => m = n
    /\ \A n \in 1..Len(s) : rw[s[n]] \in Over

Apart(s, r) == \A m \in 1..Len(s), n \in 1..Len(r) : s[m] # r[n]

\* What a load that is at w has built from what it has selected.
Built(w, open, closed, sel, rw, g) ==
    /\ g.last \subseteq g.loading
    /\ w = "selectOpen" => open = <<>> /\ closed = <<>>
    /\ w = "fillOpen" => closed = <<>> /\ Chart(open \o sel, rw, g)
    /\ w = "fillClosed" => ClosedOK(sel, rw) /\ Apart(closed, sel)

\* Of an answer of /state: what its first statement, and its second, has read.
FirstRead(list, was, rw) ==
    \A i \in TradeNos :
        /\ Contains(list, i) <=> was[i] = "open"
        /\ was[i] = "closed" => rw[i] \in Over
SecondRead(list, was, rw) ==
    \A i \in TradeNos :
        /\ Contains(list, i) => rw[i] \in Over
        /\ was[i] = "closed" => Contains(list, i) \/ rw[i] = "deleted"

GoneOK(rw, g) ==
    /\ g \in [last : SUBSET TradeNos, loading : SUBSET TradeNos]
    /\ \A i \in g.last \cup g.loading : rw[i] \in Over

LoadOK(t) ==
    /\ engineLock = t
    /\ Built(at[t], openPositions, closedPositions, selected[t], rows, gone)
    /\ at[t] = "fillOpen" => AheadOfAll(openPositions \o selected[t], at, position, answer)

IterationOK(t) ==
    /\ floor[t] \subseteq gone.last
    /\ Taken(answer[t].open, position[t][1], rows, floor[t])

ReadOK(t) ==
    /\ at[t] \in {"viewSecond", "viewed"} => FirstRead(answer[t].open, seen[t], rows)
    /\ at[t] = "viewed" => SecondRead(answer[t].closed, seen[t], rows)

Asking ==
    /\ at \in [Requests -> {"idle", "viewSecond", "viewed"} \cup Loading \cup Iterating]
    /\ selected \in [Requests -> Seq(TradeNos)]
    /\ position \in [Requests -> Nat \X Nat]
    /\ answer \in [Requests -> [open : Seq(TradeNos), closed : Seq(TradeNos)]]
    /\ seen \in [Requests -> [TradeNos -> Status]]
    /\ floor \in [Requests -> SUBSET TradeNos]

ViewInv ==
    /\ Numbered(rows) /\ Asking /\ GoneOK(rows, gone)
    /\ Chart(openPositions, rows, gone) /\ ClosedOK(closedPositions, rows)
    /\ AheadOfAll(openPositions, at, position, answer)
    /\ \A t \in Requests :
          /\ at[t] \in Loading => LoadOK(t)
          /\ at[t] \in Iterating => IterationOK(t)
          /\ ReadOK(t)

(* The numbers of the trades are those of the rows of a table.              *)
LEMMA TradesAre ==
    /\ TradeNos \in SUBSET Nat
    /\ \A i \in TradeNos : 1 <= i
    /\ \E n \in Nat : TradeNos = 1..n
<1>1. Cardinality(TradeNos) \in Nat
  BY ViewAssumption, FS_CardinalityType
<1>2. TradeNos = 1..Cardinality(TradeNos)
  BY ViewAssumption
<1> QED
  BY <1>1, <1>2

(* A statement returns the rows it is about, in order and each of them once. *)
LEMMA InOrderIs ==
    ASSUME Numbered(rows), NEW S \in SUBSET TradeNos
    PROVE  Enumerates(InOrder(S), S) /\ InOrder(S) \in Seq(TradeNos)
<1>1. PICK n \in Nat : TradeNos = 1..n
  BY TradesAre
<1>2. rows \in Seq(Status) /\ Len(rows) = n
  BY <1>1, AsSeq DEF Numbered
<1>3. Enumerates(InOrder(S), S)
  BY <1>1, <1>2, WhereLists DEF InOrder
<1>4. InOrder(S) \in Seq(TradeNos)
  <2>1. InOrder(S) \in Seq(S) /\ S \subseteq TradeNos
    BY <1>3 DEF Enumerates
  <2> QED
    BY <2>1, SeqMonotonic
<1> QED
  BY <1>3, <1>4

(* An empty list is ahead of everything.                                    *)
LEMMA EmptyChart ==
    ASSUME NEW rw, NEW g
    PROVE  Chart(<<>>, rw, g) /\ \A m, list : m \in Nat => Ahead(<<>>, m, list)
<1>1. <<>> \in Seq(TradeNos) /\ Len(<<>>) = 0
  OBVIOUS
<1> QED
  BY <1>1 DEF Chart, Ascending, Ahead

(* What is true of a list is true of what it begins with.                   *)
LEMMA PrefixChart ==
    ASSUME NEW rw, NEW g, NEW s, Chart(s, rw, g), NEW r \in Seq(TradeNos), Len(r) <= Len(s),
           \A n \in 1..Len(r) : r[n] = s[n]
    PROVE  /\ Chart(r, rw, g)
           /\ \A m \in Nat : \A list : Ahead(s, m, list) => Ahead(r, m, list)
<1>1. s \in Seq(TradeNos) /\ Len(r) \in Nat /\ Len(s) \in Nat
  BY DEF Chart
<1>2. \A n \in 1..Len(r) : n \in 1..Len(s)
  BY <1>1
<1>3. Ascending(r)
  BY <1>2 DEF Chart, Ascending
<1>4. ASSUME NEW n \in 1..Len(r), NEW i \in TradeNos, rw[i] = "open", i <= r[n]
      PROVE  \E k \in 1..n : r[k] = i
  <2>1. PICK k \in 1..n : s[k] = i
    BY <1>2, <1>4 DEF Chart
  <2>2. k \in 1..Len(r)
    BY <1>1
  <2> QED
    BY <2>1, <2>2
<1>5. \A n \in 1..Len(r) : rw[r[n]] # "none" /\ r[n] \notin g.last /\ r[n] \notin g.loading
  BY <1>2 DEF Chart
<1>6. Chart(r, rw, g)
  BY <1>3, <1>4, <1>5 DEF Chart
<1>7. ASSUME NEW m \in Nat, NEW list, Ahead(s, m, list) PROVE Ahead(r, m, list)
  <2> SUFFICES ASSUME 0 < m, m < Len(r) PROVE list[m] < r[m + 1]
    BY DEF Ahead
  <2>1. m < Len(s) /\ m + 1 \in 1..Len(r)
    BY <1>1
  <2> QED
    BY <1>7, <2>1 DEF Ahead
<1> QED
  BY <1>6, <1>7

(* The open rows as a statement finds them.                                 *)
LEMMA SelectedChart ==
    ASSUME Numbered(rows), GoneOK(rows, gone), NEW s, s = InOrder(With("open"))
    PROVE  Chart(s, rows, gone)
<1> DEFINE O == With("open")
<1>1. O \in SUBSET TradeNos /\ \A i \in TradeNos : i \in O <=> rows[i] = "open"
  BY DEF With
<1> HIDE DEF O
<1>2. Enumerates(s, O) /\ s \in Seq(TradeNos)
  BY <1>1, InOrderIs DEF O
<1>3. \A n \in 1..Len(s) : s[n] \in O
  BY <1>2, ElementOfSeq DEF Enumerates
<1>4. Ascending(s)
  BY <1>2 DEF Enumerates, Ascending
<1>5. ASSUME NEW n \in 1..Len(s), NEW i \in TradeNos, rows[i] = "open", i <= s[n]
      PROVE  \E k \in 1..n : s[k] = i
  <2>1. PICK k \in 1..Len(s) : s[k] = i
    BY <1>1, <1>2, <1>5 DEF Enumerates
  <2>2. ~(n < k)
    <3>1. s[k] \in Nat /\ s[n] \in Nat
      BY <1>1, <1>3, TradesAre
    <3> QED
      BY <1>4, <1>5, <2>1, <3>1 DEF Ascending
  <2>3. k \in Int /\ n \in Int /\ 1 <= k
    OBVIOUS
  <2>4. k \in 1..n
    BY <2>2, <2>3
  <2> QED
    BY <2>1, <2>4
<1>6. \A n \in 1..Len(s) :
         rows[s[n]] # "none" /\ s[n] \notin gone.last /\ s[n] \notin gone.loading
  <2>1. \A n \in 1..Len(s) : rows[s[n]] = "open"
    BY <1>1, <1>3
  <2>2. \A i \in gone.last \cup gone.loading : rows[i] # "open"
    BY DEF GoneOK, Over
  <2> QED
    BY <2>1, <2>2
<1> QED
  BY <1>2, <1>4, <1>5, <1>6 DEF Chart

(* There are finitely many trades.                                          *)
LEMMA OpenFinite ==
    ASSUME NEW rw, NEW x
    PROVE  IsFiniteSet(OpenUpTo(rw, x)) /\ Cardinality(OpenUpTo(rw, x)) \in Nat
<1>1. OpenUpTo(rw, x) \subseteq TradeNos
  BY DEF OpenUpTo
<1>2. IsFiniteSet(OpenUpTo(rw, x))
  BY <1>1, ViewAssumption, FS_Subset
<1> QED
  BY <1>2, FS_CardinalityType

(* As no more than m of the open rows are no younger than x, the one after  *)
(* the first m is younger.                                                  *)
LEMMA SelectedAhead ==
    ASSUME Numbered(rows), NEW s, s = InOrder(With("open")), NEW m \in Nat, NEW x \in TradeNos,
           Cardinality(OpenUpTo(rows, x)) <= m, m < Len(s)
    PROVE  x < s[m + 1]
<1> DEFINE O == With("open")
           U == OpenUpTo(rows, x)
           f == [n \in 1..(m + 1) |-> s[n]]
<1>1. O \in SUBSET TradeNos /\ \A i \in TradeNos : i \in O <=> rows[i] = "open"
  BY DEF With
<1>2. \A i \in TradeNos : i \in U <=> rows[i] = "open" /\ i <= x
  BY DEF OpenUpTo
<1> HIDE DEF O, U, f
<1>3. Enumerates(s, O) /\ s \in Seq(TradeNos) /\ Len(s) \in Nat
  <2>1. Enumerates(s, O) /\ s \in Seq(TradeNos)
    BY <1>1, InOrderIs DEF O
  <2> QED
    BY <2>1
<1>4. \A n \in 1..Len(s) : s[n] \in O /\ s[n] \in TradeNos /\ s[n] \in Int
  <2>1. \A n \in 1..Len(s) : s[n] \in O
    BY <1>3, ElementOfSeq DEF Enumerates
  <2>2. TradeNos \in SUBSET Nat
    BY TradesAre
  <2>3. \A i \in O : i \in TradeNos /\ i \in Int
    BY <1>1, <2>2
  <2> QED
    BY <2>1, <2>3, Zenon
<1>5. \A n \in 1..(m + 1) : n \in 1..Len(s)
  BY <1>3
<1>6. \A k, n \in 1..Len(s) : k < n => s[k] < s[n]
  BY <1>3 DEF Enumerates
<1>7. SUFFICES ASSUME ~(x < s[m + 1]) PROVE FALSE
  OBVIOUS
<1>8. x \in Int /\ s[m + 1] <= x
  BY <1>4, <1>5, <1>7, TradesAre
<1>9. ASSUME NEW n \in 1..(m + 1) PROVE s[n] \in U
  <2>1. s[n] <= s[m + 1]
    BY <1>4, <1>5, <1>6
  <2>2. s[n] <= x /\ rows[s[n]] = "open" /\ s[n] \in TradeNos
    BY <1>1, <1>4, <1>5, <1>8, <2>1
  <2> QED
    BY <1>2, <2>2
<1>10. f \in [1..(m + 1) -> U]
  BY <1>9 DEF f
<1>11. \A k, n \in 1..(m + 1) : f[k] = f[n] => k = n
  <2> SUFFICES ASSUME NEW k \in 1..(m + 1), NEW n \in 1..(m + 1), s[k] = s[n] PROVE k = n
    BY DEF f
  <2>1. k \in 1..Len(s) /\ n \in 1..Len(s)
    BY <1>5
  <2>2. s[k] \in Int /\ s[n] = s[k]
    BY <1>4, <2>1
  <2>3. ~(k < n)
    BY <1>6, <2>1, <2>2
  <2>4. ~(n < k)
    BY <1>6, <2>1, <2>2
  <2> QED
    BY <2>3, <2>4
<1>12. f \in Injection(1..(m + 1), U)
  BY <1>10, <1>11 DEF Injection, IsInjective
<1>13. IsFiniteSet(U) /\ Cardinality(U) \in Nat
  BY OpenFinite DEF U
<1>14. Cardinality(1..(m + 1)) = m + 1
  BY IndexCount
<1>15. Cardinality(1..(m + 1)) <= Cardinality(U)
  BY <1>12, <1>13, FS_Injection
<1> QED
  BY <1>13, <1>14, <1>15 DEF U

(* Of the open rows no more than m + 1 are no younger than the one that is  *)
(* read at m + 1.                                                           *)
LEMMA ReadBehind ==
    ASSUME NEW rw, NEW g, NEW s, Chart(s, rw, g), NEW m \in 1..Len(s)
    PROVE  Cardinality(OpenUpTo(rw, s[m])) <= m
<1> DEFINE U == OpenUpTo(rw, s[m])
           at1 == [i \in U |-> CHOOSE k \in 1..m : s[k] = i]
<1>1. \A i \in U : \E k \in 1..m : s[k] = i
  BY DEF Chart, OpenUpTo
<1>2. \A i \in U : at1[i] \in 1..m /\ s[at1[i]] = i
  BY <1>1
<1>3. at1 \in Injection(U, 1..m)
  BY <1>2 DEF Injection, IsInjective
<1> HIDE DEF U, at1
<1>4. m \in Nat
  OBVIOUS
<1>5. IsFiniteSet(1..m) /\ Cardinality(1..m) = m
  BY <1>4, IndexCount
<1>6. Cardinality(U) <= Cardinality(1..m)
  BY <1>3, <1>5, FS_Injection
<1> QED
  BY <1>5, <1>6 DEF U

\* What the worker and the operator may do to the rows.
Moved(rw, nw) ==
    /\ Numbered(rw) /\ Numbered(nw)
    /\ \A i \in TradeNos :
          /\ rw[i] # "none" => nw[i] # "none" /\ (nw[i] = "open" => rw[i] = "open")
          /\ rw[i] \in Over => nw[i] \in Over
          /\ rw[i] = "deleted" => nw[i] = "deleted"

(* A trade that is over does not come back, and none is opened before another. *)
LEMMA RowsMove ==
    ASSUME Numbered(rows), RowsChange
    PROVE  Moved(rows, rows')
<1>1. ASSUME NEW i \in TradeNos, WorkerWrites(i) PROVE Moved(rows, rows')
  <2> DEFINE st == IF rows[i] = "none" THEN "open" ELSE "closed"
  <2>1. /\ rows \in [TradeNos -> Status] /\ rows[i] \in {"none", "open"}
        /\ rows' = [rows EXCEPT ![i] = st]
        /\ \A j \in TradeNos : j < i => rows[j] # "none"
    BY <1>1 DEF WorkerWrites, Numbered
  <2>2. st \in Status /\ st # "none"
    BY DEF Status
  <2>3. rows' \in [TradeNos -> Status] /\ \A j \in TradeNos : rows'[j] = IF j = i THEN st ELSE rows[j]
    BY <2>1, <2>2
  <2>4. Numbered(rows')
    BY <2>1, <2>2, <2>3 DEF Numbered
  <2>5. rows[i] = "open" => st = "closed"
    OBVIOUS
  <2> HIDE DEF st
  <2>6. ASSUME NEW j \in TradeNos
        PROVE  /\ rows[j] # "none" => rows'[j] # "none" /\ (rows'[j] = "open" => rows[j] = "open")
               /\ rows[j] \in Over => rows'[j] \in Over
               /\ rows[j] = "deleted" => rows'[j] = "deleted"
    BY <2>1, <2>2, <2>3, <2>5 DEF Over
  <2> QED
    BY <2>4, <2>6 DEF Moved
<1>2. ASSUME NEW S, Deleted(S), \A j \in TradeNos : j \in S => rows[j] \in {"open", "closed"}
      PROVE  Moved(rows, rows')
  <2>1. rows \in [TradeNos -> Status]
    BY DEF Numbered
  <2>2. \A j \in TradeNos : rows'[j] = IF j \in S THEN "deleted" ELSE rows[j]
    BY <1>2 DEF Deleted
  <2>3. rows' \in [TradeNos -> Status]
    BY <1>2, <2>1 DEF Deleted, Status
  <2>4. Numbered(rows')
    BY <1>2, <2>2, <2>3 DEF Numbered
  <2> QED
    BY <1>2, <2>2, <2>4 DEF Moved, Over
<1>3. CASE AccountReset \/ HistoryCleared
  BY <1>2, <1>3 DEF AccountReset, HistoryCleared, With
<1> QED
  BY <1>1, <1>3 DEF RowsChange

(* A list stays what it was when the rows move.                             *)
LEMMA ChartMoves ==
    ASSUME NEW s, NEW rw, NEW nw, NEW g, Chart(s, rw, g), Moved(rw, nw)
    PROVE  Chart(s, nw, g)
<1>1. \A n \in 1..Len(s) : s[n] \in TradeNos /\ s[n] \in Int
  <2>1. \A n \in 1..Len(s) : s[n] \in TradeNos
    BY ElementOfSeq DEF Chart
  <2>2. \A i \in TradeNos : i \in Int
    BY TradesAre
  <2> QED
    BY <2>1, <2>2, Zenon
<1>2. ASSUME NEW n \in 1..Len(s), NEW i \in TradeNos, nw[i] = "open", i <= s[n]
      PROVE  rw[i] = "open"
  <2>1. rw[s[n]] # "none" /\ s[n] \in TradeNos /\ s[n] \in Int
    BY <1>1 DEF Chart
  <2>2. i \in Int
    BY TradesAre
  <2>3. rw[i] # "none"
    <3>1. CASE i < s[n]
      BY <2>1, <3>1 DEF Moved, Numbered
    <3>2. CASE i = s[n]
      BY <2>1, <3>2
    <3> QED
      BY <1>2, <2>1, <2>2, <3>1, <3>2
  <2> QED
    BY <1>2, <2>3 DEF Moved
<1>3. \A n \in 1..Len(s), i \in TradeNos :
         nw[i] = "open" /\ i <= s[n] => \E k \in 1..n : s[k] = i
  BY <1>2 DEF Chart
<1>4. \A n \in 1..Len(s) : nw[s[n]] # "none"
  BY <1>1 DEF Chart, Moved
<1> QED
  BY <1>3, <1>4 DEF Chart

(* So does what an iteration has taken,                                     *)
LEMMA TakenMoves ==
    ASSUME NEW list \in Seq(TradeNos), NEW m, NEW rw, NEW nw, NEW out,
           Taken(list, m, rw, out), Moved(rw, nw)
    PROVE  Taken(list, m, nw, out)
<1>1. m = Len(list) /\ m \in Nat
  BY DEF Taken
<1>2. \A n \in 1..m : list[n] \in TradeNos
  BY <1>1, ElementOfSeq
<1>3. ASSUME 0 < m PROVE Cardinality(OpenUpTo(nw, list[m])) <= m
  <2> DEFINE x == list[m]
  <2>1. x \in TradeNos /\ rw[x] # "none"
    BY <1>1, <1>2, <1>3 DEF Taken
  <2>2. x \in Int /\ \A i \in TradeNos : i \in Int
    BY <2>1, TradesAre
  <2> HIDE DEF x
  <2>3. ASSUME NEW i \in TradeNos, nw[i] = "open", i <= x PROVE rw[i] = "open"
    <3>1. rw[i] # "none"
      <4>1. CASE i < x
        BY <2>1, <4>1 DEF Moved, Numbered
      <4>2. CASE i = x
        BY <2>1, <4>2
      <4> QED
        BY <2>2, <2>3, <4>1, <4>2
    <3> QED
      BY <2>3, <3>1 DEF Moved
  <2>4. OpenUpTo(nw, x) \subseteq OpenUpTo(rw, x)
    BY <2>3 DEF OpenUpTo
  <2>5. IsFiniteSet(OpenUpTo(rw, x)) /\ Cardinality(OpenUpTo(rw, x)) \in Nat
    BY OpenFinite
  <2>6. Cardinality(OpenUpTo(nw, x)) <= Cardinality(OpenUpTo(rw, x))
    BY <2>4, <2>5, FS_Subset
  <2>7. Cardinality(OpenUpTo(rw, x)) <= m
    BY <1>3 DEF Taken, x
  <2>8. Cardinality(OpenUpTo(nw, x)) \in Nat
    BY OpenFinite
  <2> QED
    BY <1>1, <2>5, <2>6, <2>7, <2>8 DEF x
<1>4. \A n \in 1..m : nw[list[n]] # "none"
  BY <1>2 DEF Taken, Moved
<1> QED
  BY <1>3, <1>4 DEF Taken

(* what the statements of /state have read,                                 *)
LEMMA ReadsMove ==
    ASSUME NEW list, NEW was, NEW rw, NEW nw, Moved(rw, nw)
    PROVE  /\ FirstRead(list, was, rw) => FirstRead(list, was, nw)
           /\ SecondRead(list, was, rw) => SecondRead(list, was, nw)
<1>1. \A i \in TradeNos : /\ rw[i] \in Over => nw[i] \in Over
                          /\ rw[i] = "deleted" => nw[i] = "deleted"
  BY DEF Moved
<1> QED
  BY <1>1 DEF FirstRead, SecondRead

(* and a list of closed trades.                                             *)
LEMMA ClosedMoves ==
    ASSUME NEW s, NEW rw, NEW nw, Moved(rw, nw), ClosedOK(s, rw)
    PROVE  ClosedOK(s, nw)
<1>1. \A n \in 1..Len(s) : s[n] \in TradeNos
  BY ElementOfSeq DEF ClosedOK
<1> QED
  BY <1>1 DEF ClosedOK, Moved

(* The rows move under every request, and every request stays right.        *)
LEMMA RowsStep ==
    ASSUME ViewInv, RowsChange
    PROVE  ViewInv'
<1>1. UNCHANGED <<openPositions, closedPositions, engineLock, at, selected, position,
                  answer, seen, gone, floor>>
  BY DEF RowsChange, WorkerWrites, AccountReset, HistoryCleared, Deleted, engine, history
<1>2. Moved(rows, rows') /\ Numbered(rows')
  <2>1. Moved(rows, rows')
    BY RowsMove DEF ViewInv
  <2> QED
    BY <2>1 DEF Moved
<1>3. Asking'
  BY <1>1 DEF ViewInv, Asking
<1>4. GoneOK(rows', gone)
  <2>1. gone.last \subseteq TradeNos /\ gone.loading \subseteq TradeNos
    BY DEF ViewInv, GoneOK
  <2> QED
    BY <1>2, <2>1 DEF ViewInv, GoneOK, Moved
<1>5. Chart(openPositions, rows', gone) /\ ClosedOK(closedPositions, rows')
  BY <1>2, ChartMoves, ClosedMoves DEF ViewInv
<1>6. ASSUME NEW t \in Requests, at[t] \in Loading PROVE LoadOK(t)'
  <2>1. LoadOK(t)
    BY <1>6 DEF ViewInv
  <2>2. Built(at[t], openPositions, closedPositions, selected[t], rows', gone)
    BY <1>2, <2>1, ChartMoves, ClosedMoves DEF LoadOK, Built
  <2> QED
    BY <1>1, <2>1, <2>2 DEF LoadOK
<1>7. ASSUME NEW t \in Requests, at[t] \in Iterating PROVE IterationOK(t)'
  <2>1. IterationOK(t) /\ answer[t].open \in Seq(TradeNos)
    BY <1>7 DEF ViewInv, Asking
  <2>2. Taken(answer[t].open, position[t][1], rows', floor[t])
    BY <1>2, <2>1, TakenMoves DEF IterationOK
  <2> QED
    BY <1>1, <2>1, <2>2 DEF IterationOK
<1>8. ASSUME NEW t \in Requests PROVE ReadOK(t)'
  <2>1. ReadOK(t)
    BY DEF ViewInv
  <2> QED
    BY <1>1, <1>2, <2>1, ReadsMove DEF ReadOK
<1> QED
  BY <1>1, <1>2, <1>3, <1>4, <1>5, <1>6, <1>7, <1>8 DEF ViewInv

\* A step of a load of t, which goes to w.
LoadMoves(t, w) ==
    /\ at[t] \in Loading \cup {"idle"} /\ w \in Loading \cup {"idle"}
    /\ at' = [at EXCEPT ![t] = w]
    /\ engineLock \in {NoRequest, t}
    /\ UNCHANGED <<rows, position, answer, seen, floor>>

(* What a step of a load has to show.                                       *)
LEMMA LoadKeeps ==
    ASSUME ViewInv, NEW t \in Requests, NEW w, LoadMoves(t, w),
           selected' \in [Requests -> Seq(TradeNos)],
           GoneOK(rows, gone'), gone.last \subseteq gone'.last,
           Chart(openPositions', rows, gone'), ClosedOK(closedPositions', rows),
           AheadOfAll(openPositions', at, position, answer),
           w \in Loading =>
              /\ engineLock' = t
              /\ Built(w, openPositions', closedPositions', selected'[t], rows, gone'),
           w = "fillOpen" => AheadOfAll(openPositions' \o selected'[t], at, position, answer)
    PROVE  ViewInv'
<1>1. /\ at \in [Requests -> {"idle", "viewSecond", "viewed"} \cup Loading \cup Iterating]
      /\ at'[t] = w /\ \A u \in Requests \ {t} : at'[u] = at[u]
      /\ UNCHANGED <<rows, position, answer, seen, floor>>
  BY DEF LoadMoves, ViewInv, Asking
<1>2. \A u \in Requests : at'[u] \in Iterating => at[u] \in Iterating
  BY <1>1 DEF LoadMoves, Loading, Iterating
<1>3. Asking'
  <2>1. at' \in [Requests -> {"idle", "viewSecond", "viewed"} \cup Loading \cup Iterating]
    BY <1>1 DEF LoadMoves
  <2> QED
    BY <1>1, <2>1 DEF ViewInv, Asking
<1>4. ASSUME NEW s, AheadOfAll(s, at, position, answer)
      PROVE  AheadOfAll(s, at', position', answer')
  BY <1>1, <1>2, <1>4 DEF AheadOfAll
<1>5. AheadOfAll(openPositions', at', position', answer')
  BY <1>4
<1>6. ASSUME NEW u \in Requests, at'[u] \in Loading PROVE LoadOK(u)'
  <2>1. CASE u = t
    <3>1. w \in Loading /\ at'[u] = w
      BY <1>1, <1>6, <2>1
    <3>2. w = "fillOpen" =>
             AheadOfAll(openPositions' \o selected'[t], at', position', answer')
      BY <1>4
    <3> QED
      BY <1>1, <2>1, <3>1, <3>2 DEF LoadOK
  <2>2. CASE u # t
    <3>1. LoadOK(u) /\ engineLock = u
      BY <1>1, <1>6, <2>2 DEF ViewInv, LoadOK
    <3> QED
      BY <2>2, <3>1, ViewAssumption DEF LoadMoves
  <2> QED
    BY <2>1, <2>2
<1>7. ASSUME NEW u \in Requests, at'[u] \in Iterating PROVE IterationOK(u)'
  <2>1. IterationOK(u)
    BY <1>2, <1>7 DEF ViewInv
  <2> QED
    BY <1>1, <2>1 DEF IterationOK
<1>8. ASSUME NEW u \in Requests PROVE ReadOK(u)'
  <2>1. ReadOK(u)
    BY DEF ViewInv
  <2>2. at'[u] = at[u] \/ at'[u] \in Loading \cup {"idle"}
    BY <1>1 DEF LoadMoves
  <2> QED
    BY <1>1, <2>1, <2>2 DEF ReadOK, Loading
<1> QED
  BY <1>1, <1>3, <1>5, <1>6, <1>7, <1>8 DEF ViewInv

\* s is what the engine holds, or begins with it.
Begins(s) ==
    /\ Chart(s, rows, gone) /\ AheadOfAll(s, at, position, answer)
    /\ Len(openPositions) <= Len(s)
    /\ \A n \in 1..Len(openPositions) : s[n] = openPositions[n]

\* A step of another request, which goes to w: it reads only.
ReadMoves(t, w) ==
    /\ at[t] \notin Loading /\ w \in {"idle", "viewSecond", "viewed"} \cup Iterating
    /\ at' = [at EXCEPT ![t] = w]
    /\ UNCHANGED <<rows, openPositions, closedPositions, engineLock, selected, gone>>
    /\ \A u \in Requests \ {t} :
          /\ position'[u] = position[u] /\ answer'[u] = answer[u]
          /\ seen'[u] = seen[u] /\ floor'[u] = floor[u]

(* What a step of a request that only reads has to show.                    *)
LEMMA ReadKeeps ==
    ASSUME ViewInv, NEW t \in Requests, NEW w, ReadMoves(t, w),
           position' \in [Requests -> Nat \X Nat],
           answer' \in [Requests -> [open : Seq(TradeNos), closed : Seq(TradeNos)]],
           seen' \in [Requests -> [TradeNos -> Status]],
           floor' \in [Requests -> SUBSET TradeNos],
           w \in Iterating =>
              /\ floor'[t] \subseteq gone.last
              /\ Taken(answer'[t].open, position'[t][1], rows, floor'[t])
              /\ \A s : Begins(s) => Ahead(s, position'[t][1], answer'[t].open),
           w \in {"viewSecond", "viewed"} => FirstRead(answer'[t].open, seen'[t], rows),
           w = "viewed" => SecondRead(answer'[t].closed, seen'[t], rows)
    PROVE  ViewInv'
<1>1. /\ at \in [Requests -> {"idle", "viewSecond", "viewed"} \cup Loading \cup Iterating]
      /\ at'[t] = w /\ \A u \in Requests \ {t} : at'[u] = at[u]
      /\ UNCHANGED <<rows, openPositions, closedPositions, engineLock, selected, gone>>
      /\ \A u \in Requests \ {t} :
            /\ position'[u] = position[u] /\ answer'[u] = answer[u]
            /\ seen'[u] = seen[u] /\ floor'[u] = floor[u]
  BY DEF ReadMoves, ViewInv, Asking
<1>2. Asking'
  <2>1. at' \in [Requests -> {"idle", "viewSecond", "viewed"} \cup Loading \cup Iterating]
    BY <1>1 DEF ReadMoves
  <2> QED
    BY <1>1, <2>1 DEF ViewInv, Asking
<1>3. ASSUME NEW s, Begins(s) PROVE AheadOfAll(s, at', position', answer')
  <2> SUFFICES ASSUME NEW u \in Requests, at'[u] \in Iterating
               PROVE  Ahead(s, position'[u][1], answer'[u].open)
    BY DEF AheadOfAll
  <2>1. CASE u = t
    BY <1>1, <1>3, <2>1
  <2>2. CASE u # t
    BY <1>1, <1>3, <2>2 DEF Begins, AheadOfAll
  <2> QED
    BY <2>1, <2>2
<1>4. /\ openPositions \in Seq(TradeNos) /\ Len(openPositions) \in Nat
      /\ Begins(openPositions)
  <2>1. openPositions \in Seq(TradeNos)
    BY DEF ViewInv, Chart
  <2>2. Len(openPositions) \in Nat
    BY <2>1
  <2> QED
    BY <2>1, <2>2 DEF ViewInv, Begins
<1>5. AheadOfAll(openPositions', at', position', answer')
  BY <1>1, <1>3, <1>4
<1>6. ASSUME NEW u \in Requests, at'[u] \in Loading PROVE LoadOK(u)'
  <2>1. u # t /\ at'[u] = at[u]
    BY <1>1, <1>6 DEF ReadMoves, Loading, Iterating
  <2>2. LoadOK(u)
    BY <1>6, <2>1 DEF ViewInv
  <2>3. ASSUME at[u] = "fillOpen"
        PROVE  AheadOfAll(openPositions \o selected[u], at', position', answer')
    <3> DEFINE s == openPositions \o selected[u]
    <3>1. Chart(s, rows, gone) /\ AheadOfAll(s, at, position, answer)
      BY <2>2, <2>3 DEF LoadOK, Built
    <3>2. selected[u] \in Seq(TradeNos)
      BY DEF ViewInv, Asking
    <3>3. /\ Len(openPositions) <= Len(s)
          /\ \A n \in 1..Len(openPositions) : s[n] = openPositions[n]
      BY <1>4, <3>2, ConcatProperties
    <3> HIDE DEF s
    <3>4. AheadOfAll(s, at', position', answer')
      BY <1>3, <3>1, <3>3 DEF Begins
    <3> QED
      BY <3>4 DEF s
  <2> QED
    BY <1>1, <2>1, <2>2, <2>3 DEF LoadOK
<1>7. ASSUME NEW u \in Requests, at'[u] \in Iterating PROVE IterationOK(u)'
  <2>1. CASE u = t
    BY <1>1, <1>7, <2>1 DEF IterationOK
  <2>2. CASE u # t
    <3>1. IterationOK(u)
      BY <1>1, <1>7, <2>2 DEF ViewInv
    <3> QED
      BY <1>1, <2>2, <3>1 DEF IterationOK
  <2> QED
    BY <2>1, <2>2
<1>8. ASSUME NEW u \in Requests PROVE ReadOK(u)'
  <2>1. CASE u = t
    BY <1>1, <2>1 DEF ReadOK
  <2>2. CASE u # t
    <3>1. ReadOK(u)
      BY DEF ViewInv
    <3> QED
      BY <1>1, <2>2, <3>1 DEF ReadOK
  <2> QED
    BY <2>1, <2>2
<1> QED
  BY <1>1, <1>2, <1>5, <1>6, <1>7, <1>8 DEF ViewInv

(* A statement returns each of its rows once and no other.                  *)
LEMMA InOrderHas ==
    ASSUME Numbered(rows), NEW S \in SUBSET TradeNos, NEW s, s = InOrder(S)
    PROVE  /\ s \in Seq(TradeNos)
           /\ \A i \in TradeNos : Contains(s, i) <=> i \in S
           /\ \A n \in 1..Len(s) : s[n] \in S
           /\ \A m, n \in 1..Len(s) : s[m] = s[n] => m = n
<1>1. Enumerates(s, S) /\ s \in Seq(TradeNos)
  BY InOrderIs
<1>2. \A n \in 1..Len(s) : s[n] \in S
  BY <1>1, ElementOfSeq DEF Enumerates
<1>3. \A i \in TradeNos : Contains(s, i) <=> i \in S
  BY <1>1, <1>2 DEF Enumerates, Contains
<1>4. ASSUME NEW m \in 1..Len(s), NEW n \in 1..Len(s), s[m] = s[n] PROVE m = n
  <2>1. s[m] \in TradeNos /\ s[n] \in TradeNos
    BY <1>2
  <2>2. s[m] \in Int /\ s[n] \in Int
    BY <2>1, TradesAre
  <2>3. m \in Int /\ n \in Int
    OBVIOUS
  <2>4. \A k, l \in 1..Len(s) : k < l => s[k] < s[l]
    BY <1>1 DEF Enumerates
  <2>5. ~(m < n)
    BY <1>4, <2>2, <2>4
  <2>6. ~(n < m)
    BY <1>4, <2>2, <2>4
  <2> QED
    BY <2>3, <2>5, <2>6
<1> QED
  BY <1>1, <1>2, <1>3, <1>4

(* A load begins with empty lists.                                          *)
LEMMA StartLoadStep ==
    ASSUME ViewInv, NEW t \in Requests, StartLoad(t)
    PROVE  ViewInv'
<1> DEFINE g == gone'
<1>1. /\ LoadMoves(t, "selectOpen") /\ selected' = selected
      /\ openPositions' = <<>> /\ closedPositions' = <<>> /\ engineLock' = t
  BY DEF StartLoad, LoadMoves, Go, LockFree, Loading
<1>2. g = [last |-> gone.last, loading |-> With("closed") \cup With("deleted")]
  BY DEF StartLoad, ViewInv, GoneOK
<1>3. g.last = gone.last /\ g.loading = {i \in TradeNos : rows[i] \in Over}
  BY <1>2 DEF With, Over
<1>4. GoneOK(rows, g)
  <2>1. g \in [last : SUBSET TradeNos, loading : SUBSET TradeNos]
    BY <1>2 DEF With, ViewInv, GoneOK
  <2> QED
    BY <1>3, <2>1 DEF ViewInv, GoneOK
<1>5. gone.last \subseteq g.last /\ g.last \subseteq g.loading
  BY <1>3 DEF ViewInv, GoneOK
<1> HIDE DEF g
<1>6. Chart(openPositions', rows, g) /\ AheadOfAll(openPositions', at, position, answer)
  <2>1. \A u \in Requests : position[u][1] \in Nat
    BY DEF ViewInv, Asking
  <2> QED
    BY <1>1, <2>1, EmptyChart DEF AheadOfAll
<1>7. ClosedOK(closedPositions', rows)
  <2>1. <<>> \in Seq(TradeNos) /\ Len(<<>>) = 0
    OBVIOUS
  <2> QED
    BY <1>1, <2>1 DEF ClosedOK
<1>8. Built("selectOpen", openPositions', closedPositions', selected'[t], rows, g)
  BY <1>1, <1>5 DEF Built
<1>9. selected' \in [Requests -> Seq(TradeNos)]
  BY <1>1 DEF ViewInv, Asking
<1> QED
  BY <1>1, <1>4, <1>5, <1>6, <1>7, <1>8, <1>9, LoadKeeps DEF g

(* The open trades as the load has selected them are ahead of whatever an   *)
(* iteration has taken.                                                     *)
LEMMA SelectOpenStep ==
    ASSUME ViewInv, NEW t \in Requests, SelectOpen(t)
    PROVE  ViewInv'
<1> DEFINE s == InOrder(With("open"))
<1>1. /\ LoadMoves(t, "fillOpen") /\ engineLock = t /\ at[t] = "selectOpen"
      /\ gone.last \subseteq gone.loading /\ openPositions = <<>> /\ closedPositions = <<>>
  <2>1. LoadOK(t) /\ at[t] = "selectOpen"
    BY DEF ViewInv, SelectOpen, Loading
  <2> QED
    BY <2>1 DEF SelectOpen, LoadMoves, Go, Loading, LoadOK, Built, history
<1>2. /\ selected' = [selected EXCEPT ![t] = s]
      /\ UNCHANGED <<rows, openPositions, closedPositions, engineLock, gone>>
  BY DEF SelectOpen, engine, history
<1>3. With("open") \in SUBSET TradeNos
  BY DEF With
<1>4. s \in Seq(TradeNos) /\ Chart(s, rows, gone)
  BY <1>3, InOrderHas, SelectedChart DEF ViewInv
<1>5. AheadOfAll(s, at, position, answer)
  <2> SUFFICES ASSUME NEW u \in Requests, at[u] \in Iterating
               PROVE  Ahead(s, position[u][1], answer[u].open)
    BY DEF AheadOfAll
  <2> DEFINE m == position[u][1]
             list == answer[u].open
  <2>1. Taken(list, m, rows, floor[u]) /\ list \in Seq(TradeNos)
    BY DEF ViewInv, IterationOK, Asking
  <2> SUFFICES ASSUME 0 < m, m < Len(s) PROVE list[m] < s[m + 1]
    BY DEF Ahead
  <2> HIDE DEF m, list, s
  <2>2. m = Len(list) /\ m \in Nat
    BY <2>1 DEF Taken
  <2>3. list[m] \in TradeNos
    BY <2>1, <2>2, ElementOfSeq
  <2>4. Cardinality(OpenUpTo(rows, list[m])) <= m
    BY <2>1 DEF Taken
  <2> QED
    BY <2>2, <2>3, <2>4, SelectedAhead DEF ViewInv, s
<1> HIDE DEF s
<1>6. selected' \in [Requests -> Seq(TradeNos)] /\ selected'[t] = s
  BY <1>2, <1>4 DEF ViewInv, Asking
<1>7. <<>> \o s = s
  BY <1>4, ConcatEmptySeq
<1>8. Built("fillOpen", openPositions', closedPositions', selected'[t], rows, gone')
  BY <1>1, <1>2, <1>4, <1>6, <1>7 DEF Built
<1>9. AheadOfAll(openPositions' \o selected'[t], at, position, answer)
  BY <1>1, <1>2, <1>5, <1>6, <1>7
<1> QED
  BY <1>1, <1>2, <1>6, <1>8, <1>9, LoadKeeps DEF ViewInv

(* Moving the head of a list to the end of another keeps their concatenation. *)
LEMMA HeadMoves ==
    ASSUME NEW S, NEW a \in Seq(S), NEW b \in Seq(S), b # <<>>
    PROVE  /\ Append(a, Head(b)) \o Tail(b) = a \o b
           /\ Append(a, Head(b)) \in Seq(S) /\ Tail(b) \in Seq(S)
           /\ Len(Append(a, Head(b))) = Len(a) + 1 /\ Len(Append(a, Head(b))) <= Len(a \o b)
           /\ \A n \in 1..(Len(a) + 1) : Append(a, Head(b))[n] = (a \o b)[n]
           /\ (a \o b)[Len(a) + 1] = Head(b) /\ \A n \in 1..Len(a) : (a \o b)[n] = a[n]
           /\ Len(Tail(b)) = Len(b) - 1 /\ Len(b) \in Nat \ {0} /\ Head(b) = b[1]
           /\ \A n \in 1..Len(Tail(b)) : Tail(b)[n] = b[n + 1]
<1> DEFINE h == Head(b)
           r == Tail(b)
           c == Append(a, h)
<1>1. /\ h \in S /\ r \in Seq(S) /\ Len(b) \in Nat \ {0} /\ h = b[1]
      /\ Len(r) = Len(b) - 1 /\ \A n \in 1..Len(r) : r[n] = b[n + 1]
  BY HeadTailProperties, EmptySeq
<1> HIDE DEF h, r
<1>2. /\ c \in Seq(S) /\ Len(c) = Len(a) + 1 /\ c[Len(a) + 1] = h
      /\ \A n \in 1..Len(a) : c[n] = a[n]
  BY <1>1, AppendProperties
<1>3. /\ a \o b \in Seq(S) /\ Len(a \o b) = Len(a) + Len(b) /\ Len(a) \in Nat
      /\ \A n \in 1..(Len(a) + Len(b)) :
            (a \o b)[n] = IF n <= Len(a) THEN a[n] ELSE b[n - Len(a)]
  BY ConcatProperties
<1> HIDE DEF c
<1>4. /\ c \o r \in Seq(S) /\ Len(c \o r) = Len(c) + Len(r)
      /\ \A n \in 1..(Len(c) + Len(r)) :
            (c \o r)[n] = IF n <= Len(c) THEN c[n] ELSE r[n - Len(c)]
  BY <1>1, <1>2, ConcatProperties
<1> DEFINE ab == a \o b
           cr == c \o r
           la == Len(a)
           lb == Len(b)
<1>5. (ab)[la + 1] = h /\ \A n \in 1..la : ab[n] = a[n]
  BY <1>1, <1>3
<1>6. \A n \in 1..(la + 1) : c[n] = ab[n]
  BY <1>2, <1>3, <1>5
<1>7. Len(cr) = Len(ab) /\ cr \in Seq(S) /\ ab \in Seq(S)
  BY <1>1, <1>2, <1>3, <1>4
<1>8. ASSUME NEW n \in 1..Len(cr) PROVE cr[n] = ab[n]
  <2>1. n \in 1..(la + lb) /\ n \in 1..(Len(c) + Len(r)) /\ la \in Nat /\ lb \in Nat
    BY <1>1, <1>2, <1>3, <1>4, <1>7
  <2>2. CASE n <= la + 1
    BY <1>2, <1>4, <1>6, <2>1, <2>2
  <2>3. CASE ~(n <= la + 1)
    <3>1. n - Len(c) \in 1..Len(r) /\ (n - Len(c)) + 1 = n - la
      BY <1>1, <1>2, <2>1, <2>3
    <3>2. cr[n] = r[n - Len(c)] /\ ab[n] = b[n - la]
      BY <1>2, <1>3, <1>4, <2>1, <2>3
    <3> QED
      BY <1>1, <3>1, <3>2
  <2> QED
    BY <2>2, <2>3
<1> HIDE DEF ab, cr
<1>9. cr = ab
  BY <1>7, <1>8, SeqEqual
<1> QED
  BY <1>1, <1>2, <1>3, <1>5, <1>6, <1>9 DEF h, r, c, ab, cr

(* The list that is built begins with what has been copied of it.           *)
LEMMA FillOpenStep ==
    ASSUME ViewInv, NEW t \in Requests, FillOpen(t)
    PROVE  ViewInv'
<1> DEFINE a == openPositions
           b == selected[t]
           s == a \o b
           c == Append(a, Head(b))
<1>1. /\ LoadMoves(t, "fillOpen") /\ LoadOK(t) /\ at[t] = "fillOpen" /\ engineLock = t
      /\ UNCHANGED <<rows, closedPositions, engineLock, gone>>
      /\ b # <<>> /\ selected' = [selected EXCEPT ![t] = Tail(b)]
      /\ openPositions' = IF Contains(a, Head(b)) THEN a ELSE c
  <2>1. LoadOK(t) /\ at[t] = "fillOpen"
    BY DEF ViewInv, FillOpen, Loading
  <2>2. at' = [at EXCEPT ![t] = "fillOpen"]
    BY <2>1 DEF FillOpen, ViewInv, Asking
  <2> QED
    BY <2>1, <2>2 DEF FillOpen, LoadMoves, Loading, LoadOK, history
<1>2. /\ gone.last \subseteq gone.loading /\ closedPositions = <<>>
      /\ Chart(s, rows, gone) /\ AheadOfAll(s, at, position, answer)
  BY <1>1 DEF LoadOK, Built
<1>3. a \in Seq(TradeNos) /\ b \in Seq(TradeNos) /\ Len(a) \in Nat
  <2>1. a \in Seq(TradeNos) /\ b \in Seq(TradeNos)
    BY DEF ViewInv, Asking, Chart
  <2> QED
    BY <2>1
<1> HIDE DEF a, b, c
<1>4. /\ c \o Tail(b) = s /\ c \in Seq(TradeNos) /\ Tail(b) \in Seq(TradeNos)
      /\ Len(c) = Len(a) + 1 /\ Len(c) <= Len(s) /\ s[Len(a) + 1] = Head(b)
      /\ \A n \in 1..(Len(a) + 1) : c[n] = s[n]
      /\ \A n \in 1..Len(a) : s[n] = a[n]
  BY <1>1, <1>3, HeadMoves DEF c
<1> HIDE DEF s
<1>5. s \in Seq(TradeNos) /\ Len(s) \in Nat
  BY <1>2 DEF Chart
<1>6. ~Contains(a, Head(b))
  <2> SUFFICES ASSUME NEW n \in 1..Len(a), a[n] = Head(b) PROVE FALSE
    BY DEF Contains
  <2>1. n \in 1..Len(s) /\ Len(a) + 1 \in 1..Len(s) /\ n < Len(a) + 1
    BY <1>3, <1>4, <1>5
  <2>2. s[n] < s[Len(a) + 1]
    BY <1>2, <2>1 DEF Chart, Ascending
  <2>3. s[n] \in Int
    <3>1. s[n] \in TradeNos
      BY <1>5, <2>1, ElementOfSeq
    <3> QED
      BY <3>1, TradesAre
  <2> QED
    BY <1>4, <2>2, <2>3
<1>7. openPositions' = c
  BY <1>1, <1>6
<1>8. selected' \in [Requests -> Seq(TradeNos)] /\ selected'[t] = Tail(b)
  BY <1>1, <1>4 DEF ViewInv, Asking
<1>9. /\ Chart(c, rows, gone)
      /\ \A m \in Nat : \A list : Ahead(s, m, list) => Ahead(c, m, list)
  BY <1>2, <1>4, PrefixChart
<1>10. AheadOfAll(c, at, position, answer)
  <2>1. \A u \in Requests : position[u][1] \in Nat
    BY DEF ViewInv, Asking
  <2> QED
    BY <1>2, <1>9, <2>1 DEF AheadOfAll
<1>11. Built("fillOpen", openPositions', closedPositions', selected'[t], rows, gone')
  BY <1>1, <1>2, <1>4, <1>7, <1>8 DEF Built
<1>12. AheadOfAll(openPositions' \o selected'[t], at, position, answer)
  BY <1>2, <1>4, <1>7, <1>8
<1>13. ClosedOK(closedPositions', rows) /\ GoneOK(rows, gone')
  BY <1>1 DEF ViewInv
<1> QED
  BY <1>1, <1>7, <1>8, <1>9, <1>10, <1>11, <1>12, <1>13, LoadKeeps

(* The closed trades are selected once the open ones are copied.            *)
LEMMA SelectClosedStep ==
    ASSUME ViewInv, NEW t \in Requests, SelectClosed(t)
    PROVE  ViewInv'
<1> DEFINE s == InOrder(With("closed"))
<1>1. /\ LoadMoves(t, "fillClosed") /\ engineLock = t
      /\ gone.last \subseteq gone.loading /\ closedPositions = <<>>
  <2>1. LoadOK(t) /\ at[t] = "fillOpen"
    BY DEF ViewInv, SelectClosed, Loading
  <2> QED
    BY <2>1 DEF SelectClosed, LoadMoves, Go, Loading, LoadOK, Built, history
<1>2. /\ selected' = [selected EXCEPT ![t] = s]
      /\ UNCHANGED <<rows, openPositions, closedPositions, engineLock, gone>>
  BY DEF SelectClosed, engine, history
<1>3. With("closed") \in SUBSET TradeNos /\ \A i \in With("closed") : rows[i] \in Over
  BY DEF With, Over
<1>4. ClosedOK(s, rows)
  BY <1>3, InOrderHas DEF ViewInv, ClosedOK
<1> HIDE DEF s
<1>5. s \in Seq(TradeNos)
  BY <1>4 DEF ClosedOK
<1>6. selected' \in [Requests -> Seq(TradeNos)] /\ selected'[t] = s
  BY <1>2, <1>5 DEF ViewInv, Asking
<1>7. Apart(<<>>, s)
  BY DEF Apart
<1>8. Built("fillClosed", openPositions', closedPositions', selected'[t], rows, gone')
  BY <1>1, <1>2, <1>4, <1>6, <1>7 DEF Built
<1> QED
  BY <1>1, <1>2, <1>6, <1>8, LoadKeeps DEF ViewInv, Loading

(* Each closed trade is copied once.                                        *)
LEMMA FillClosedStep ==
    ASSUME ViewInv, NEW t \in Requests, FillClosed(t)
    PROVE  ViewInv'
<1> DEFINE a == closedPositions
           b == selected[t]
           c == Append(a, Head(b))
           r == Tail(b)
<1>1. /\ LoadMoves(t, "fillClosed") /\ LoadOK(t) /\ at[t] = "fillClosed" /\ engineLock = t
      /\ UNCHANGED <<rows, openPositions, engineLock, gone>>
      /\ b # <<>> /\ selected' = [selected EXCEPT ![t] = r] /\ closedPositions' = c
  <2>1. LoadOK(t) /\ at[t] = "fillClosed"
    BY DEF ViewInv, FillClosed, Loading
  <2>2. at' = [at EXCEPT ![t] = "fillClosed"]
    BY <2>1 DEF FillClosed, ViewInv, Asking
  <2> QED
    BY <2>1, <2>2 DEF FillClosed, LoadMoves, Loading, LoadOK, history
<1>2. /\ gone.last \subseteq gone.loading
      /\ ClosedOK(a, rows) /\ ClosedOK(b, rows) /\ Apart(a, b)
  BY <1>1 DEF ViewInv, LoadOK, Built
<1> HIDE DEF a, b, c, r
<1>3. /\ a \in Seq(TradeNos) /\ b \in Seq(TradeNos) /\ Len(a) \in Nat /\ Len(b) \in Nat \ {0}
  <2>1. a \in Seq(TradeNos) /\ b \in Seq(TradeNos)
    BY <1>2 DEF ClosedOK
  <2> QED
    BY <1>1, <2>1, EmptySeq
<1>4. /\ c \in Seq(TradeNos) /\ r \in Seq(TradeNos)
      /\ Len(c) = Len(a) + 1 /\ Len(r) = Len(b) - 1 /\ c[Len(a) + 1] = b[1]
      /\ \A n \in 1..Len(a) : c[n] = a[n]
      /\ \A n \in 1..Len(r) : r[n] = b[n + 1]
  BY <1>1, <1>3, HeadMoves, HeadTailProperties, AppendProperties DEF c, r
<1>5. 1 \in 1..Len(b) /\ \A n \in 1..Len(r) : n + 1 \in 1..Len(b) /\ n + 1 # 1
  BY <1>3, <1>4
<1>6. \A n \in 1..Len(c) : n \in 1..Len(a) \/ n = Len(a) + 1
  BY <1>3, <1>4
<1>7. ASSUME NEW m \in 1..Len(c), NEW n \in 1..Len(c), c[m] = c[n] PROVE m = n
  BY <1>2, <1>4, <1>5, <1>6, <1>7 DEF ClosedOK, Apart
<1>8. ASSUME NEW m \in 1..Len(r), NEW n \in 1..Len(r), r[m] = r[n] PROVE m = n
  <2>1. m + 1 = n + 1
    BY <1>2, <1>4, <1>5, <1>8 DEF ClosedOK
  <2> QED
    BY <2>1
<1>9. ClosedOK(c, rows)
  BY <1>2, <1>4, <1>5, <1>6, <1>7 DEF ClosedOK
<1>10. ClosedOK(r, rows)
  BY <1>2, <1>4, <1>5, <1>8 DEF ClosedOK
<1>11. Apart(c, r)
  <2> SUFFICES ASSUME NEW m \in 1..Len(c), NEW n \in 1..Len(r) PROVE c[m] # r[n]
    BY DEF Apart
  <2>1. r[n] = b[n + 1] /\ n + 1 \in 1..Len(b) /\ n + 1 # 1
    BY <1>4, <1>5
  <2>2. CASE m \in 1..Len(a)
    BY <1>2, <1>4, <2>1, <2>2 DEF Apart
  <2>3. CASE m = Len(a) + 1
    BY <1>2, <1>4, <1>5, <2>1, <2>3 DEF ClosedOK
  <2> QED
    BY <1>6, <2>2, <2>3
<1>12. selected' \in [Requests -> Seq(TradeNos)] /\ selected'[t] = r
  BY <1>1, <1>4 DEF ViewInv, Asking
<1>13. Built("fillClosed", openPositions', closedPositions', selected'[t], rows, gone')
  BY <1>1, <1>2, <1>10, <1>11, <1>12 DEF Built
<1> QED
  BY <1>1, <1>9, <1>12, <1>13, LoadKeeps DEF ViewInv, Loading

(* What was closed when the load began is what is gone when it ends.        *)
LEMMA EndLoadStep ==
    ASSUME ViewInv, NEW t \in Requests, EndLoad(t)
    PROVE  ViewInv'
<1> DEFINE g == gone'
<1>1. /\ LoadMoves(t, "idle") /\ gone.last \subseteq gone.loading
      /\ g = [last |-> gone.loading, loading |-> {}]
      /\ UNCHANGED <<rows, openPositions, closedPositions, selected>>
  <2>1. LoadOK(t) /\ at[t] = "fillClosed"
    BY DEF ViewInv, EndLoad, Loading
  <2> QED
    BY <2>1 DEF EndLoad, LoadMoves, Go, Loading, LoadOK, Built, engine
<1> HIDE DEF g
<1>2. g.last = gone.loading /\ g.loading = {}
  BY <1>1
<1>3. GoneOK(rows, g)
  BY <1>1, <1>2 DEF ViewInv, GoneOK
<1>4. Chart(openPositions, rows, g)
  BY <1>2 DEF ViewInv, Chart
<1>5. "idle" \notin Loading
  BY DEF Loading
<1> QED
  BY <1>1, <1>2, <1>3, <1>4, <1>5, LoadKeeps DEF ViewInv, Asking, g

(* The first statement of /state reads the open trades as they are.         *)
LEMMA ViewFirstStep ==
    ASSUME ViewInv, NEW t \in Requests, ViewFirst(t)
    PROVE  ViewInv'
<1> DEFINE s == InOrder(With("open"))
<1>1. /\ ReadMoves(t, "viewSecond") /\ rows \in [TradeNos -> Status]
      /\ answer' = [answer EXCEPT ![t]["open"] = s]
      /\ seen' = [seen EXCEPT ![t] = rows] /\ UNCHANGED <<position, floor>>
  BY DEF ViewInv, Asking, Numbered, ViewFirst, ReadMoves, Go, Lists, Fetched, Loading, Iterating,
         engine
<1>2. With("open") \in SUBSET TradeNos /\ \A i \in TradeNos : i \in With("open") <=> rows[i] = "open"
  BY DEF With
<1>3. s \in Seq(TradeNos) /\ \A i \in TradeNos : Contains(s, i) <=> rows[i] = "open"
  BY <1>2, InOrderHas DEF ViewInv
<1> HIDE DEF s
<1>4. /\ answer' \in [Requests -> [open : Seq(TradeNos), closed : Seq(TradeNos)]]
      /\ answer'[t].open = s /\ seen'[t] = rows
      /\ seen' \in [Requests -> [TradeNos -> Status]]
  BY <1>1, <1>3 DEF ViewInv, Asking
<1>5. FirstRead(answer'[t].open, seen'[t], rows)
  BY <1>3, <1>4 DEF FirstRead, Over
<1> QED
  BY <1>1, <1>4, <1>5, ReadKeeps DEF ViewInv, Asking, Iterating

(* What the first statement has not read as open is closed by the second,   *)
(* or deleted.                                                              *)
LEMMA ViewSecondStep ==
    ASSUME ViewInv, NEW t \in Requests, ViewSecond(t)
    PROVE  ViewInv'
<1> DEFINE s == InOrder(With("closed"))
<1>1. /\ ReadMoves(t, "viewed") /\ FirstRead(answer[t].open, seen[t], rows)
      /\ answer' = [answer EXCEPT ![t]["closed"] = s] /\ UNCHANGED <<position, floor, seen>>
  <2>1. at[t] = "viewSecond" /\ ReadOK(t)
    BY DEF ViewInv, ViewSecond
  <2> QED
    BY <2>1 DEF ViewInv, Asking, ReadOK, ViewSecond, ReadMoves, Go, Lists, Fetched, Loading,
                Iterating, engine, history
<1>2. /\ With("closed") \in SUBSET TradeNos
      /\ \A i \in TradeNos : i \in With("closed") <=> rows[i] = "closed"
  BY DEF With
<1>3. s \in Seq(TradeNos) /\ \A i \in TradeNos : Contains(s, i) <=> rows[i] = "closed"
  BY <1>2, InOrderHas DEF ViewInv
<1> HIDE DEF s
<1>4. /\ answer' \in [Requests -> [open : Seq(TradeNos), closed : Seq(TradeNos)]]
      /\ answer'[t].open = answer[t].open /\ answer'[t].closed = s
  BY <1>1, <1>3 DEF ViewInv, Asking
<1>5. SecondRead(answer'[t].closed, seen'[t], rows)
  BY <1>1, <1>3, <1>4 DEF FirstRead, SecondRead, Over
<1> QED
  BY <1>1, <1>4, <1>5, ReadKeeps DEF ViewInv, Asking, Iterating

(* An iteration begins with nothing.                                        *)
LEMMA IterateStep ==
    ASSUME ViewInv, NEW t \in Requests, Iterate(t)
    PROVE  ViewInv'
<1>1. /\ ReadMoves(t, "iterating") /\ seen' = seen
      /\ position' = [position EXCEPT ![t] = <<0, Len(openPositions)>>]
      /\ answer' = [answer EXCEPT ![t] = Nothing]
      /\ floor' = [floor EXCEPT ![t] = gone.last]
  BY DEF ViewInv, Asking, Iterate, ReadMoves, Go, Loading, Iterating, engine
<1>2. Len(openPositions) \in Nat /\ gone.last \in SUBSET TradeNos
  <2>1. openPositions \in Seq(TradeNos)
    BY DEF ViewInv, Chart
  <2> QED
    BY <2>1 DEF ViewInv, GoneOK
<1>3. /\ Nothing \in [open : Seq(TradeNos), closed : Seq(TradeNos)]
      /\ Nothing.open = <<>> /\ Len(<<>>) = 0
  BY DEF Nothing
<1>4. /\ position' \in [Requests -> Nat \X Nat] /\ position'[t][1] = 0
      /\ answer' \in [Requests -> [open : Seq(TradeNos), closed : Seq(TradeNos)]]
      /\ answer'[t].open = <<>> /\ floor'[t] = gone.last
      /\ floor' \in [Requests -> SUBSET TradeNos]
  BY <1>1, <1>2, <1>3 DEF ViewInv, Asking
<1>5. Taken(<<>>, 0, rows, floor'[t])
  BY <1>3 DEF Taken, Ascending
<1>6. \A s : Ahead(s, position'[t][1], answer'[t].open)
  BY <1>4 DEF Ahead
<1>7. /\ floor'[t] \subseteq gone.last
      /\ Taken(answer'[t].open, position'[t][1], rows, floor'[t])
  BY <1>4, <1>5
<1>8. seen' \in [Requests -> [TradeNos -> Status]]
  BY <1>1 DEF ViewInv, Asking
<1>9. "iterating" \notin {"viewSecond", "viewed"} /\ "iterating" # "viewed"
  OBVIOUS
<1> QED
  BY <1>1, <1>4, <1>6, <1>7, <1>8, <1>9, ReadKeeps

(* A request that ends leaves nothing behind.                               *)
LEMMA ForgetStep ==
    ASSUME ViewInv, NEW t \in Requests, IterationRaises(t) \/ Respond(t)
    PROVE  ViewInv'
<1>1. /\ ReadMoves(t, "idle")
      /\ position' = [position EXCEPT ![t] = <<0, 0>>]
      /\ answer' = [answer EXCEPT ![t] = Nothing]
      /\ seen' = [seen EXCEPT ![t] = [i \in TradeNos |-> "none"]]
      /\ floor' = [floor EXCEPT ![t] = {}]
  BY DEF ViewInv, Asking, IterationRaises, Respond, Forget, ReadMoves, Go, Loading, Iterating,
         engine
<1>2. /\ Nothing \in [open : Seq(TradeNos), closed : Seq(TradeNos)]
      /\ [i \in TradeNos |-> "none"] \in [TradeNos -> Status] /\ <<0, 0>> \in Nat \X Nat
  BY DEF Nothing, Status
<1>3. /\ position' \in [Requests -> Nat \X Nat]
      /\ answer' \in [Requests -> [open : Seq(TradeNos), closed : Seq(TradeNos)]]
      /\ seen' \in [Requests -> [TradeNos -> Status]]
      /\ floor' \in [Requests -> SUBSET TradeNos]
  BY <1>1, <1>2 DEF ViewInv, Asking
<1> QED
  BY <1>1, <1>3, ReadKeeps DEF Iterating

(* The next position is younger than all the iteration has, and of the open *)
(* trades no more are older than it than the iteration has gone by.         *)
LEMMA NextPositionStep ==
    ASSUME ViewInv, NEW t \in Requests, NextPosition(t)
    PROVE  ViewInv'
<1> DEFINE m == position[t][1]
           list == answer[t].open
           x == openPositions[m + 1]
           longer == Append(list, x)
<1>1. /\ ReadMoves(t, "iterating") /\ at[t] = "iterating" /\ UNCHANGED <<seen, floor>>
      /\ m + 1 <= Len(openPositions)
      /\ position' = [position EXCEPT ![t] = <<m + 1, @[2]>>]
      /\ answer' = [answer EXCEPT ![t].open = longer]
  <2>1. at[t] = "iterating" /\ at' = at
    BY DEF NextPosition
  <2>2. at' = [at EXCEPT ![t] = "iterating"]
    BY <2>1 DEF ViewInv, Asking
  <2> QED
    BY <2>1, <2>2 DEF ViewInv, Asking, NextPosition, ReadMoves, Loading, Iterating, engine, history
<1>2. /\ floor[t] \subseteq gone.last /\ Taken(list, m, rows, floor[t])
      /\ list \in Seq(TradeNos) /\ position[t] \in Nat \X Nat
      /\ openPositions \in Seq(TradeNos) /\ Chart(openPositions, rows, gone)
      /\ AheadOfAll(openPositions, at, position, answer)
  BY <1>1 DEF ViewInv, IterationOK, Iterating, Asking, Chart
<1>3. m \in Nat /\ m = Len(list) /\ Len(openPositions) \in Nat
  BY <1>2 DEF Taken
<1>4. m + 1 \in 1..Len(openPositions)
  BY <1>1, <1>3
<1>5. /\ x \in TradeNos /\ rows[x] # "none" /\ x \notin floor[t]
      /\ Cardinality(OpenUpTo(rows, x)) <= m + 1
  <2>1. x \in TradeNos
    BY <1>2, <1>4, ElementOfSeq
  <2>2. Cardinality(OpenUpTo(rows, x)) <= m + 1
    BY <1>2, <1>4, ReadBehind
  <2> QED
    BY <1>2, <1>4, <2>1, <2>2 DEF Chart
<1>6. 0 < m => list[m] < x
  <2>1. Ahead(openPositions, m, list)
    BY <1>1, <1>2 DEF AheadOfAll, Iterating
  <2> QED
    BY <1>1, <1>3, <2>1 DEF Ahead
<1> HIDE DEF m, list, x, longer
<1>7. /\ longer \in Seq(TradeNos) /\ Len(longer) = m + 1 /\ longer[m + 1] = x
      /\ \A n \in 1..m : longer[n] = list[n]
  BY <1>2, <1>3, <1>5, AppendProperties DEF longer
<1>8. Ascending(longer)
  <2> SUFFICES ASSUME NEW k \in 1..(m + 1), NEW n \in 1..(m + 1), k < n
               PROVE  longer[k] < longer[n]
    BY <1>7 DEF Ascending
  <2>1. \A i \in 1..m : list[i] \in Int
    <3>1. \A i \in 1..m : list[i] \in TradeNos
      BY <1>2, <1>3, ElementOfSeq
    <3>2. \A i \in TradeNos : i \in Int
      BY TradesAre
    <3> QED
      BY <3>1, <3>2, Zenon
  <2>2. k \in 1..m /\ (n \in 1..m \/ n = m + 1)
    BY <1>3
  <2>3. CASE n \in 1..m
    BY <1>2, <1>3, <1>7, <2>2, <2>3 DEF Taken, Ascending
  <2>4. CASE n = m + 1
    <3>1. 0 < m /\ m \in 1..m
      BY <1>3, <2>2
    <3>2. list[k] <= list[m]
      <4>1. k = m \/ k < m
        BY <1>3, <2>2
      <4> QED
        BY <1>2, <1>3, <2>1, <2>2, <3>1, <4>1 DEF Taken, Ascending
    <3>3. x \in Int
      BY <1>5, TradesAre
    <3> QED
      BY <1>6, <1>7, <2>1, <2>2, <2>4, <3>1, <3>2, <3>3
  <2> QED
    BY <2>2, <2>3, <2>4
<1>9. Taken(longer, m + 1, rows, floor[t])
  <2>1. \A n \in 1..(m + 1) : n \in 1..m \/ n = m + 1
    BY <1>3
  <2>2. \A n \in 1..(m + 1) : rows[longer[n]] # "none" /\ longer[n] \notin floor[t]
    BY <1>2, <1>5, <1>7, <2>1 DEF Taken
  <2> QED
    BY <1>5, <1>7, <1>8, <2>2 DEF Taken
<1>10. /\ position' \in [Requests -> Nat \X Nat] /\ position'[t][1] = m + 1
       /\ answer' \in [Requests -> [open : Seq(TradeNos), closed : Seq(TradeNos)]]
       /\ answer'[t].open = longer
  <2>1. position' \in [Requests -> Nat \X Nat] /\ position'[t][1] = m + 1
    <3>1. position \in [Requests -> Nat \X Nat] /\ position[t][2] \in Nat
      BY <1>2 DEF ViewInv, Asking
    <3>2. <<m + 1, position[t][2]>> \in Nat \X Nat
      BY <1>3, <3>1
    <3> QED
      BY <1>1, <3>1, <3>2
  <2>2. /\ answer' \in [Requests -> [open : Seq(TradeNos), closed : Seq(TradeNos)]]
        /\ answer'[t].open = longer
    BY <1>1, <1>7 DEF ViewInv, Asking
  <2> QED
    BY <2>1, <2>2
<1>11. ASSUME NEW s, Begins(s) PROVE Ahead(s, m + 1, longer)
  <2> SUFFICES ASSUME m + 1 < Len(s) PROVE x < s[m + 2]
    BY <1>3, <1>7 DEF Ahead
  <2>1. s \in Seq(TradeNos) /\ Ascending(s) /\ s[m + 1] = x
    BY <1>4, <1>11 DEF Begins, Chart, x
  <2>2. Len(s) \in Nat
    BY <2>1
  <2>3. m + 1 \in 1..Len(s) /\ m + 2 \in 1..Len(s) /\ m + 1 < m + 2
    BY <1>3, <2>2
  <2> QED
    BY <2>1, <2>3 DEF Ascending
<1> QED
  BY <1>1, <1>2, <1>9, <1>10, <1>11, ReadKeeps DEF ViewInv, Asking, Iterating

(* The list that is answered is what the iteration has.                     *)
LEMMA EndIterationStep ==
    ASSUME ViewInv, NEW t \in Requests, EndIteration(t)
    PROVE  ViewInv'
<1>1. /\ ReadMoves(t, "listed") /\ at[t] = "iterating"
      /\ UNCHANGED <<seen, floor, position, answer>>
  BY DEF ViewInv, Asking, EndIteration, ReadMoves, Go, Loading, Iterating, engine, history
<1>2. IterationOK(t)
  BY <1>1 DEF ViewInv, Iterating
<1>3. \A s : Begins(s) => Ahead(s, position[t][1], answer[t].open)
  BY <1>1 DEF Begins, AheadOfAll, Iterating
<1> QED
  BY <1>1, <1>2, <1>3, ReadKeeps DEF ViewInv, Asking, IterationOK

(* Before the first trade and the first request everything is empty.        *)
LEMMA ViewBegins == ViewInit => ViewInv
<1> SUFFICES ASSUME ViewInit PROVE ViewInv
  OBVIOUS
<1>1. <<>> \in Seq(TradeNos) /\ Len(<<>>) = 0
  OBVIOUS
<1>2. Numbered(rows)
  BY DEF ViewInit, Numbered, Status
<1>3. Asking
  BY <1>1 DEF ViewInit, Asking, Nothing, Status
<1>4. GoneOK(rows, gone)
  BY DEF ViewInit, GoneOK
<1>5. \A t \in Requests : at[t] = "idle"
  BY DEF ViewInit
<1>6. Chart(openPositions, rows, gone) /\ AheadOfAll(openPositions, at, position, answer)
  BY <1>5, EmptyChart DEF ViewInit, AheadOfAll, Iterating
<1>7. ClosedOK(closedPositions, rows)
  BY <1>1 DEF ViewInit, ClosedOK
<1> QED
  BY <1>2, <1>3, <1>4, <1>5, <1>6, <1>7 DEF ViewInv, Loading, Iterating, ReadOK

(* Every step of the worker and of every request keeps the invariant.       *)
LEMMA ViewMoves == ViewInv /\ [ViewNext]_viewVars => ViewInv'
<1> SUFFICES ASSUME ViewInv, [ViewNext]_viewVars PROVE ViewInv'
  OBVIOUS
<1>1. CASE UNCHANGED viewVars
  <2>1. \A t \in Requests : LoadOK(t)' <=> LoadOK(t)
    BY <1>1 DEF viewVars, LoadOK
  <2>2. \A t \in Requests : IterationOK(t)' <=> IterationOK(t)
    BY <1>1 DEF viewVars, IterationOK
  <2>3. \A t \in Requests : ReadOK(t)' <=> ReadOK(t)
    BY <1>1 DEF viewVars, ReadOK
  <2>4. Asking' <=> Asking
    BY <1>1 DEF viewVars, Asking
  <2> QED
    BY <1>1, <2>1, <2>2, <2>3, <2>4 DEF ViewInv, viewVars
<1>2. ASSUME NEW t \in Requests, Request(t) PROVE ViewInv'
  BY <1>2, StartLoadStep, SelectOpenStep, FillOpenStep, SelectClosedStep, FillClosedStep,
     EndLoadStep, ViewFirstStep, ViewSecondStep, IterateStep, ForgetStep, NextPositionStep,
     EndIterationStep DEF Request
<1>3. CASE RowsChange
  BY <1>3, RowsStep
<1> QED
  BY <1>1, <1>2, <1>3 DEF ViewNext

(* Whatever the worker opens and closes meanwhile, and whichever requests   *)
(* reload the engine at once: what the API shows of the trades was in the   *)
(* table, but for a trade that was being closed (routes.py:241,             *)
(* paper_engine.py:115, app.py:197).                                        *)
THEOREM ViewsHold == ViewSpec => []ViewsAreSound
<1>1. ViewInv => ViewsAreSound
  <2> SUFFICES ASSUME ViewInv PROVE ViewsAreSound
    OBVIOUS
  <2>1. NothingMissing
    <3> SUFFICES ASSUME NEW t \in Requests, at[t] = "viewed", NEW i \in TradeNos,
                        seen[t][i] \in {"open", "closed"}
                 PROVE  \/ Contains(answer[t].open, i) \/ Contains(answer[t].closed, i)
                        \/ rows[i] = "deleted"
      BY DEF NothingMissing
    <3>1. FirstRead(answer[t].open, seen[t], rows) /\ SecondRead(answer[t].closed, seen[t], rows)
      BY DEF ViewInv, ReadOK
    <3> QED
      BY <3>1 DEF FirstRead, SecondRead
  <2>2. TwiceOnlyIfClosing
    <3> SUFFICES ASSUME NEW t \in Requests, at[t] = "viewed", NEW i \in TradeNos,
                        Contains(answer[t].open, i), Contains(answer[t].closed, i)
                 PROVE  seen[t][i] = "open" /\ rows[i] \in {"closed", "deleted"}
      BY DEF TwiceOnlyIfClosing
    <3>1. FirstRead(answer[t].open, seen[t], rows) /\ SecondRead(answer[t].closed, seen[t], rows)
      BY DEF ViewInv, ReadOK
    <3> QED
      BY <3>1 DEF FirstRead, SecondRead, Over
  <2>3. ASSUME NEW s \in Seq(TradeNos), Ascending(s) PROVE IsInjective(s)
    <3> SUFFICES ASSUME NEW m \in 1..Len(s), NEW n \in 1..Len(s), s[m] = s[n] PROVE m = n
      BY LenProperties DEF IsInjective
    <3>1. s[m] \in TradeNos
      BY ElementOfSeq
    <3>2. s[m] \in Int /\ m \in Int /\ n \in Int
      BY <3>1, TradesAre
    <3>3. ~(m < n)
      BY <2>3, <3>2 DEF Ascending
    <3>4. ~(n < m)
      BY <2>3, <3>2 DEF Ascending
    <3> QED
      BY <3>2, <3>3, <3>4
  <2>4. SharedHoldsOnce
    <3>1. IsInjective(openPositions)
      BY <2>3 DEF ViewInv, Chart
    <3>2. IsInjective(closedPositions)
      BY LenProperties DEF ViewInv, ClosedOK, IsInjective
    <3>3. ASSUME NEW i \in TradeNos
          PROVE  /\ Contains(openPositions, i) => rows[i] # "none"
                 /\ Contains(closedPositions, i) => rows[i] \in {"closed", "deleted"}
      BY DEF ViewInv, Chart, ClosedOK, Contains, Over
    <3> QED
      BY <3>1, <3>2, <3>3 DEF SharedHoldsOnce
  <2>5. ListedWasOpen
    <3> SUFFICES ASSUME NEW t \in Requests, at[t] = "listed"
                 PROVE  /\ IsInjective(answer[t].open)
                        /\ \A i \in floor[t] : ~Contains(answer[t].open, i)
      BY DEF ListedWasOpen
    <3>1. /\ answer[t].open \in Seq(TradeNos)
          /\ Taken(answer[t].open, position[t][1], rows, floor[t])
      BY DEF ViewInv, Iterating, IterationOK, Asking
    <3>2. IsInjective(answer[t].open)
      BY <2>3, <3>1 DEF Taken
    <3> QED
      BY <3>1, <3>2 DEF Taken, Contains
  <2> QED
    BY <2>1, <2>2, <2>4, <2>5 DEF ViewsAreSound
<1> QED
  BY <1>1, ViewBegins, ViewMoves, PTL DEF ViewSpec

-----------------------------------------------------------------------------
(* The types of the services, and of all of them side by side. *)

\* The commands a drain that breaks off leaves behind.
LEMMA RestIs ==
    ASSUME NEW S, NEW s \in Seq(S), NEW n \in Nat, n < Len(s)
    PROVE  LET r == SubSeq(s, n + 1, Len(s)) IN
           /\ r \in Seq(S) /\ Len(r) = Len(s) - n
           /\ \A i \in 1..(Len(s) - n) : r[i] = s[n + i]
<1>1. \A i \in (n + 1)..Len(s) : s[i] \in S
  BY ElementOfSeq
<1> QED
  BY <1>1, SubSeqProperties

LEMMA ReadyTyped == ReadyInit /\ [][ReadyNext]_readyVars => []ReadyTypeOK
<1> DEFINE RowOK == state = NoState \/
              (state.fsm \in {"RUNNING", "DEGRADED", "HALTED"} /\ state.stamp \in Int)
<1>1. ReadyInit => ReadyTypeOK
  <2>1. ReadyInit => RowOK
    BY DEF ReadyInit
  <2>2. ReadyInit => alive \in BOOLEAN
    BY Zenon DEF ReadyInit
  <2>3. ReadyInit => /\ machine \in {"RUNNING", "DEGRADED", "HALTED"} /\ cycle \in {"drain", "publish"}
                     /\ queue \in Seq({"halt", "resume"}) /\ unwritten \subseteq {"halt", "resume"}
                     /\ newest \in {"halt", "resume", NoState}
                     /\ obeyed \in {"halt", "resume", NoState}
                     /\ time \in Nat /\ back \in Nat /\ lastOpen \in Int /\ lastResume \in Int
    BY EmptySeq DEF ReadyInit
  <2>4. ReadyInit => forgot \in BOOLEAN
    BY Zenon DEF ReadyInit
  <2> QED
    BY <2>1, <2>2, <2>3, <2>4, Zenon DEF ReadyTypeOK, RowOK
<1>2. ASSUME ReadyTypeOK, [ReadyNext]_readyVars PROVE ReadyTypeOK'
  <2> USE <1>2 DEF ReadyTypeOK
  <2>1. CASE TimePasses \/ ClockSetBack
    <3>1. /\ UNCHANGED <<alive, machine, cycle, queue, obeyed, forgot, unwritten, newest, state,
                          lastResume>>
          /\ time' \in Nat /\ back' \in Nat /\ lastOpen' \in {lastOpen, time + 1}
      BY <2>1 DEF TimePasses, ClockSetBack, Noted, worker, api
    <3> QED
      BY <3>1
  <2>9. CASE WorkerPublishes
    BY <2>9 DEF WorkerPublishes, Published, Clock, api
  <2>7. CASE CycleRaises \/ WorkerDies
    BY <2>7 DEF CycleRaises, WorkerDies, Failing, api
  <2>2. ASSUME NEW kind \in {"halt", "resume"}, Order(kind) PROVE ReadyTypeOK'
    BY <2>2, AppendProperties DEF Order
  <2>3. ASSUME NEW kind \in {"halt", "resume"}, NEW fails \in BOOLEAN, OrderWrites(kind, fails)
        PROVE  ReadyTypeOK'
    BY <2>3 DEF OrderWrites, Published, Clock, worker
  <2>4. ASSUME NEW feedsOk \in BOOLEAN, NEW ok \in BOOLEAN, WorkerStarts(feedsOk, ok)
        PROVE  ReadyTypeOK'
    <3>1. /\ alive' = TRUE /\ forgot' = ~ok /\ cycle' = "drain"
          /\ machine' \in {"RUNNING", "DEGRADED", "HALTED"}
          /\ state' = [fsm |-> machine', stamp |-> time - back]
          /\ lastOpen' \in {lastOpen, time}
          /\ UNCHANGED <<time, back, queue, obeyed, unwritten, newest, lastResume>>
      BY <2>4 DEF WorkerStarts, Published, Noted, Clock, api
    <3> QED
      BY <3>1
  <2>8. \A n \in 0..Len(queue) : ObeyedAfter(n) \in {"halt", "resume", NoState}
    BY DEF ObeyedAfter
  <2>5. ASSUME NEW feedsOk \in BOOLEAN, WorkerDrains(feedsOk) PROVE ReadyTypeOK'
    <3>1. Len(queue) \in 0..Len(queue)
      OBVIOUS
    <3> QED
      BY <2>5, <2>8, <3>1, EmptySeq DEF WorkerDrains, Noted, api
  <2>10. ASSUME NEW n \in 0..MaxOrders, NEW dies \in BOOLEAN, DrainBreaksOff(n, dies)
         PROVE  ReadyTypeOK'
    <3>1. n \in Nat /\ n < Len(queue) /\ queue \in Seq({"halt", "resume"})
      BY <2>10, ReadinessAssumption DEF DrainBreaksOff
    <3>2. SubSeq(queue, n + 1, Len(queue)) \in Seq({"halt", "resume"})
      BY <3>1, RestIs
    <3>3. ObeyedAfter(n) \in {"halt", "resume", NoState}
      BY <2>8, <3>1
    <3> QED
      BY <2>10, <3>2, <3>3 DEF DrainBreaksOff, api
  <2>6. CASE UNCHANGED readyVars
    BY <2>6 DEF readyVars
  <2> QED
    BY <2>1, <2>2, <2>3, <2>4, <2>5, <2>6, <2>7, <2>9, <2>10 DEF ReadyNext, WorkerLoop, OrderEnds
<1> QED
  BY <1>1, <1>2, PTL

LEMMA AuthTyped == AuthInit /\ [][AuthNext]_authVars => []AuthTypeOK
<1>1. AuthInit => AuthTypeOK
  BY SessionAssumption DEF AuthInit, AuthTypeOK, NoAttempts, Instants
<1>2. ASSUME AuthTypeOK, AuthInv, [AuthNext]_authVars PROVE AuthTypeOK'
  <2> USE <1>2 DEF AuthTypeOK, Turn
  <2>0. /\ NoAttempts \in [Instants -> Nat]
        /\ \A bag \in [Instants -> Nat] :
              Recent(bag) \in [Instants -> Nat] /\ WithNow(bag) \in [Instants -> Nat]
    BY DEF NoAttempts, Recent, Within, WithNow
  <2>1. CASE ClockTicks
    BY <2>1, SessionAssumption DEF ClockTicks, Instants, requests, histories, counts
  <2>2. ASSUME NEW c \in Clients, NEW account \in Accounts \cup {NoSession}, CheckReads(c, account)
        PROVE  AuthTypeOK'
    BY <2>0, <2>2 DEF CheckReads
  <2>3. ASSUME NEW c \in Clients, CheckWrites(c) PROVE AuthTypeOK'
    BY <2>0, <2>3 DEF CheckWrites, requests, histories, counts
  <2>9. ASSUME NEW c \in Clients, RecordReads(c) PROVE AuthTypeOK'
    BY <2>0, <2>9 DEF RecordReads
  <2>10. ASSUME NEW c \in Clients, RecordWrites(c) PROVE AuthTypeOK'
    BY <2>0, <2>10 DEF RecordWrites, requests, histories, counts
  <2>4. ASSUME NEW c \in Clients, NEW s \in SessionIds, LogsIn(c, s)
        PROVE  AuthTypeOK'
    <3>1. token[c] \in Accounts /\ Expiry \in Nat
      BY <2>4, SessionAssumption DEF LogsIn, AuthInv, Expiry, Instants
    <3>2. \A u \in SessionIds : sessions'[u] # NoSession =>
            sessions'[u].account \in Accounts /\ sessions'[u].expires \in Nat
      BY <2>4, <3>1 DEF LogsIn, SessionOf, AuthInv
    <3> QED
      BY <2>0, <2>4, <3>2 DEF LogsIn
  <2>5. ASSUME NEW c \in Clients, NEW s \in SessionIds, LooksUp(c, s)
        PROVE  AuthTypeOK'
    BY <2>5 DEF LooksUp, AuthInv, histories, counts
  <2>11. ASSUME NEW c \in Clients, NEW s \in SessionIds, LogsOut(c, s)
        PROVE  AuthTypeOK'
    BY <2>11 DEF LogsOut, AuthInv, requests, counts
  <2>6. ASSUME NEW c \in Clients, Reads(c) PROVE AuthTypeOK'
    <3>1. cookie[c] \in SessionIds
      BY <2>6 DEF Reads, AuthInv
    <3> QED
      BY <2>6, <3>1 DEF Reads, AuthInv, histories, counts
  <2>7. ASSUME NEW c \in Clients, Answered(c) PROVE AuthTypeOK'
    BY <2>0, <2>7 DEF Answered, histories, counts
  <2>8. CASE UNCHANGED authVars
    BY <2>8 DEF authVars, requests, histories, counts
  <2> QED
    BY <2>1, <2>2, <2>3, <2>4, <2>5, <2>6, <2>7, <2>8, <2>9, <2>10, <2>11
       DEF AuthNext
<1>3. AuthInit => AuthInv
  BY DEF AuthInit, AuthInv, Places
<1> QED
  BY <1>1, <1>2, <1>3, AuthStep, PTL

LEMMA ImportTyped == ImportInit /\ [][ImportNext]_importVars => []ImportTypeOK
<1>1. ImportInit => ImportTypeOK
  BY ImportAssumption, (CHOOSE f \in Files : TRUE) \in Files DEF ImportInit, ImportTypeOK
<1>2. ASSUME ImportTypeOK, [ImportNext]_importVars PROVE ImportTypeOK'
  <2> USE <1>2 DEF ImportTypeOK
  <2>1. ASSUME NEW p \in Importers, NEW f \in Files, Check(p, f) PROVE ImportTypeOK'
    BY <2>1, ImportAssumption DEF Check, database
  <2>2. ASSUME NEW p \in Importers, FirstWrite(p) \/ ImportFails(p) PROVE ImportTypeOK'
    BY <2>2 DEF FirstWrite, ImportFails, database
  <2>3. ASSUME NEW p \in Importers, Finish(p) PROVE ImportTypeOK'
    <3>1. source[p] \in Files /\ source[p] \in File
      BY ImportAssumption
    <3>2. Upsert(source[p]) \in [fsm : {"none", "RUNNING", "HALTED"}, equity : Nat]
      BY <3>1 DEF Upsert, File
    <3>3. trades' \in [TradeIds -> {NoTrade, "open", "closed"}]
      BY <2>3 DEF Finish, Merged
    <3>4. shadowLog' \in [Rows -> Nat]
      BY <2>3 DEF Finish
    <3> QED
      BY <2>3, <3>1, <3>2, <3>3, <3>4 DEF Finish
  <2>4. ASSUME NEW i \in TradeIds, TradeStep(i) PROVE ImportTypeOK'
    BY <2>4 DEF TradeStep, SystemCommits
  <2>5. ASSUME NEW fsm \in {"RUNNING", "HALTED"}, NEW equity \in {f.equity : f \in Files},
               PublishState(fsm, equity)
        PROVE  ImportTypeOK'
    <3>1. equity \in Nat
      BY ImportAssumption DEF File
    <3> QED
      BY <2>5, <3>1 DEF PublishState, SystemCommits
  <2>6. CASE UNCHANGED importVars
    BY <2>6 DEF importVars
  <2> QED
    BY <2>1, <2>2, <2>3, <2>4, <2>5, <2>6 DEF ImportNext
<1> QED
  BY <1>1, <1>2, PTL

LEMMA NotifyTyped == NotifyInit /\ [][NotifyNext]_notifyVars => []NotifyTypeOK
<1> DEFINE AskedOK == ~Idle => request.now \in (-MaxSetBack)..(MaxWall + MaxSetBack)
           Stamps == NeverSent..(MaxWall + MaxSetBack)
           Inv == NotifyTypeOK /\ AskedOK
<1>0. /\ NeverSent \in Int /\ NeverSent <= -MaxSetBack /\ MaxWall \in Nat /\ MaxSetBack \in Nat
      /\ (-MaxSetBack)..(MaxWall + MaxSetBack) \subseteq Stamps /\ NeverSent \in Stamps
  BY NotifierAssumption DEF NeverSent
<1>1. NotifyInit => Inv
  BY <1>0 DEF NotifyInit, NotifyTypeOK, Idle, NoOutcome
<1>2. ASSUME Inv, [NotifyNext]_notifyVars PROVE Inv'
  <2> USE <1>0, <1>2 DEF NotifyTypeOK, Idle, NoOutcome
  <2>1. CASE WallTicks \/ WallSetBack \/ WallSetAhead
    BY <2>1 DEF WallTicks, WallSetBack, WallSetAhead
  <2>2. ASSUME NEW a \in Alerts, NEW b \in Alerts, BarCommitted(<<a>>) \/ BarCommitted(<<a, b>>)
        PROVE  Inv'
    <3>1. <<a>> \in Seq(Alerts) /\ <<a, b>> \in Seq(Alerts)
      OBVIOUS
    <3>2. outbox' \in Seq(Alerts) /\ UNCHANGED <<wall, setBack, setAhead, sentAt, request, outcome, life>>
      BY <2>2, <3>1 DEF BarCommitted
    <3> QED
      BY <3>2
  <2>3. CASE Suppress
    BY <2>3 DEF Suppress
  <2>4. CASE Post
    <3>1. Head(outbox) \in Alerts /\ Tail(outbox) \in Seq(Alerts)
      BY <2>4 DEF Post
    <3> QED
      BY <2>4, <3>1 DEF Post, WallClock
  <2>5. CASE Accepted \/ AnswerLost \/ NotDelivered
    <3>1. request.alert \in Alerts /\ request.now \in Stamps
      BY <2>5 DEF Accepted, AnswerLost, NotDelivered
    <3>2. sentAt' \in [Alerts -> Stamps]
      BY <2>5, <3>1 DEF Accepted, AnswerLost, NotDelivered
    <3>3. \E r \in {"sent", "failed"} : Ended(r)
      BY <2>5 DEF Accepted, AnswerLost, NotDelivered
    <3>4. outcome'.result \in {"sent", "failed"} /\ request' = NoAlert
      BY <3>3 DEF Ended
    <3>5. UNCHANGED <<wall, setBack, setAhead, outbox, life>>
      BY <2>5 DEF Accepted, AnswerLost, NotDelivered
    <3> QED
      BY <3>2, <3>4, <3>5
  <2>6. CASE DispatcherRestarts
    BY <2>6 DEF DispatcherRestarts
  <2>7. CASE UNCHANGED notifyVars
    BY <2>7 DEF notifyVars
  <2> QED
    BY <2>1, <2>2, <2>3, <2>4, <2>5, <2>6, <2>7 DEF NotifyNext
<1> QED
  BY <1>1, <1>2, PTL

LEMMA SupportedAtMost ==
    ASSUME IsFiniteSet(Processes), NEW p \in Processes
    PROVE  MaxVersion \in Nat \ {0} /\ Supported[p] \in Nat \ {0} /\ Supported[p] <= MaxVersion
<1> DEFINE S == {Supported[q] : q \in Processes}
<1>0. Supported \in [Processes -> Nat \ {0}]
  BY MigrationAssumption
<1>1. S \in SUBSET (Nat \ {0}) /\ Supported[p] \in S
  BY <1>0
<1>2. PICK q \in Processes : \A r \in Processes : Supported[r] <= Supported[q]
  BY <1>0, GreatestValue
<1>3. \E m \in S : \A n \in S : m >= n
  BY <1>0, <1>2
<1> HIDE DEF S
<1>4. Max(S) \in S /\ \A n \in S : Max(S) >= n
  BY <1>3 DEF Max
<1>5. MaxVersion = Max(S)
  BY DEF MaxVersion, S
<1> QED
  BY <1>1, <1>4, <1>5

LEMMA MigTyped ==
    ASSUME IsFiniteSet(Processes)
    PROVE  MigInit /\ [][MigNext]_migVars => []MigTypeOK
<1>1. ASSUME MigInit PROVE MigTypeOK
  <2>1. \A p \in Processes : 0 \in 0..MaxVersion /\ 0 \in 0..(MaxVersion + 1)
    <3> SUFFICES ASSUME NEW p \in Processes
                 PROVE  0 \in 0..MaxVersion /\ 0 \in 0..(MaxVersion + 1)
      OBVIOUS
    <3>1. MaxVersion \in Nat \ {0}
      BY SupportedAtMost
    <3> QED
      BY <3>1
  <2>2. script \in [Processes -> 0..(MaxVersion + 1)] /\ began \in [Processes -> 0..MaxVersion]
    BY <1>1, <2>1 DEF MigInit
  <2>3. recorded \subseteq Versions /\ objects \subseteq UNION {ObjectsOf(v) : v \in Versions}
    BY <1>1 DEF MigInit
  <2>4. /\ stage \in [Processes -> {"read", "apply", "ready", "down", "refused"}]
        /\ ran \in [Processes -> Nat]
        /\ applied \in [Versions -> Nat]
        /\ writer \in Processes \cup {NoProcess}
    BY <1>1 DEF MigInit
  <2>5. migFaults \in 0..MaxMigFaults
    BY <1>1, MigrationAssumption DEF MigInit
  <2> QED
    BY <2>2, <2>3, <2>4, <2>5 DEF MigTypeOK
<1>2. ASSUME MigTypeOK, MigInv, MigInv', [MigNext]_migVars PROVE MigTypeOK'
  <2> USE DEF MigTypeOK
  <2>1. PICK n \in Nat : AtVersion(n) /\ Placement(n)
    BY <1>2 DEF MigInv
  <2>2. CASE UNCHANGED migVars
    BY <1>2, <2>2 DEF migVars
  <2>3. ASSUME NEW p \in Processes,
               \/ Connect(p) \/ ConnectAgain(p) \/ Migrate(p)
               \/ ReadFails(p) \/ MigrationFails(p)
        PROVE  MigTypeOK'
    <3>1. MaxVersion \in Nat \ {0} /\ Supported[p] \in Nat \ {0} /\ Supported[p] <= MaxVersion
      BY SupportedAtMost
    <3>2. recorded = 1..n /\ n <= MaxVersion /\ CurrentVersion = n
      <4>1. recorded = 1..n /\ recorded \subseteq 1..MaxVersion
        BY <1>2, <2>1 DEF AtVersion, Versions
      <4>2. n <= MaxVersion
        BY <4>1, <3>1
      <4> QED
        BY <4>1, <4>2, VersionIs
    <3>3. ASSUME NEW v \in 0..(MaxVersion + 1), GoTo(p, v)
          PROVE  /\ stage' \in [Processes -> {"read", "apply", "ready", "down", "refused"}]
                 /\ script' \in [Processes -> 0..(MaxVersion + 1)]
                 /\ ran' \in [Processes -> Nat]
      BY <1>2, <3>3 DEF GoTo
    <3>4. CASE Connect(p) \/ ConnectAgain(p)
      <4>1. Connecting(p)
        BY <3>4 DEF Connect, ConnectAgain
      <4>2. n \in 0..MaxVersion
        BY <3>1, <3>2
      <4> QED
        BY <1>2, <3>2, <4>1, <4>2 DEF Connecting
    <3>5. CASE ReadVersion(p)
      <4>1. NextScript(n) \in 0..(MaxVersion + 1)
        BY <3>1, <3>2 DEF NextScript
      <4> QED
        BY <1>2, <3>2, <3>3, <3>5, <4>1 DEF ReadVersion
    <3>6. CASE ReadFails(p)
      <4>1. NextScript(0) \in 0..(MaxVersion + 1)
        BY <3>1 DEF NextScript
      <4>2. migFaults' \in 0..MaxMigFaults
        BY <1>2, <3>6, MigrationAssumption DEF ReadFails, MigFault
      <4> QED
        BY <1>2, <3>3, <3>6, <4>1, <4>2 DEF ReadFails
    <3>7. CASE RunStatement(p)
      BY <1>2, <3>7 DEF RunStatement
    <3>8. CASE StatementFails(p)
      BY <1>2, <3>8 DEF StatementFails, RolledBack
    <3>9. CASE MigrationFails(p)
      <4>1. migFaults' \in 0..MaxMigFaults
        BY <1>2, <3>9, MigrationAssumption DEF MigrationFails, MigFault
      <4> QED
        BY <1>2, <3>9, <4>1 DEF MigrationFails, RolledBack
    <3>10. CASE CommitScript(p)
      <4>1. script[p] \in Versions /\ script[p] + 1 \in 0..(MaxVersion + 1)
        BY <2>1, <3>1, <3>10 DEF CommitScript, Executing, Placement, Versions
      <4>2. ObjectsOf(script[p]) \subseteq UNION {ObjectsOf(v) : v \in Versions}
        BY <4>1
      <4>3. applied' \in [Versions -> Nat]
        BY <1>2, <3>10, <4>1 DEF CommitScript
      <4> QED
        BY <1>2, <3>3, <3>10, <4>1, <4>2, <4>3 DEF CommitScript
    <3> QED
      BY <2>3, <3>4, <3>5, <3>6, <3>7, <3>8, <3>9, <3>10 DEF Migrate
  <2> QED
    BY <1>2, <2>2, <2>3 DEF MigNext
<1> QED
  BY <1>1, <1>2, MigBegins, MigStep, PTL

NatEntry == [key : Keys, exp : Nat, val : Nat]

(* Of what it keeps in store the cache knows the instants as natural numbers. *)
LEMMA CacheTyped == CacheInit /\ [][CacheNext]_cacheVars => []CacheTypeOK
<1>1. CacheInit => CacheTypeOK
  BY CacheAssumption DEF CacheInit, CacheTypeOK, NoCall
<1>2. ASSUME CacheTypeOK, CacheInv, [CacheNext]_cacheVars PROVE CacheTypeOK'
  <2>1. /\ entries \in Seq(NatEntry) /\ instant \in Nat /\ MaxEntries \in Nat \ {0}
        /\ instant \in 0..MaxInstant /\ DOMAIN entries = 1..Len(entries)
    BY <1>2, CacheAssumption DEF CacheTypeOK, NatEntry
  <2>2. ASSUME NEW S \in SUBSET (1..Len(entries)) PROVE Kept(entries, S) \in Seq(NatEntry)
    BY <2>1, KeptIs
  <2>3. \A k \in Keys : Without(k) \in Seq(NatEntry)
    BY <2>1, <2>2 DEF Without
  <2>4. Evicted(entries) \in Seq(NatEntry)
    <3> DEFINE f == FreshOf(entries)
               n == Len(f)
    <3>1. f \in Seq(NatEntry)
      BY <2>1, <2>2 DEF FreshOf
    <3>2. n < MaxEntries => Evicted(entries) = f
      BY DEF Evicted
    <3>3. ~(n < MaxEntries) => Evicted(entries) = SubSeq(f, n - MaxEntries + 2, n)
      BY DEF Evicted
    <3> HIDE DEF f
    <3>4. n \in Nat /\ (~(n < MaxEntries) => n - MaxEntries + 2 \in Nat \ {0})
      BY <2>1, <3>1
    <3>5. ASSUME ~(n < MaxEntries) PROVE SubSeq(f, n - MaxEntries + 2, n) \in Seq(NatEntry)
      <4> DEFINE from == n - MaxEntries + 2
      <4>1. from \in Nat \ {0}
        BY <3>4, <3>5
      <4> HIDE DEF from
      <4>2. \A m \in from..n : m \in 1..n
        BY <3>4, <4>1
      <4>3. \A m \in from..n : f[m] \in NatEntry
        BY <3>1, <4>2, ElementOfSeq
      <4>4. SubSeq(f, from, n) \in Seq(NatEntry)
        BY <3>1, <3>4, <4>1, <4>3, SubSeqProperties
      <4> QED
        BY <4>4 DEF from
    <3> QED
      BY <3>1, <3>2, <3>3, <3>5
  <2>5. ASSUME NEW k \in Keys, NEW v \in Nat PROVE Stored(k, v) \in Seq(NatEntry)
    <3> DEFINE e == [key |-> k, exp |-> instant + TTL[k], val |-> v]
               base == IF Held(k) # {} THEN Without(k)
                       ELSE IF Len(entries) >= MaxEntries THEN Evicted(entries)
                       ELSE entries
    <3>1. e \in NatEntry
      BY <2>1, CacheAssumption DEF NatEntry
    <3>2. base \in Seq(NatEntry)
      BY <2>1, <2>3, <2>4
    <3>3. Stored(k, v) = Append(base, e)
      BY DEF Stored, Life
    <3> HIDE DEF e, base
    <3> QED
      BY <3>1, <3>2, <3>3, AppendProperties
  <2>6. \A c \in Callers : calls'[c] = calls[c] =>
            \/ instant' # instant
            \/ /\ calls'[c].step \in {"idle", "fetch", "answered"}
               /\ calls'[c].step # "idle" => calls'[c].key \in Keys
               /\ calls'[c].step = "answered" => calls'[c].val \in 0..instant'
    BY <1>2 DEF CacheTypeOK
  <2>7. DOMAIN calls = Callers
    BY <1>2 DEF CacheInv
  <2>8. CASE TimeGoes
    BY <1>2, <2>1, <2>8, CacheAssumption DEF TimeGoes, CacheTypeOK
  <2>9. ASSUME NEW c \in Callers, NEW k \in Keys, Get(c, k) PROVE CacheTypeOK'
    <3> DEFINE hit == entries[CHOOSE i \in Held(k) : TRUE]
    <3>1. CASE \E i \in Held(k) : Fresh(entries[i])
      <4>1. (CHOOSE i \in Held(k) : TRUE) \in 1..Len(entries)
        BY <2>1, <3>1 DEF Held
      <4>2. hit \in NatEntry /\ hit.val <= instant
        BY <1>2, <2>1, <4>1, ElementOfSeq DEF CacheInv, CacheOK
      <4>3. entries' = Append(Without(k), hit) /\ instant' = instant
            /\ calls' = [calls EXCEPT ![c] =
                  [step |-> "answered", key |-> k, asked |-> instant, val |-> hit.val]]
        BY <2>9, <3>1 DEF Get
      <4> HIDE DEF hit
      <4>4. entries' \in Seq(NatEntry)
        BY <2>3, <4>2, <4>3, AppendProperties
      <4>5. hit.val \in 0..instant
        BY <2>1, <4>2 DEF NatEntry
      <4> QED
        BY <2>1, <2>6, <2>7, <4>3, <4>4, <4>5 DEF CacheTypeOK, NatEntry
    <3>2. CASE ~\E i \in Held(k) : Fresh(entries[i])
      <4>1. entries' = Without(k) /\ instant' = instant
            /\ calls' = [calls EXCEPT ![c] =
                  [step |-> "fetch", key |-> k, asked |-> instant, val |-> Unanswered]]
        BY <2>9, <3>2 DEF Get
      <4> QED
        BY <2>1, <2>3, <2>6, <2>7, <4>1 DEF CacheTypeOK, NatEntry
    <3> QED
      BY <3>1, <3>2
  <2>10. ASSUME NEW c \in Callers, NEW v \in 0..MaxInstant, NEW ok \in BOOLEAN,
                FetchReturns(c, v, ok)
         PROVE  CacheTypeOK'
    <3>1. calls[c].key \in Keys /\ calls[c].asked \in Int /\ v \in 0..instant /\ v \in Nat
      <4>1. calls[c].key \in Keys /\ calls[c].asked \in Int
        BY <1>2, <2>10 DEF CacheInv, CallOK, FetchReturns
      <4>2. v \in calls[c].asked..instant
        BY <2>10 DEF FetchReturns, Computed
      <4> QED
        BY <2>1, <4>1, <4>2, CacheAssumption
    <3>2. entries' \in Seq(NatEntry) /\ instant' = instant
      BY <2>1, <2>5, <2>10, <3>1 DEF FetchReturns
    <3>3. calls[c] \in CallType
      BY <1>2 DEF CacheInv, CallOK
    <3>4. /\ \A d \in Callers \ {c} : calls'[d] = calls[d]
          /\ calls'[c].step = "answered" /\ calls'[c].key = calls[c].key /\ calls'[c].val = v
      BY <2>7, <2>10, <3>3 DEF FetchReturns, CallType
    <3> QED
      BY <2>1, <2>6, <3>1, <3>2, <3>4 DEF CacheTypeOK, NatEntry
  <2>11. ASSUME NEW c \in Callers, FetchRaises(c) \/ Return(c) PROVE CacheTypeOK'
    <3>1. calls' = [calls EXCEPT ![c] = NoCall] /\ UNCHANGED <<instant, entries>>
      BY <2>11 DEF FetchRaises, Return
    <3> QED
      BY <2>1, <2>6, <2>7, <3>1 DEF CacheTypeOK, NoCall, NatEntry
  <2>12. CASE UNCHANGED cacheVars
    BY <1>2, <2>12 DEF cacheVars, CacheTypeOK
  <2> QED
    BY <1>2, <2>8, <2>9, <2>10, <2>11, <2>12 DEF CacheNext
<1> QED
  BY <1>1, <1>2, CacheBegins, CacheMoves, PTL

LEMMA ViewTyped == ViewInit /\ [][ViewNext]_viewVars => []ViewTypeOK
<1> DEFINE LockOK == engineLock \in Requests \cup {NoRequest}
<1>1. ViewInit => LockOK
  BY DEF ViewInit
<1>2. LockOK /\ [ViewNext]_viewVars => LockOK'
  <2> SUFFICES ASSUME LockOK, [ViewNext]_viewVars PROVE LockOK'
    OBVIOUS
  <2>1. ASSUME NEW t \in Requests,
               \/ StartLoad(t) \/ SelectOpen(t) \/ FillOpen(t)
               \/ SelectClosed(t) \/ FillClosed(t) \/ EndLoad(t)
        PROVE  LockOK'
    BY <2>1 DEF StartLoad, SelectOpen, FillOpen, SelectClosed, FillClosed, EndLoad
  <2>2. ASSUME NEW t \in Requests,
               \/ ViewFirst(t) \/ ViewSecond(t)
               \/ Iterate(t) \/ IterationRaises(t) \/ NextPosition(t) \/ EndIteration(t)
               \/ Respond(t)
        PROVE  LockOK'
    BY <2>2 DEF ViewFirst, ViewSecond, Iterate, IterationRaises, NextPosition, EndIteration,
                Respond
  <2>3. ASSUME RowsChange \/ UNCHANGED viewVars
        PROVE  LockOK'
    BY <2>3 DEF RowsChange, WorkerWrites, AccountReset, HistoryCleared, Deleted, viewVars
  <2> QED
    BY <2>1, <2>2, <2>3 DEF ViewNext, Request
<1>3. ViewInv /\ LockOK => ViewTypeOK
  BY DEF ViewInv, Numbered, Status, Asking, Loading, Iterating, Chart, ClosedOK, ViewTypeOK
<1> QED
  BY <1>1, <1>2, <1>3, ViewBegins, ViewMoves, PTL

(* A step of one of the services is a step of each, or leaves it alone.     *)
LEMMA EachMoves ==
    ASSUME [Next]_vars
    PROVE  /\ [ConnNext]_connVars /\ [MigNext]_migVars /\ [ImportNext]_importVars
           /\ [ViewNext]_viewVars /\ [ReadyNext]_readyVars /\ [AuthNext]_authVars
           /\ [CacheNext]_cacheVars /\ [NotifyNext]_notifyVars
<1> DEFINE Each == /\ [ConnNext]_connVars /\ [MigNext]_migVars /\ [ImportNext]_importVars
                   /\ [ViewNext]_viewVars /\ [ReadyNext]_readyVars /\ [AuthNext]_authVars
                   /\ [CacheNext]_cacheVars /\ [NotifyNext]_notifyVars
<1>1. CASE ConnNext /\ StillButConnection
  BY <1>1 DEF StillButConnection
<1>2. CASE MigNext /\ StillButMigrations
  BY <1>2 DEF StillButMigrations
<1>3. CASE ImportNext /\ StillButImport
  BY <1>3 DEF StillButImport
<1>4. CASE ViewNext /\ StillButView
  BY <1>4 DEF StillButView
<1>5. CASE ReadyNext /\ StillButReadiness
  BY <1>5 DEF StillButReadiness
<1>6. CASE AuthNext /\ StillButSessions
  BY <1>6 DEF StillButSessions
<1>7. CASE CacheNext /\ StillButCache
  BY <1>7 DEF StillButCache
<1>8. CASE NotifyNext /\ StillButNotifier
  BY <1>8 DEF StillButNotifier
<1>9. CASE UNCHANGED vars
  BY <1>9 DEF vars
<1> QED
  BY <1>1, <1>2, <1>3, <1>4, <1>5, <1>6, <1>7, <1>8, <1>9, Zenon DEF Next

(* All of the services side by side: whichever of them moves, and whatever  *)
(* the constants are, no variable of any of them leaves its type.           *)
THEOREM ServicesTyped ==
    ASSUME IsFiniteSet(Processes)
    PROVE  Spec => []TypeOK
<1>1. Init => /\ ConnInit /\ MigInit /\ ImportInit /\ ViewInit
              /\ ReadyInit /\ AuthInit /\ CacheInit /\ NotifyInit
  BY DEF Init
<1>2. [Next]_vars => /\ [ConnNext]_connVars /\ [MigNext]_migVars /\ [ImportNext]_importVars
                     /\ [ViewNext]_viewVars /\ [ReadyNext]_readyVars /\ [AuthNext]_authVars
                     /\ [CacheNext]_cacheVars /\ [NotifyNext]_notifyVars
  BY EachMoves
<1>3. ConnInv => ConnTypeOK
  BY DEF ConnInv
<1>4. ConnInit /\ [][ConnNext]_connVars => []ConnTypeOK
  BY <1>3, ConnInvariant, PTL DEF ConnSpec
<1>5. TypeOK <=> /\ ConnTypeOK /\ MigTypeOK /\ ImportTypeOK /\ ViewTypeOK
                 /\ ReadyTypeOK /\ AuthTypeOK /\ CacheTypeOK /\ NotifyTypeOK
  BY DEF TypeOK
<1>6. MigInit /\ [][MigNext]_migVars => []MigTypeOK
  BY MigTyped
<1> QED
  BY <1>1, <1>2, <1>4, <1>5, <1>6, ImportTyped, ViewTyped, ReadyTyped, AuthTyped, CacheTyped,
     NotifyTyped, PTL DEF Spec


-----------------------------------------------------------------------------
(* How far a process is from its schema. *)

Arrived(p) == stage[p] = "ready" \/ (stage[p] = "refused" /\ CurrentVersion > Supported[p])

\* Steps of p from its look at the version, while the version stays.
FromRead(p) ==
    IF CurrentVersion < Supported[p] THEN Statements[CurrentVersion + 1] + 2 ELSE 1

\* Steps of p until it has arrived, or has brought the database a version on,
\* at most; a script that has run already sends it through a restart.
Away(p) ==
    CASE stage[p] = "read" -> FromRead(p)
      [] stage[p] = "down" -> FromRead(p) + 1
      [] stage[p] = "apply" -> (Statements[script[p]] - ran[p]) + 1
             + IF script[p] \in recorded THEN FromRead(p) + 1 ELSE 0
      [] OTHER -> 0

(* But for faults, the steps of a process bring it nearer to its schema, and *)
(* those of the others do not put it off, unless they bring the database a   *)
(* version on, which never goes back.                                        *)
ProcessesComeNearer ==
    [][migFaults' = migFaults => \A p \in Processes :
          ~Arrived(p) =>
            \/ CurrentVersion < CurrentVersion'
            \/ /\ CurrentVersion' = CurrentVersion
               /\ IF Migrate(p) \/ Connect(p) THEN Away(p)' < Away(p)
                                             ELSE Away(p)' = Away(p)]_migVars

(* Whoever waits for the write lock waits for one that can go on: it has a   *)
(* statement to run, or its script is complete.                              *)
WriterHasStep ==
    \A p \in Processes : stage[p] = "apply" =>
        \E q \in Processes : /\ q = p \/ q = writer
                             /\ Executing(q)
                             /\ ran[q] \in 0..Statements[script[q]]

\* What a process is at, and who has the write lock.
Working ==
    /\ ran \in [Processes -> Nat]
    /\ \A p \in Processes :
          /\ stage[p] = "apply" => ran[p] \in 0..Statements[script[p]]
          /\ stage[p] = "refused" => Supported[p] < CurrentVersion
    /\ writer # NoProcess => writer \in Processes /\ stage[writer] = "apply"

LEMMA LastOfVersions ==
    ASSUME NEW n \in Nat
    PROVE  1..(n + 1) # {} /\ Max(1..(n + 1)) = n + 1
<1> DEFINE S == 1..(n + 1)
<1>1. n + 1 \in S /\ \A y \in S : n + 1 >= y
  OBVIOUS
<1>2. \A x \in S : (\A y \in S : x >= y) => x = n + 1
  <2> SUFFICES ASSUME NEW x \in S, \A y \in S : x >= y PROVE x = n + 1
    OBVIOUS
  <2>1. x >= n + 1 /\ x \in Int /\ x <= n + 1
    OBVIOUS
  <2> QED
    BY <2>1
<1> HIDE DEF S
<1>3. Max(S) = n + 1
  BY <1>1, <1>2 DEF Max
<1> QED
  BY <1>1, <1>3 DEF S

LEMMA WorkingStep ==
    ASSUME IsFiniteSet(Processes), MigInv, MigInv', Working, [MigNext]_migVars
    PROVE  Working'
<1>1. PICK n \in Nat : AtVersion(n) /\ Placement(n)
  BY DEF MigInv
<1>2. CurrentVersion = n /\ recorded = 1..n
  BY <1>1, VersionIs DEF AtVersion
<1>3. CASE UNCHANGED migVars
  BY <1>3 DEF migVars, Working, CurrentVersion
<1>4. ASSUME NEW p \in Processes,
             \/ Connect(p) \/ ConnectAgain(p) \/ Migrate(p)
             \/ ReadFails(p) \/ MigrationFails(p)
      PROVE  Working'
  <2> USE DEF Working, MigTypes, MigInv
  <2>1. /\ MaxVersion \in Nat \ {0} /\ Supported[p] \in Nat \ {0}
        /\ Supported[p] <= MaxVersion /\ Statements \in [Versions -> Nat \ {0}]
        /\ NoProcess \notin Processes
    BY SupportedAtMost, MigrationAssumption
  <2>2. ASSUME NEW v \in Nat \ {0}, v <= Supported[p] PROVE Statements[v] \in Nat \ {0}
    <3>1. v \in Versions
      BY <2>1, <2>2 DEF Versions
    <3> QED
      BY <2>1, <3>1
  <2>3. CASE Connect(p) \/ ConnectAgain(p)
    <3>1. stage' = [stage EXCEPT ![p] = "read"] /\ stage[p] # "apply"
          /\ UNCHANGED <<script, ran, recorded, writer>>
      BY <2>3 DEF Connect, ConnectAgain, Connecting
    <3>2. CurrentVersion' = CurrentVersion
      BY <3>1 DEF CurrentVersion
    <3> QED
      BY <3>1, <3>2
  <2>4. ASSUME NEW v \in Nat \ {0}, GoTo(p, v), UNCHANGED <<recorded, writer>>, stage[p] = "read"
        PROVE  Working'
    <3>1. /\ script' = [script EXCEPT ![p] = v] /\ ran' = [ran EXCEPT ![p] = 0]
          /\ stage' = [stage EXCEPT ![p] = IF v > Supported[p] THEN "ready" ELSE "apply"]
      BY <2>4 DEF GoTo
    <3>2. CurrentVersion' = CurrentVersion
      BY <2>4 DEF CurrentVersion
    <3>3. v <= Supported[p] => Statements[v] \in Nat
      BY <2>2
    <3>4. \A q \in Processes :
              /\ stage'[q] = "apply" => ran'[q] \in 0..Statements[script'[q]]
              /\ stage'[q] = "refused" => Supported[q] < CurrentVersion'
      BY <2>1, <3>1, <3>2, <3>3
    <3>5. writer' # NoProcess => writer' \in Processes /\ stage'[writer'] = "apply"
      BY <2>4, <3>1
    <3> QED
      BY <3>1, <3>4, <3>5
  <2>5. CASE ReadVersion(p)
    <3>1. UNCHANGED <<recorded, writer>> /\ stage[p] = "read"
      BY <2>5 DEF ReadVersion
    <3>2. CASE TooNew(p, CurrentVersion)
      <4>1. stage' = [stage EXCEPT ![p] = "refused"] /\ ran' = ran /\ script' = script
        BY <2>5, <3>2 DEF ReadVersion
      <4>2. CurrentVersion' = CurrentVersion /\ Supported[p] < CurrentVersion
        BY <1>2, <2>1, <3>1, <3>2 DEF CurrentVersion, TooNew
      <4> QED
        BY <3>1, <4>1, <4>2
    <3>3. CASE ~TooNew(p, CurrentVersion)
      <4>1. GoTo(p, n + 1)
        BY <1>2, <2>5, <3>3 DEF ReadVersion, NextScript
      <4> QED
        BY <2>4, <3>1, <4>1
    <3> QED
      BY <3>2, <3>3
  <2>6. CASE ReadFails(p)
    <3>1. GoTo(p, 1) /\ UNCHANGED <<recorded, writer>> /\ stage[p] = "read"
      BY <2>6 DEF ReadFails, NextScript
    <3> QED
      BY <2>4, <3>1
  <2>7. CASE RunStatement(p)
    <3>1. /\ writer' = p /\ ran' = [ran EXCEPT ![p] = @ + 1] /\ stage[p] = "apply"
          /\ UNCHANGED <<stage, script, recorded>> /\ ran[p] < Statements[script[p]]
      BY <2>7 DEF RunStatement, Executing
    <3>2. CurrentVersion' = CurrentVersion
      BY <3>1 DEF CurrentVersion
    <3>3. Statements[script[p]] \in Nat
      BY <1>1, <2>2, <3>1 DEF Placement
    <3> QED
      BY <2>1, <3>1, <3>2, <3>3
  <2>8. ASSUME RolledBack(p) PROVE Working'
    <3>1. /\ stage' = [stage EXCEPT ![p] = "down"] /\ ran' = [ran EXCEPT ![p] = 0]
          /\ writer' = (IF writer = p THEN NoProcess ELSE writer)
          /\ UNCHANGED <<script, recorded>>
      BY <2>8 DEF RolledBack
    <3>2. CurrentVersion' = CurrentVersion
      BY <3>1 DEF CurrentVersion
    <3> QED
      BY <3>1, <3>2
  <2>9. CASE CommitScript(p)
    <3>1. /\ recorded' = recorded \cup {script[p]} /\ writer' = NoProcess
          /\ GoTo(p, script[p] + 1) /\ stage[p] = "apply" /\ script[p] \notin recorded
      BY <2>9 DEF CommitScript, Executing
    <3>2. script[p] = n + 1
      BY <1>1, <1>2, <3>1 DEF Placement
    <3>3. recorded' = 1..(n + 1)
      BY <1>2, <3>1, <3>2
    <3>4. CurrentVersion' = n + 1
      BY <3>3, LastOfVersions DEF CurrentVersion
    <3>5. /\ script' = [script EXCEPT ![p] = n + 2] /\ ran' = [ran EXCEPT ![p] = 0]
          /\ stage' = [stage EXCEPT ![p] = IF n + 2 > Supported[p] THEN "ready" ELSE "apply"]
      BY <3>1, <3>2 DEF GoTo
    <3>6. n + 2 <= Supported[p] => Statements[n + 2] \in Nat
      BY <2>2
    <3>7. \A q \in Processes : Supported[q] \in Nat
      BY MigrationAssumption
    <3>8. \A q \in Processes :
              /\ stage'[q] = "apply" => ran'[q] \in 0..Statements[script'[q]]
              /\ stage'[q] = "refused" => Supported[q] < CurrentVersion'
      BY <1>2, <2>1, <3>4, <3>5, <3>6, <3>7
    <3> QED
      BY <3>1, <3>5, <3>8
  <2>10. ~StatementFails(p) \/ RolledBack(p)
    BY DEF StatementFails
  <2>11. ~MigrationFails(p) \/ RolledBack(p)
    BY DEF MigrationFails
  <2> QED
    BY <1>4, <2>3, <2>5, <2>6, <2>7, <2>8, <2>9, <2>10, <2>11 DEF Migrate
<1> QED
  BY <1>3, <1>4 DEF MigNext

LEMMA WorkingAlways == ASSUME IsFiniteSet(Processes) PROVE MigSpec => [](MigInv /\ Working)
<1>1. MigInit => Working
  BY DEF MigInit, Working
<1>2. MigInv /\ MigInv' /\ Working /\ [MigNext]_migVars => Working'
  BY WorkingStep
<1> QED
  BY <1>1, <1>2, MigInvariant, PTL DEF MigSpec

(* Processes that start at once never wait on each other for good: the one  *)
(* that holds the write lock can always take its next step.                 *)
THEOREM MigrationsHaveStep == ASSUME IsFiniteSet(Processes) PROVE MigSpec => []WriterHasStep
<1>1. ASSUME MigInv, Working PROVE WriterHasStep
  BY <1>1 DEF Working, Executing, WriterHasStep
<1> QED
  BY <1>1, WorkingAlways, PTL

\* A step of p that leaves the version brings p nearer.
LEMMA MoverComesNearer ==
    ASSUME IsFiniteSet(Processes), MigInv, Working, NEW p \in Processes, ~Arrived(p),
           Migrate(p) \/ Connect(p), ~CommitScript(p)
    PROVE  CurrentVersion' = CurrentVersion /\ Away(p)' < Away(p)
<1>1. PICK n \in Nat : AtVersion(n) /\ Placement(n)
  BY DEF MigInv
<1>2. CurrentVersion = n /\ recorded = 1..n
  BY <1>1, VersionIs DEF AtVersion
<1>3. /\ MaxVersion \in Nat \ {0} /\ Supported[p] \in Nat \ {0} /\ Supported[p] <= MaxVersion
      /\ Statements \in [Versions -> Nat \ {0}]
  BY SupportedAtMost, MigrationAssumption
<1>4. ASSUME NEW v \in Nat \ {0}, v <= Supported[p] PROVE Statements[v] \in Nat \ {0}
  <2>1. v \in Versions
    BY <1>3, <1>4 DEF Versions
  <2> QED
    BY <1>3, <2>1
<1>5. FromRead(p) \in Nat \ {0}
  <2>1. n < Supported[p] => n + 1 \in Nat \ {0} /\ n + 1 <= Supported[p]
    BY <1>3
  <2>2. n < Supported[p] => Statements[n + 1] \in Nat \ {0}
    BY <1>4, <2>1
  <2> QED
    BY <1>2, <2>2 DEF FromRead
<1>6. stage[p] # "refused"
  BY DEF Arrived, Working
<1>7. CASE Connect(p)
  <2>1. stage[p] = "down" /\ stage'[p] = "read" /\ recorded' = recorded
    BY <1>6, <1>7 DEF Connect, Connecting, MigInv, MigTypes
  <2>2. CurrentVersion' = CurrentVersion
    BY <2>1 DEF CurrentVersion
  <2>3. FromRead(p)' = FromRead(p)
    BY <2>2 DEF FromRead
  <2>4. Away(p) = FromRead(p) + 1 /\ Away(p)' = FromRead(p)'
    BY <2>1 DEF Away
  <2> QED
    BY <1>5, <2>2, <2>3, <2>4
<1>8. CASE ReadVersion(p)
  <2>1. stage[p] = "read" /\ recorded' = recorded /\ Away(p) = FromRead(p)
    BY <1>8 DEF ReadVersion, Away
  <2>2. CurrentVersion' = CurrentVersion
    BY <2>1 DEF CurrentVersion
  <2>3. CASE stage'[p] \in {"refused", "ready"}
    <3>1. Away(p)' = 0
      BY <2>3 DEF Away
    <3> QED
      BY <1>5, <2>1, <2>2, <3>1
  <2>4. CASE stage'[p] \notin {"refused", "ready"}
    <3>1. ~TooNew(p, CurrentVersion) /\ GoTo(p, n + 1)
      BY <1>2, <1>8, <2>4 DEF ReadVersion, NextScript, MigInv, MigTypes
    <3>2. stage'[p] = "apply" /\ n + 1 <= Supported[p] /\ script'[p] = n + 1 /\ ran'[p] = 0
      BY <1>3, <2>4, <3>1 DEF GoTo, MigInv, MigTypes, Working
    <3>3. Statements[n + 1] \in Nat \ {0}
      BY <1>4, <3>2
    <3>4. n + 1 \notin recorded'
      BY <1>2, <2>1
    <3>5. Away(p)' = (Statements[n + 1] - 0) + 1 + 0
      BY <3>2, <3>4 DEF Away
    <3>6. FromRead(p) = Statements[n + 1] + 2
      BY <1>2, <1>3, <3>2 DEF FromRead
    <3> QED
      BY <2>1, <2>2, <3>3, <3>5, <3>6
  <2> QED
    BY <2>3, <2>4
<1>9. CASE RunStatement(p) \/ StatementFails(p)
  <2>1. /\ stage[p] = "apply" /\ recorded' = recorded
        /\ script[p] \in Nat \ {0} /\ script[p] <= Supported[p]
    BY <1>1, <1>9 DEF RunStatement, StatementFails, RolledBack, Executing, Placement
  <2>2. CurrentVersion' = CurrentVersion
    BY <2>1 DEF CurrentVersion
  <2>3. FromRead(p)' = FromRead(p)
    BY <2>2 DEF FromRead
  <2>4. Statements[script[p]] \in Nat \ {0} /\ ran[p] \in 0..Statements[script[p]]
    BY <1>4, <2>1 DEF Working
  <2>5. Away(p) = (Statements[script[p]] - ran[p]) + 1
                   + IF script[p] \in recorded THEN FromRead(p) + 1 ELSE 0
    BY <2>1 DEF Away
  <2>6. CASE RunStatement(p)
    <3>1. stage'[p] = "apply" /\ script'[p] = script[p] /\ ran'[p] = ran[p] + 1
      BY <2>1, <2>6 DEF RunStatement, Working
    <3>2. Away(p)' = (Statements[script[p]] - (ran[p] + 1)) + 1
                      + IF script[p] \in recorded THEN FromRead(p) + 1 ELSE 0
      BY <2>1, <2>3, <3>1 DEF Away
    <3> QED
      BY <1>5, <2>2, <2>4, <2>5, <3>2
  <2>7. CASE StatementFails(p)
    <3>1. script[p] \in recorded
      <4>1. CASE Conflicts(script[p], ran[p] + 1)
        <5>1. PICK v \in recorded : <<script[p], ran[p] + 1>> \in ObjectsOf(v)
          BY <1>1, <4>1 DEF Conflicts, AtVersion
        <5> QED
          BY <5>1 DEF ObjectsOf
      <4> QED
        BY <2>7, <4>1 DEF StatementFails
    <3>2. stage'[p] = "down"
      BY <2>7 DEF StatementFails, RolledBack, MigInv, MigTypes
    <3>3. Away(p)' = FromRead(p) + 1
      BY <2>3, <3>2 DEF Away
    <3>4. Away(p) = (Statements[script[p]] - ran[p]) + 1 + (FromRead(p) + 1)
      BY <2>5, <3>1
    <3> HIDE DEF FromRead, Away
    <3> QED
      BY <1>5, <2>2, <2>4, <3>3, <3>4
  <2> QED
    BY <2>6, <2>7, <1>9
<1> QED
  BY <1>7, <1>8, <1>9 DEF Migrate

(* What EveryoneConnects rests on, for any processes and scripts: a process *)
(* that has not arrived has a distance that each of its steps makes shorter *)
(* and no step of another makes longer, while the version of the database   *)
(* stays; and that version only rises (db.py:139-166).                      *)
THEOREM MigrationsAdvance ==
    ASSUME IsFiniteSet(Processes) PROVE MigSpec => ProcessesComeNearer
<1> DEFINE Goal(p) ==
        \/ CurrentVersion < CurrentVersion'
        \/ /\ CurrentVersion' = CurrentVersion
           /\ IF Migrate(p) \/ Connect(p) THEN Away(p)' < Away(p) ELSE Away(p)' = Away(p)
<1>1. ASSUME MigTypeOK, MigInv, Working, [MigNext]_migVars, migFaults' = migFaults,
             NEW p \in Processes, ~Arrived(p)
      PROVE  Goal(p)
  <2>1. PICK n \in Nat : AtVersion(n) /\ Placement(n)
    BY <1>1 DEF MigInv
  <2>2. CurrentVersion = n /\ recorded = 1..n
    BY <2>1, VersionIs DEF AtVersion
  <2>3. \A q \in Processes : ~ReadFails(q) /\ ~MigrationFails(q)
    BY <1>1, MigrationAssumption DEF ReadFails, MigrationFails, MigFault, MigTypeOK
  <2>4. ASSUME NEW q \in Processes, CommitScript(q) PROVE CurrentVersion < CurrentVersion'
    <3>1. script[q] \in 1..(n + 1) /\ script[q] \notin 1..n /\ recorded' = recorded \cup {script[q]}
      BY <2>1, <2>2, <2>4 DEF CommitScript, Executing, Placement
    <3>2. recorded' = 1..(n + 1)
      BY <2>2, <3>1
    <3>3. CurrentVersion' = n + 1
      BY <2>2, <3>2, LastOfVersions DEF CurrentVersion
    <3> QED
      BY <2>2, <3>3
  <2>5. CASE Migrate(p) \/ Connect(p)
    BY <1>1, <2>4, <2>5, MoverComesNearer
  <2>6. CASE ~(Migrate(p) \/ Connect(p)) /\ UNCHANGED <<recorded, stage[p], script[p], ran[p]>>
    BY <2>6 DEF CurrentVersion, Away, FromRead
  <2>7. ASSUME UNCHANGED migVars PROVE UNCHANGED <<recorded, stage[p], script[p], ran[p]>>
    BY <2>7 DEF migVars
  <2>8. ASSUME NEW q \in Processes, q # p, \/ Connect(q) \/ ConnectAgain(q) \/ ReadVersion(q)
                                          \/ RunStatement(q) \/ StatementFails(q)
        PROVE  UNCHANGED <<recorded, stage[p], script[p], ran[p]>>
    BY <1>1, <2>8 DEF Connect, ConnectAgain, Connecting, ReadVersion, GoTo, RunStatement,
       StatementFails, RolledBack, MigInv, MigTypes, Working
  <2>9. ~ConnectAgain(p)
    BY <1>1 DEF ConnectAgain, Arrived
  <2>10. CASE ~(Migrate(p) \/ Connect(p)) /\ ~\E q \in Processes : CommitScript(q)
    <3>1. UNCHANGED <<recorded, stage[p], script[p], ran[p]>>
      BY <1>1, <2>3, <2>7, <2>8, <2>9, <2>10 DEF MigNext, Migrate, migVars
    <3> QED
      BY <2>6, <2>10, <3>1
  <2> QED
    BY <2>4, <2>5, <2>10
<1>2. MigTypeOK /\ MigInv /\ Working /\ [MigNext]_migVars =>
        [migFaults' = migFaults => \A p \in Processes : ~Arrived(p) => Goal(p)]_migVars
  BY <1>1
<1> QED
  BY <1>2, WorkingAlways, MigTyped, PTL DEF MigSpec, ProcessesComeNearer


-----------------------------------------------------------------------------
(* How far a halt is from what /ready shows. *)

ShowsRunning == state # NoState /\ state.fsm = "RUNNING"

\* The worker is halted and stays so, whatever of the queue it acknowledges.
Obeying ==
    /\ obeyed = "halt" /\ (alive => machine = "HALTED")
    /\ \A i \in 1..Len(queue) : queue[i] = "halt"

\* Steps of the worker until a halt that is the newest order is shown: it obeys,
\* and then it publishes.
ToShow ==
    IF ~Obeying THEN IF alive /\ cycle = "drain" THEN 2 ELSE 3
    ELSE IF ~ShowsRunning THEN 0
    ELSE IF alive /\ cycle = "drain" THEN 2 ELSE 1

\* The halt is obeyed and shown, and no resume is left that could write.
Settled == newest = "halt" /\ unwritten \subseteq {"halt"} /\ ToShow = 0

(* While a halt is the newest order and no start fails to read what it      *)
(* restores: once the halt is shown it stays so, whatever dies, raises or   *)
(* is ordered again; and before, every write of an order leaves fewer of    *)
(* them, and when no resume is left to write every step of the worker       *)
(* brings the halt nearer to what is shown, and nothing puts it off but a   *)
(* failure or another order.                                                *)
HaltComesNearer ==
    [][newest = "halt" /\ newest' = "halt" /\ ~forgot /\ ~forgot' =>
          /\ Settled => Settled'
          /\ orders' = orders /\ readyCrashes' = readyCrashes =>
                /\ unwritten' \subseteq unwritten /\ (OrderEnds => unwritten' # unwritten)
                /\ "resume" \notin unwritten => ToShow' <= ToShow
                /\ "resume" \notin unwritten /\ ToShow # 0 /\ WorkerLoop =>
                      ToShow' < ToShow]_readyVars

\* The newest order is the last of the queue, or the worker obeys it.
Heard ==
    /\ queue # <<>> => queue[Len(queue)] = newest
    /\ queue = <<>> /\ newest = "halt" =>
          obeyed = "halt" /\ (alive /\ ~forgot => machine = "HALTED")
    /\ orders \in Nat /\ readyCrashes \in Nat

\* A drain that breaks off keeps the last of the commands.
LEMMA BreakingOff ==
    ASSUME ReadyTypeOK, Heard, NEW n \in 0..MaxOrders, NEW dies \in BOOLEAN,
           DrainBreaksOff(n, dies)
    PROVE  /\ queue' # <<>> /\ queue'[Len(queue')] = newest /\ newest' = newest
           /\ readyCrashes' \in Nat /\ readyCrashes' # readyCrashes
           /\ UNCHANGED <<orders, unwritten, state, cycle, forgot>>
           /\ Obeying => Obeying'
<1>1. /\ n \in Nat /\ n < Len(queue) /\ queue \in Seq({"halt", "resume"})
      /\ queue' = SubSeq(queue, n + 1, Len(queue)) /\ obeyed' = ObeyedAfter(n)
      /\ machine' = IF queue[n + 1] = "halt" THEN "HALTED" ELSE "DEGRADED"
      /\ newest' = newest /\ UNCHANGED <<orders, unwritten, state, cycle, forgot>>
      /\ readyCrashes' = readyCrashes + 1 /\ readyCrashes \in Nat
  BY ReadinessAssumption DEF DrainBreaksOff, Failing, api, ReadyTypeOK, Heard
<1> DEFINE q == Len(queue)
<1>2. q \in Nat
  BY <1>1
<1>3. /\ queue' \in Seq({"halt", "resume"}) /\ Len(queue') = q - n
      /\ \A i \in 1..(q - n) : queue'[i] = queue[n + i]
  BY <1>1, RestIs
<1> HIDE DEF q
<1>4. Len(queue') \in 1..(q - n) /\ n + Len(queue') = q
  BY <1>1, <1>2, <1>3 DEF q
<1>5. queue'[Len(queue')] = newest
  <2>1. queue # <<>>
    BY <1>1
  <2>2. queue'[Len(queue')] = queue[q]
    BY <1>3, <1>4
  <2> QED
    BY <2>1, <2>2 DEF q, Heard
<1>6. queue' # <<>>
  BY <1>3, <1>4
<1>7. Obeying => Obeying'
  <2> SUFFICES ASSUME Obeying PROVE Obeying'
    OBVIOUS
  <2>1. obeyed = "halt" /\ \A i \in 1..q : queue[i] = "halt"
    BY DEF Obeying, q
  <2>2. obeyed' = "halt"
    <3>1. n = 0 \/ n \in 1..q
      BY <1>1 DEF q
    <3> QED
      BY <1>1, <2>1, <3>1 DEF ObeyedAfter
  <2>3. machine' = "HALTED"
    <3>1. n + 1 \in 1..q
      BY <1>1, <1>2 DEF q
    <3> QED
      BY <1>1, <2>1, <3>1
  <2>4. ASSUME NEW i \in 1..Len(queue') PROVE queue'[i] = "halt"
    <3>1. i \in 1..(q - n) /\ n + i \in 1..q
      BY <1>1, <1>2, <1>3 DEF q
    <3> QED
      BY <1>3, <2>1, <3>1
  <2> QED
    BY <2>2, <2>3, <2>4 DEF Obeying
<1>8. readyCrashes' \in Nat /\ readyCrashes' # readyCrashes
  BY <1>1
<1> QED
  BY <1>1, <1>5, <1>6, <1>7, <1>8

LEMMA HeardStep == ReadyTypeOK /\ Heard /\ [ReadyNext]_readyVars => Heard'
<1> SUFFICES ASSUME ReadyTypeOK, Heard, [ReadyNext]_readyVars PROVE Heard'
  OBVIOUS
<1>1. CASE TimePasses \/ ClockSetBack \/ WorkerPublishes \/ UNCHANGED readyVars
  BY <1>1 DEF TimePasses, ClockSetBack, WorkerPublishes, readyVars, api, worker, Heard
<1>2. CASE CycleRaises \/ WorkerDies
  BY <1>2 DEF CycleRaises, WorkerDies, Failing, api, Heard
<1>3. ASSUME NEW kind \in {"halt", "resume"}, Order(kind) PROVE Heard'
  <2>1. /\ queue' = Append(queue, kind) /\ newest' = kind /\ orders' = orders + 1
        /\ UNCHANGED <<alive, machine, obeyed, readyCrashes>>
    BY <1>3 DEF Order
  <2>2. queue'[Len(queue')] = kind /\ queue' # <<>>
    BY <2>1, AppendProperties DEF ReadyTypeOK
  <2> QED
    BY <2>1, <2>2 DEF Heard
<1>4. ASSUME NEW kind \in {"halt", "resume"}, NEW fails \in BOOLEAN, OrderWrites(kind, fails)
      PROVE  Heard'
  BY <1>4 DEF OrderWrites, worker, Heard
<1>5. ASSUME NEW feedsOk \in BOOLEAN, NEW ok \in BOOLEAN, WorkerStarts(feedsOk, ok)
      PROVE  Heard'
  <2>1. /\ UNCHANGED <<queue, newest, obeyed, orders, readyCrashes>>
        /\ forgot' = ~ok
        /\ ok /\ RestoredHalt => machine' = "HALTED"
    BY <1>5 DEF WorkerStarts, api
  <2> QED
    BY <2>1 DEF Heard, RestoredHalt
<1>6. ASSUME NEW feedsOk \in BOOLEAN, WorkerDrains(feedsOk) PROVE Heard'
  <2>1. /\ queue' = <<>> /\ newest' = newest /\ forgot' = forgot /\ alive' = alive /\ alive
        /\ UNCHANGED <<orders, readyCrashes>> /\ obeyed' = ObeyedAfter(Len(queue))
        /\ (IF Len(queue) = 0 THEN machine = "HALTED" ELSE queue[Len(queue)] = "halt") =>
              machine' = "HALTED"
    BY <1>6 DEF WorkerDrains, api
  <2>2. CASE queue = <<>>
    BY <2>1, <2>2, EmptySeq DEF Heard, ObeyedAfter
  <2>3. CASE queue # <<>>
    <3>1. Len(queue) # 0 /\ queue[Len(queue)] = newest
      BY <2>3, EmptySeq DEF Heard, ReadyTypeOK
    <3> QED
      BY <2>1, <3>1 DEF Heard, ObeyedAfter
  <2> QED
    BY <2>2, <2>3
<1>7. ASSUME NEW n \in 0..MaxOrders, NEW dies \in BOOLEAN, DrainBreaksOff(n, dies) PROVE Heard'
  BY <1>7, BreakingOff DEF Heard
<1> QED
  BY <1>1, <1>2, <1>3, <1>4, <1>5, <1>6, <1>7 DEF ReadyNext, WorkerLoop, OrderEnds

\* The steps of the worker while a halt is the newest order.
LEMMA WorkerShows ==
    ASSUME ReadyTypeOK, Heard, newest = "halt", ~forgot, ~forgot', WorkerLoop
    PROVE  /\ UNCHANGED <<unwritten, newest, orders>>
           /\ ToShow' <= ToShow /\ (ToShow # 0 => ToShow' < ToShow)
<1> USE DEF ToShow, ShowsRunning
<1>1. ASSUME NEW feedsOk \in BOOLEAN, NEW ok \in BOOLEAN, WorkerStarts(feedsOk, ok)
      PROVE  ToShow' <= ToShow /\ (ToShow # 0 => ToShow' < ToShow)
  <2>1. /\ ~alive /\ alive' /\ cycle' = "drain" /\ UNCHANGED <<queue, obeyed>> /\ ok
        /\ state' = [fsm |-> machine', stamp |-> Clock]
    BY <1>1, Zenon DEF WorkerStarts, Published
  <2>2. obeyed = "halt" => machine' = "HALTED"
    BY <1>1, <2>1 DEF WorkerStarts, RestoredHalt
  <2>3. Obeying => Obeying'
    BY <2>1, <2>2 DEF Obeying
  <2>4. Obeying => ~ShowsRunning'
    BY <2>1, <2>2 DEF Obeying
  <2> HIDE DEF ShowsRunning
  <2>5. CASE Obeying
    BY <2>1, <2>3, <2>4, <2>5
  <2>6. CASE ~Obeying
    <3>1. ToShow = 3 /\ ToShow' \in {0, 2}
      BY <2>1, <2>6
    <3> QED
      BY <3>1
  <2> QED
    BY <2>5, <2>6
<1>2. ASSUME NEW feedsOk \in BOOLEAN, WorkerDrains(feedsOk)
      PROVE  ToShow' <= ToShow /\ (ToShow # 0 => ToShow' < ToShow)
  <2>1. alive /\ alive' /\ cycle = "drain" /\ cycle' = "publish" /\ state' = state
    BY <1>2 DEF WorkerDrains, api
  <2>2. Obeying'
    <3>1. queue' = <<>> /\ newest' = "halt" /\ Heard'
      BY <1>2, HeardStep DEF WorkerDrains, api, ReadyNext, WorkerLoop
    <3>2. obeyed' = "halt" /\ machine' = "HALTED"
      BY <2>1, <3>1 DEF Heard
    <3>3. \A i \in 1..Len(queue') : FALSE
      BY <3>1, EmptySeq
    <3> QED
      BY <3>2, <3>3 DEF Obeying
  <2>3. ShowsRunning' <=> ShowsRunning
    BY <2>1
  <2> HIDE DEF ShowsRunning
  <2>4. ToShow' = (IF ~ShowsRunning' THEN 0 ELSE 1)
    BY <2>1, <2>2
  <2> QED
    BY <2>1, <2>3, <2>4
<1>3. ASSUME WorkerPublishes
      PROVE  ToShow' <= ToShow /\ (ToShow # 0 => ToShow' < ToShow)
  <2>1. /\ alive /\ alive' /\ cycle = "publish" /\ cycle' = "drain"
        /\ UNCHANGED <<obeyed, machine, queue>>
        /\ state' = [fsm |-> machine, stamp |-> Clock]
    BY <1>3 DEF WorkerPublishes, Published
  <2>2. (Obeying' <=> Obeying) /\ (Obeying => ~ShowsRunning')
    BY <2>1 DEF Obeying
  <2> HIDE DEF ShowsRunning
  <2> QED
    BY <2>1, <2>2
<1>4. UNCHANGED <<unwritten, newest, orders>>
  BY DEF WorkerLoop, WorkerStarts, WorkerDrains, WorkerPublishes, api
<1> QED
  BY <1>1, <1>2, <1>3, <1>4 DEF WorkerLoop

\* The steps of everybody else.
LEMMA OthersShow ==
    ASSUME ReadyTypeOK, Heard, newest = "halt", newest' = "halt", [ReadyNext]_readyVars,
           ~WorkerLoop
    PROVE  /\ unwritten \subseteq {"halt"} => unwritten' \subseteq {"halt"}
           /\ unwritten \subseteq {"halt"} /\ ToShow = 0 => ToShow' = 0
           /\ orders' = orders /\ readyCrashes' = readyCrashes =>
                 /\ unwritten' \subseteq unwritten /\ (OrderEnds => unwritten' # unwritten)
                 /\ "resume" \notin unwritten => ToShow' <= ToShow
<1> USE DEF ToShow, ShowsRunning
<1> DEFINE Goal ==
           /\ unwritten \subseteq {"halt"} => unwritten' \subseteq {"halt"}
           /\ unwritten \subseteq {"halt"} /\ ToShow = 0 => ToShow' = 0
           /\ orders' = orders /\ readyCrashes' = readyCrashes =>
                 /\ unwritten' \subseteq unwritten /\ (OrderEnds => unwritten' # unwritten)
                 /\ "resume" \notin unwritten => ToShow' <= ToShow
<1>0. OrderEnds => unwritten' # unwritten
  BY DEF OrderEnds, OrderWrites
<1>1. CASE TimePasses \/ ClockSetBack \/ UNCHANGED readyVars
  <2>1. UNCHANGED <<unwritten, obeyed, alive, machine, queue, cycle, state>>
    BY <1>1 DEF TimePasses, ClockSetBack, readyVars, api, worker
  <2> QED
    BY <1>0, <2>1 DEF Obeying
<1>2. CASE CycleRaises \/ WorkerDies
  <2>1. /\ readyCrashes' # readyCrashes /\ UNCHANGED <<unwritten, obeyed, queue, state>>
        /\ Obeying => Obeying'
    BY <1>2 DEF CycleRaises, WorkerDies, Failing, api, Heard, Obeying
  <2> QED
    BY <2>1
<1>5. ASSUME NEW n \in 0..MaxOrders, NEW dies \in BOOLEAN, DrainBreaksOff(n, dies) PROVE Goal
  <2>1. /\ readyCrashes' # readyCrashes /\ UNCHANGED <<unwritten, state>>
        /\ Obeying => Obeying'
    BY <1>5, BreakingOff
  <2> QED
    BY <2>1
<1>3. ASSUME NEW kind \in {"halt", "resume"}, Order(kind) PROVE Goal
  <2>1. /\ kind = "halt" /\ orders' # orders /\ unwritten' = unwritten \cup {kind}
        /\ queue' = Append(queue, "halt")
        /\ UNCHANGED <<obeyed, alive, machine, cycle, state>>
    BY <1>3 DEF Order, Heard
  <2>2. Obeying => Obeying'
    <3>1. queue \in Seq({"halt", "resume"})
      BY DEF ReadyTypeOK
    <3>2. \A i \in 1..Len(queue') : i \in 1..Len(queue) \/ queue'[i] = "halt"
      BY <2>1, <3>1, AppendProperties
    <3>3. \A i \in 1..Len(queue) : queue'[i] = queue[i]
      BY <2>1, <3>1, AppendProperties
    <3> QED
      BY <2>1, <3>2, <3>3 DEF Obeying
  <2> QED
    BY <2>1, <2>2
<1>4. ASSUME NEW kind \in {"halt", "resume"}, NEW fails \in BOOLEAN, OrderWrites(kind, fails)
      PROVE  Goal
  <2>1. /\ kind \in unwritten /\ unwritten' = unwritten \ {kind}
        /\ UNCHANGED <<obeyed, alive, machine, queue, cycle>>
        /\ state' = state \/ state' = [fsm |-> IF kind = "halt" THEN "HALTED" ELSE "RUNNING",
                                       stamp |-> Clock]
    BY <1>4 DEF OrderWrites, worker, Published
  <2>2. ASSUME kind = "halt" PROVE ToShow' <= ToShow
    BY <2>1, <2>2 DEF Obeying
  <2>3. ASSUME "resume" \notin unwritten PROVE kind = "halt"
    BY <2>1, <2>3
  <2>4. ASSUME kind = "halt", ToShow = 0 PROVE ToShow' = 0
    BY <2>1, <2>4 DEF Obeying
  <2> QED
    BY <1>0, <2>1, <2>2, <2>3, <2>4
<1> QED
  BY <1>1, <1>2, <1>3, <1>4, <1>5 DEF ReadyNext, OrderEnds

(* What HaltIsShown rests on: a halt that stays the last word is obeyed and *)
(* published in as many steps as ToShow says, and from then on no restart,  *)
(* no raised cycle, no drain that breaks off and no late write makes /ready *)
(* report the bot as enabled again (routes.py, app.py).                     *)
THEOREM HaltAdvances ==
    ReadySpec => HaltComesNearer /\ [](Settled => ~Enabled)
<1>1. ReadyInit => Heard
  BY ReadinessAssumption DEF ReadyInit, Heard
<1>2. ReadyTypeOK /\ Heard /\ [ReadyNext]_readyVars => Heard'
  BY HeardStep
<1>3. ASSUME ReadyTypeOK, Heard, [ReadyNext]_readyVars, newest = "halt", newest' = "halt",
             ~forgot, ~forgot'
      PROVE  /\ Settled => Settled'
             /\ orders' = orders /\ readyCrashes' = readyCrashes =>
                   /\ unwritten' \subseteq unwritten /\ (OrderEnds => unwritten' # unwritten)
                   /\ "resume" \notin unwritten => ToShow' <= ToShow
                   /\ "resume" \notin unwritten /\ ToShow # 0 /\ WorkerLoop => ToShow' < ToShow
  <2>1. CASE WorkerLoop
    <3>1. ~OrderEnds
      BY <2>1, WorkerShows, <1>3 DEF OrderEnds, OrderWrites
    <3>2. ToShow = 0 => ToShow' = 0
      BY <1>3, <2>1, WorkerShows DEF ToShow
    <3>3. /\ UNCHANGED <<unwritten, newest>>
          /\ ToShow' <= ToShow /\ (ToShow # 0 => ToShow' < ToShow)
      BY <1>3, <2>1, WorkerShows
    <3> QED
      BY <3>1, <3>2, <3>3 DEF Settled
  <2>2. CASE ~WorkerLoop
    BY <1>3, <2>2, OthersShow DEF Settled
  <2> QED
    BY <2>1, <2>2
<1>4. ReadyTypeOK /\ Heard /\ [ReadyNext]_readyVars =>
        [newest = "halt" /\ newest' = "halt" /\ ~forgot /\ ~forgot' =>
          /\ Settled => Settled'
          /\ orders' = orders /\ readyCrashes' = readyCrashes =>
                /\ unwritten' \subseteq unwritten /\ (OrderEnds => unwritten' # unwritten)
                /\ "resume" \notin unwritten => ToShow' <= ToShow
                /\ "resume" \notin unwritten /\ ToShow # 0 /\ WorkerLoop =>
                      ToShow' < ToShow]_readyVars
  BY <1>3
<1>5. Settled => ~Enabled
  BY DEF Settled, ToShow, ShowsRunning, Enabled, Stale
<1> QED
  BY <1>1, <1>2, <1>4, <1>5, ReadyTyped, PTL DEF ReadySpec, HaltComesNearer
=============================================================================
