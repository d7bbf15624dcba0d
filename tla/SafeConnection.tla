--------------------------- MODULE SafeConnection ---------------------------
(***************************************************************************)
(* SafeConnection of store/db.py: one SQLite connection shared by threads, *)
(* whose `with conn:` blocks nest.  The outermost block is a transaction,  *)
(* an inner one a savepoint, and a reentrant lock keeps the blocks of      *)
(* different threads apart.  A write is an id, drawn once.                 *)
(*                                                                         *)
(* A block may end with an exception, which its caller may swallow (as     *)
(* _log_decision of the worker does); COMMIT may fail; and SQLite may end  *)
(* a whole transaction by itself when a statement fails.  A caller that    *)
(* swallows that goes on inside a block that has lost its transaction.     *)
(***************************************************************************)
EXTENDS Naturals, Sequences

CONSTANTS
    Threads,
    Writes,          \* ids of write statements
    NoThread,
    MaxDepth,        \* bound on the nesting of blocks
    MaxConnFaults    \* bound on failing statements and commits

ASSUME ConnectionAssumption ==
    /\ NoThread \notin Threads
    /\ MaxDepth \in Nat /\ MaxConnFaults \in Nat

VARIABLES
    lockOwner, lockCount,  \* _tx_lock
    depth,                 \* _tx_depth
    inTransaction,         \* whether SQLite has a transaction open
    saves,                 \* what ROLLBACK restores, then each ROLLBACK TO
    view,                  \* the writes the connection sees
    committed,             \* the writes in the database
    raising,               \* threads in which an exception is on its way
    frames,                \* history: writes of each block a thread is inside
    adrift,                \* history: the outermost block went on without its transaction
    loose,                 \* history: writes that were executed adrift
    kept,                  \* history: writes of the blocks that ended normally
                           \* and were never adrift
    drawn, connFaults

connVars == <<lockOwner, lockCount, depth, inTransaction, saves, view,
              committed, raising, frames, adrift, loose, kept, drawn, connFaults>>

Level(t) == Len(frames[t])

\* A failed COMMIT has left its transaction open.
Wedged == depth = 0 /\ inTransaction

-----------------------------------------------------------------------------

ConnInit ==
    /\ lockOwner = NoThread
    /\ lockCount = 0
    /\ depth = 0
    /\ inTransaction = FALSE
    /\ saves = <<>>
    /\ view = {}
    /\ committed = {}
    /\ raising = {}
    /\ frames = [t \in Threads |-> <<>>]
    /\ adrift = FALSE
    /\ loose = {}
    /\ kept = {}
    /\ drawn = {}
    /\ connFaults = 0

\* Variant for mutation: no lock.
AnyThread(t) == TRUE

\* _tx_lock.acquire succeeds; otherwise it gives up after a second and raises.
Acquirable(t) == lockOwner \in {NoThread, t}

Acquired(t) == lockOwner' = t /\ lockCount' = lockCount + 1

Released ==
    /\ lockCount' = lockCount - 1
    /\ lockOwner' = IF lockCount = 1 THEN NoThread ELSE lockOwner

(* BEGIN or SAVEPOINT sp_<depth>: the state to come back to is remembered.  *)
Enter(t) ==
    /\ t \notin raising
    /\ Level(t) < MaxDepth
    /\ Acquirable(t)
    /\ ~Wedged
    /\ Acquired(t)
    /\ inTransaction' = TRUE
    /\ saves' = Append(saves, view)
    /\ depth' = depth + 1
    /\ frames' = [frames EXCEPT ![t] = Append(@, {})]
    /\ UNCHANGED <<view, committed, raising, adrift, loose, kept, drawn, connFaults>>

(* BEGIN within a transaction raises; __exit__ is not called for it, so the *)
(* lock stays with the thread.  The bound stands for any number of repeats. *)
EnterRaises(t) ==
    /\ Wedged
    /\ Acquirable(t)
    /\ lockCount < MaxDepth
    /\ Acquired(t)
    /\ UNCHANGED <<depth, inTransaction, saves, view, committed, raising,
                   frames, adrift, loose, kept, drawn, connFaults>>

(* A statement inside a block; without a transaction it commits by itself.  *)
Execute(t, w) ==
    /\ Level(t) > 0
    /\ t \notin raising
    /\ w \notin drawn
    /\ drawn' = drawn \cup {w}
    /\ view' = view \cup {w}
    /\ committed' = IF inTransaction THEN committed ELSE committed \cup {w}
    /\ frames' = [frames EXCEPT ![t][Level(t)] = @ \cup {w}]
    /\ loose' = IF adrift THEN loose \cup {w} ELSE loose
    /\ UNCHANGED <<lockOwner, lockCount, depth, inTransaction, saves, raising,
                   adrift, kept, connFaults>>

Fault == connFaults < MaxConnFaults /\ connFaults' = connFaults + 1

(* A statement or the code between statements raises. *)
Raise(t) ==
    /\ Level(t) > 0
    /\ t \notin raising
    /\ Fault
    /\ raising' = raising \cup {t}
    /\ UNCHANGED <<lockOwner, lockCount, depth, inTransaction, saves, view,
                   committed, frames, adrift, loose, kept, drawn>>

(* A statement fails and SQLite rolls the whole transaction back. *)
Abort(t) ==
    /\ Level(t) > 0
    /\ t \notin raising
    /\ inTransaction
    /\ Fault
    /\ raising' = raising \cup {t}
    /\ inTransaction' = FALSE
    /\ saves' = <<>>
    /\ view' = committed
    /\ UNCHANGED <<lockOwner, lockCount, depth, committed, frames, adrift, loose,
                   kept, drawn>>

(* The caller of a block that raised goes on inside the enclosing one, with *)
(* or without its transaction.                                              *)
Swallow(t) ==
    /\ t \in raising
    /\ Level(t) > 0
    /\ raising' = raising \ {t}
    /\ adrift' = (adrift \/ ~inTransaction)
    /\ UNCHANGED <<lockOwner, lockCount, depth, inTransaction, saves, view,
                   committed, frames, loose, kept, drawn, connFaults>>

Leaving(t) ==
    /\ Level(t) > 0
    /\ depth' = depth - 1
    /\ adrift' = (adrift /\ depth > 1)
    /\ Released

\* the innermost block of t ends; its writes, if any are kept, are the caller's
Popped(t, writes) ==
    LET rest == SubSeq(frames[t], 1, Level(t) - 1) IN
      IF rest = <<>> THEN rest
      ELSE [rest EXCEPT ![Len(rest)] = @ \cup writes]

\* __exit__ of an inner block without an exception: RELEASE.  Its failure is
\* swallowed; a savepoint that is the whole transaction commits.
ExitRelease(t) ==
    /\ t \notin raising
    /\ depth > 1
    /\ Leaving(t)
    /\ saves' = IF saves = <<>> THEN saves ELSE SubSeq(saves, 1, Len(saves) - 1)
    /\ inTransaction' = (Len(saves) > 1)
    /\ committed' = IF Len(saves) = 1 THEN view ELSE committed
    /\ frames' = [frames EXCEPT ![t] = Popped(t, frames[t][Level(t)])]
    /\ UNCHANGED <<view, raising, loose, kept, drawn, connFaults>>

\* __exit__ of the outermost block without an exception: COMMIT, if there
\* still is a transaction.
ExitCommit(t) ==
    /\ t \notin raising
    /\ depth = 1
    /\ Leaving(t)
    /\ committed' = view
    /\ inTransaction' = FALSE
    /\ saves' = <<>>
    /\ kept' = IF adrift THEN kept ELSE kept \cup frames[t][Level(t)]
    /\ frames' = [frames EXCEPT ![t] = Popped(t, {})]
    /\ UNCHANGED <<view, raising, loose, drawn, connFaults>>

\* COMMIT raises; SQLite has ended the transaction or not.
ExitCommitFails(t, ended) ==
    /\ t \notin raising
    /\ depth = 1
    /\ inTransaction
    /\ Fault
    /\ Leaving(t)
    /\ inTransaction' = ~ended
    /\ view' = IF ended THEN committed ELSE view
    /\ saves' = IF ended THEN <<>> ELSE saves
    /\ frames' = [frames EXCEPT ![t] = Popped(t, {})]
    /\ UNCHANGED <<committed, raising, loose, kept, drawn>>

\* Variant for mutation: only the outermost block rolls back.
ExitRollbackOuter(t) ==
    /\ t \in raising
    /\ Leaving(t)
    /\ saves' = IF saves = <<>> THEN saves ELSE SubSeq(saves, 1, Len(saves) - 1)
    /\ view' = IF depth = 1 THEN committed ELSE view
    /\ inTransaction' = (inTransaction /\ depth > 1)
    /\ frames' = [frames EXCEPT ![t] = Popped(t, {})]
    /\ raising' = IF Level(t) = 1 THEN raising \ {t} ELSE raising
    /\ UNCHANGED <<committed, loose, kept, drawn, connFaults>>

(* __exit__ with an exception: ROLLBACK, or ROLLBACK TO and RELEASE.  When   *)
(* there is no transaction any more the outermost block does nothing and an *)
(* inner one raises anew.                                                   *)
ExitRollback(t) ==
    /\ t \in raising
    /\ Leaving(t)
    /\ IF inTransaction
       THEN /\ view' = saves[Len(saves)]
            /\ saves' = SubSeq(saves, 1, Len(saves) - 1)
            /\ inTransaction' = (Len(saves) > 1)
       ELSE UNCHANGED <<view, saves, inTransaction>>
    /\ frames' = [frames EXCEPT ![t] = Popped(t, {})]
    /\ raising' = IF Level(t) = 1 THEN raising \ {t} ELSE raising
    /\ UNCHANGED <<committed, loose, kept, drawn, connFaults>>

(* The process ends and a new one connects. *)
Reconnect ==
    /\ Fault
    /\ lockOwner' = NoThread
    /\ lockCount' = 0
    /\ depth' = 0
    /\ inTransaction' = FALSE
    /\ saves' = <<>>
    /\ view' = committed
    /\ raising' = {}
    /\ frames' = [t \in Threads |-> <<>>]
    /\ adrift' = FALSE
    /\ UNCHANGED <<committed, loose, kept, drawn>>

ConnNext ==
    \/ \E t \in Threads :
          \/ Enter(t) \/ EnterRaises(t)
          \/ \E w \in Writes : Execute(t, w)
          \/ Raise(t) \/ Abort(t) \/ Swallow(t)
          \/ ExitRelease(t) \/ ExitCommit(t) \/ ExitRollback(t)
          \/ \E ended \in BOOLEAN : ExitCommitFails(t, ended)
    \/ Reconnect

ConnSpec == ConnInit /\ [][ConnNext]_connVars

-----------------------------------------------------------------------------
(* Properties *)

(* Types of the lock, the transaction and the blocks. *)
ConnTypeOK ==
    /\ lockOwner \in Threads \cup {NoThread} /\ lockCount \in Nat
    /\ depth \in Nat
    /\ inTransaction \in BOOLEAN
    /\ saves \in Seq(SUBSET Writes)
    /\ view \subseteq Writes /\ committed \subseteq Writes
    /\ raising \subseteq Threads
    /\ frames \in [Threads -> Seq(SUBSET Writes)]
    /\ adrift \in BOOLEAN /\ loose \subseteq Writes
    /\ kept \subseteq Writes /\ drawn \subseteq Writes
    /\ connFaults \in Nat

(* A block that ends normally is in the database with all its writes, those *)
(* of the inner blocks that ended normally included; nothing else ever is:  *)
(* not a block or an inner block that raised, whoever swallowed that, nor a *)
(* block whose COMMIT failed, whatever is executed on the connection later. *)
(* The one exception is a block that goes on after SQLite has ended its     *)
(* transaction, because its caller swallowed the error (worker.py:541):     *)
(* what it had written is lost although it ends normally, and only what it  *)
(* writes from then on, committed piece by piece, is left open here.        *)
WholeBlocks == committed \ loose = kept

(* Threads take turns: whoever is inside a block holds the lock as often as *)
(* it is nested, _tx_depth says how deep, and nobody else is inside.  Only  *)
(* a transaction that a failed COMMIT left open makes the lock leak.        *)
LockFollowsBlocks ==
    ~Wedged =>
        /\ \A t \in Threads : Level(t) > 0 => lockOwner = t
        /\ lockOwner # NoThread => lockCount = Level(lockOwner)
        /\ lockOwner = NoThread => lockCount = 0
        /\ depth = lockCount

(* `with conn:` is what db.py:29 calls it, but for that exception: atomic,  *)
(* on the database and among the threads.                                   *)
BlocksAreAtomic == WholeBlocks /\ LockFollowsBlocks

=============================================================================
