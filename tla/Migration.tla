----------------------------- MODULE Migration -----------------------------
(***************************************************************************)
(* migration.Migrate: the loop every instance of a service runs on startup *)
(* to bring a shared PostgreSQL database to the schema of its release.     *)
(*                                                                         *)
(* Each round is one transaction: take advisory lock 42, read the version  *)
(* the database is at, run the next script, record it in the "version"     *)
(* table, commit.  Instances of several releases run it at once, scripts   *)
(* fail, connections break, processes die and are started again.           *)
(***************************************************************************)
EXTENDS Integers, Sequences, FiniteSetsExt

CONSTANTS
    Instances,      \* service instances sharing one database
    Release,        \* Release[i] = len(m): the scripts instance i carries
    Broken,         \* versions whose script always fails (bad SQL or asset)
    WrongCatalog,   \* instances called with a catalog that is not this one
    Existing,       \* numbers of migrations the database may start with
    NoOne, Orphan,  \* lock holders that are not instances
    MaxFaults       \* bound on crashes and on connection and server errors

ASSUME MigrationAssumption ==
    /\ Release \in [Instances -> Nat]
    /\ Broken \subseteq Nat
    /\ WrongCatalog \subseteq Instances
    /\ Existing \subseteq Nat
    /\ MaxFaults \in Nat
    /\ NoOne \notin Instances /\ Orphan \notin Instances /\ NoOne # Orphan

VARIABLES
    \* the committed database
    tableExists,    \* is there a table "version"
    versions,       \* its rows: the column is UNIQUE, so they are a set
    schema,         \* the versions whose scripts took effect, in order
    lock,           \* holder of pg_advisory_xact_lock(42)
    \* each instance
    pc,
    nextVersion,    \* the loop variable of Migrate
    did,            \* what its open transaction has executed so far
    \* the environment
    faults          \* crashes and errors so far

db == <<tableExists, versions, schema>>
vars == <<db, lock, pc, nextVersion, did, faults>>

Critical == {"check", "max", "apply", "insert", "commit"}
Calling == Critical \cup {"loop", "lock", "rollback"}
Locations == Calling \cup {"done", "failed", "down"}

Effects == {"script", "row"}

TypeOK ==
    /\ tableExists \in BOOLEAN
    /\ versions \subseteq Nat
    /\ schema \in Seq(Nat)
    /\ lock \in Instances \cup {NoOne, Orphan}
    /\ pc \in [Instances -> Locations]
    /\ nextVersion \in [Instances -> Nat]
    /\ did \in [Instances -> SUBSET Effects]
    /\ faults \in 0..MaxFaults

UpTo(n) == [k \in 1..n |-> k - 1]

\* A fresh database, or one that earlier releases brought to some version.
Init ==
    /\ \E n \in Existing : /\ schema = UpTo(n)
                           /\ versions = 0..(n - 1)
                           /\ tableExists = (n > 0)
    /\ lock = NoOne
    /\ pc = [i \in Instances |-> "loop"]
    /\ nextVersion = [i \in Instances |-> 0]
    /\ did = [i \in Instances |-> {}]
    /\ faults = 0

-----------------------------------------------------------------------------
Goto(i, from, to) == pc[i] = from /\ pc' = [pc EXCEPT ![i] = to]

Fault == faults < MaxFaults /\ faults' = faults + 1

\* The transaction of i ends at the server: its locks are released.
Unlock(i) == lock' = IF lock = i THEN NoOne ELSE lock

\* The server has not noticed that i is gone: a lock i held stays held. (A
\* session that only waits for the lock has no effect, and is left out.)
Abandon(i) == lock' = IF lock = i THEN Orphan ELSE lock

Forget(i) == did' = [did EXCEPT ![i] = {}]

\* What the transaction of i did becomes visible to everybody.
Publish(i) ==
    /\ schema' = IF "script" \in did[i] THEN Append(schema, nextVersion[i])
                                        ELSE schema
    /\ versions' = IF "row" \in did[i] THEN versions \cup {nextVersion[i]}
                                       ELSE versions
    /\ tableExists' = (tableExists \/ ("script" \in did[i] /\ nextVersion[i] = 0))

-----------------------------------------------------------------------------
\* The loop condition fails with err == nil: Migrate returns nil.
ReturnNil(i) ==
    /\ nextVersion[i] >= Release[i]
    /\ Goto(i, "loop", "done")
    /\ UNCHANGED <<db, lock, nextVersion, did, faults>>

\* Mutant: the advisory lock is not taken at all.
BeginWithoutLock(i) ==
    /\ nextVersion[i] < Release[i]
    /\ Goto(i, "loop", "check")
    /\ UNCHANGED <<db, lock, nextVersion, did, faults>>

Begin(i) ==
    /\ nextVersion[i] < Release[i]
    /\ Goto(i, "loop", "lock")
    /\ UNCHANGED <<db, lock, nextVersion, did, faults>>

BeginFails(i) ==
    /\ nextVersion[i] < Release[i]
    /\ Fault
    /\ Goto(i, "loop", "failed")
    /\ UNCHANGED <<db, lock, nextVersion, did>>

\* Mutant: pg_try_advisory_xact_lock, its answer ignored.
TryLock(i) ==
    /\ Goto(i, "lock", "check")
    /\ lock' = IF lock = NoOne THEN i ELSE lock
    /\ UNCHANGED <<db, nextVersion, did, faults>>

\* pg_advisory_xact_lock blocks until the lock is free.
AcquireLock(i) ==
    /\ lock = NoOne
    /\ Goto(i, "lock", "check")
    /\ lock' = i
    /\ UNCHANGED <<db, nextVersion, did, faults>>

\* Mutant: the loop variable becomes the current version itself.
SetNextToCurrent(i, from, currentVersion) ==
    /\ nextVersion' = [nextVersion EXCEPT ![i] = currentVersion]
    /\ Goto(i, from, IF currentVersion >= Release[i] THEN "commit" ELSE "apply")

\* *nextVersion = currentVersion + 1, and "nothing to update" when that is
\* past the scripts of this release.
SetNext(i, from, currentVersion) ==
    /\ nextVersion' = [nextVersion EXCEPT ![i] = currentVersion + 1]
    /\ Goto(i, from, IF currentVersion + 1 >= Release[i] THEN "commit" ELSE "apply")

\* Is there a table "version" in the given catalog?  If not, the version is -1.
CheckTable(i) ==
    /\ \/ /\ tableExists /\ i \notin WrongCatalog
          /\ Goto(i, "check", "max")
          /\ UNCHANGED nextVersion
       \/ /\ ~tableExists \/ i \in WrongCatalog
          /\ SetNext(i, "check", -1)
    /\ UNCHANGED <<db, lock, did, faults>>

\* max(version) of an empty table is NULL, which does not scan into an int64.
ReadMax(i) ==
    /\ IF versions = {} THEN Goto(i, "max", "rollback") /\ UNCHANGED nextVersion
                        ELSE SetNext(i, "max", Max(versions))
    /\ UNCHANGED <<db, lock, did, faults>>

\* Script 0 creates the table "version", which fails when there is one.
ScriptCanRun(v) == v \notin Broken /\ (v = 0 => ~tableExists)

ApplyScript(i) ==
    /\ ScriptCanRun(nextVersion[i])
    /\ Goto(i, "apply", "insert")
    /\ did' = [did EXCEPT ![i] = @ \cup {"script"}]
    /\ UNCHANGED <<db, lock, nextVersion, faults>>

ScriptFails(i) ==
    /\ ~ScriptCanRun(nextVersion[i])
    /\ Goto(i, "apply", "rollback")
    /\ UNCHANGED <<db, lock, nextVersion, did, faults>>

\* The column is UNIQUE, and a statement on a missing table fails.
RowCanBeInserted(i) ==
    /\ nextVersion[i] \notin versions
    /\ tableExists \/ nextVersion[i] = 0

\* Mutant: no entry is written into the "version" table.
InsertNothing(i) ==
    /\ Goto(i, "insert", "commit")
    /\ UNCHANGED <<db, lock, nextVersion, did, faults>>

InsertVersion(i) ==
    /\ IF RowCanBeInserted(i)
       THEN Goto(i, "insert", "commit") /\ did' = [did EXCEPT ![i] = @ \cup {"row"}]
       ELSE Goto(i, "insert", "rollback") /\ UNCHANGED did
    /\ UNCHANGED <<db, lock, nextVersion, faults>>

\* A statement fails for a reason outside the model: lock timeout, deadlock
\* victim, broken connection.
StatementFails(i) ==
    /\ Fault
    /\ \E from \in {"lock", "check", "max", "apply", "insert"} : Goto(i, from, "rollback")
    /\ UNCHANGED <<db, lock, nextVersion, did>>

\* Commit, then the nextVersion++ of the loop.
Commit(i) ==
    /\ Goto(i, "commit", "loop")
    /\ Publish(i) /\ Unlock(i) /\ Forget(i)
    /\ nextVersion' = [nextVersion EXCEPT ![i] = @ + 1]
    /\ UNCHANGED faults

\* Mutant: the error of Commit is dropped and the loop goes on.
CommitErrorIgnored(i) ==
    /\ Fault
    /\ Goto(i, "commit", "loop")
    /\ UNCHANGED db /\ Abandon(i) /\ Forget(i)
    /\ nextVersion' = [nextVersion EXCEPT ![i] = @ + 1]

\* Commit returns an error: the server committed and the answer was lost,
\* aborted, or has not noticed yet that the connection is gone.
CommitFails(i) ==
    /\ Fault
    /\ Goto(i, "commit", "failed")
    /\ \/ Publish(i) /\ Unlock(i)
       \/ UNCHANGED db /\ Unlock(i)
       \/ UNCHANGED db /\ Abandon(i)
    /\ Forget(i)
    /\ UNCHANGED nextVersion

\* Mutant: a failed migration is committed.
RollbackCommits(i) ==
    /\ Goto(i, "rollback", "failed")
    /\ Publish(i) /\ Unlock(i) /\ Forget(i)
    /\ UNCHANGED <<nextVersion, faults>>

\* Mutant: Migrate returns the error without ending the transaction.
NoRollback(i) ==
    /\ Goto(i, "rollback", "failed")
    /\ Forget(i)
    /\ UNCHANGED <<db, lock, nextVersion, faults>>

Rollback(i) ==
    /\ Goto(i, "rollback", "failed")
    /\ Unlock(i) /\ Forget(i)
    /\ UNCHANGED <<db, nextVersion, faults>>

\* "error while rolling back transaction": the connection is gone.
RollbackFails(i) ==
    /\ Fault
    /\ Goto(i, "rollback", "failed")
    /\ Abandon(i) /\ Forget(i)
    /\ UNCHANGED <<db, nextVersion>>

-----------------------------------------------------------------------------
\* The process dies; a COMMIT it had already sent may still be executed.
Crash(i) ==
    /\ Fault
    /\ \E from \in Calling : Goto(i, from, "down")
    /\ \/ UNCHANGED db /\ Abandon(i)
       \/ pc[i] = "commit" /\ Publish(i) /\ Unlock(i)
    /\ Forget(i)
    /\ UNCHANGED nextVersion

\* The server notices that a client is gone and aborts its transaction.
OrphanAborted ==
    /\ lock = Orphan
    /\ lock' = NoOne
    /\ UNCHANGED <<db, pc, nextVersion, did, faults>>

\* The service is started again and calls Migrate: its local state is new.
Start(i, from) ==
    /\ Goto(i, from, "loop")
    /\ nextVersion' = [nextVersion EXCEPT ![i] = 0]
    /\ UNCHANGED <<db, lock, did, faults>>

Restart(i) == Start(i, "failed") \/ Start(i, "down")

Redeploy(i) == Start(i, "done")

\* What instance i and the database do when nothing goes wrong.
Step(i) == \/ ReturnNil(i) \/ Begin(i) \/ CheckTable(i) \/ ReadMax(i)
           \/ ApplyScript(i) \/ ScriptFails(i) \/ InsertVersion(i)
           \/ Commit(i) \/ Rollback(i)

Failure(i) == \/ BeginFails(i) \/ StatementFails(i) \/ CommitFails(i)
              \/ RollbackFails(i) \/ Crash(i)

Next == \/ \E i \in Instances : \/ AcquireLock(i) \/ Step(i) \/ Failure(i)
                                \/ Restart(i) \/ Redeploy(i)
        \/ OrphanAborted

Spec == Init /\ [][Next]_vars

\* A running instance keeps executing, the server grants the lock in turn and
\* finds dead clients, and the platform restarts a service that exited.
Fairness == /\ \A i \in Instances : /\ WF_vars(Step(i))
                                    /\ SF_vars(AcquireLock(i))
                                    /\ WF_vars(Restart(i))
            /\ WF_vars(OrphanAborted)

FairSpec == Spec /\ Fairness

-----------------------------------------------------------------------------
\* Between the statement that takes the advisory lock and the end of the
\* transaction, an instance is alone: the comment "the lock is held for the
\* remainder of the current transaction", whatever crashes or disconnects.
LockExcludes == \A i \in Instances : pc[i] \in Critical => lock = i

\* The committed "version" table never lies about the schema: scripts took
\* effect in order, each once, and there is a row for each and no other.
VersionTableIsTruthful ==
    /\ schema = UpTo(Len(schema))
    /\ versions = 0..(Len(schema) - 1)
    /\ tableExists <=> Len(schema) > 0

\* The version an instance read is still the current one while it runs the
\* script that follows it and until it commits (no stale read).
VersionReadIsCurrent ==
    \A i \in Instances : "script" \in did[i] => nextVersion[i] = Len(schema)

\* A call of Migrate that returned nil left the database at the version of
\* its release or a later one, for good, also when other releases, failed
\* commits and dead instances interfered.
SuccessMeansUpToDate ==
    \A i \in Instances : pc[i] = "done" => Len(schema) >= Release[i]

\* What instance i, at p in Migrate with loop variable v and after executing
\* d in its transaction, can rely on.
Knows(i, p, v, d) ==
    /\ p \notin {"insert", "commit", "rollback"} => d = {}
    /\ p \in {"lock", "check", "max", "apply", "insert"} => v < Release[i]
    /\ p = "max" => tableExists
    /\ p = "apply" => v \in {0, Len(schema)}
    /\ p = "insert" => d = {"script"}
    /\ p = "commit" => \/ d = Effects /\ v < Release[i]
                       \/ d = {} /\ Len(schema) >= Release[i]
    /\ p = "loop" /\ v >= Release[i] => Len(schema) >= Release[i]
    /\ p = "done" => Len(schema) >= Release[i]

\* Uncommitted effects exist under the lock only, and are the next version's.
EffectsAreLocked ==
    \A i \in Instances : did[i] # {} => lock = i /\ nextVersion[i] = Len(schema)

\* The lock is held by a transaction that is still open.
LockIsInUse ==
    \A i \in Instances : lock = i => pc[i] \in Critical \cup {"rollback"}

\* The inductive invariant: what each instance knows agrees with the
\* committed database, which only the holder of the lock is about to change.
IInv == /\ TypeOK
        /\ VersionTableIsTruthful
        /\ LockExcludes /\ LockIsInUse
        /\ EffectsAreLocked
        /\ \A i \in Instances : Knows(i, pc[i], nextVersion[i], did[i])

\* The database goes through nothing but whole migrations in order: Migrate
\* implements the abstract log of scripts.
Log == INSTANCE SchemaLog WITH
    version <- IF versions = {} THEN -1 ELSE Max(versions),
    outcome <- [i \in Instances |->
                  CASE pc[i] \in Calling -> "pending"
                    [] pc[i] = "done" -> "ok"
                    [] OTHER -> "error"]

ImplementsLog == Log!Spec

\* Every call of Migrate comes to an end: nobody waits for the lock forever.
CallReturns ==
    \A i \in Instances : pc[i] = "lock" ~> pc[i] \in {"done", "failed", "down"}

\* When the failures end, the database arrives at the version of every
\* release, or stops just before a broken script and stays there.
Converges ==
    <>[](\A i \in Instances \ WrongCatalog :
            Len(schema) >= Release[i] \/ Len(schema) \in Broken)
=============================================================================
