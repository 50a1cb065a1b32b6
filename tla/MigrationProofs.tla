-------------------------- MODULE MigrationProofs --------------------------
(***************************************************************************)
(* Proofs about Migration, for any instances, releases, broken scripts and *)
(* number of faults.                                                       *)
(***************************************************************************)
EXTENDS Migration, TLAPS

-----------------------------------------------------------------------------
(* Facts about the data.                                                   *)

\* The versions of a database migrated n times are a sequence of length n,
\* and one more migration appends version n.
LEMMA UpToFacts ==
    ASSUME NEW n \in Nat
    PROVE  /\ UpTo(n) \in Seq(Nat)
           /\ Len(UpTo(n)) = n
           /\ Append(UpTo(n), n) = UpTo(n + 1)
BY DEF UpTo

\* The highest version of a table with rows 0 .. n is n.
LEMMA MaxOfVersions ==
    ASSUME NEW n \in Nat
    PROVE  Max(0..n) = n
<1>1. n \in 0..n /\ \A y \in 0..n : n >= y
  OBVIOUS
<1>2. \A x \in 0..n : (\A y \in 0..n : x >= y) => x = n
  BY <1>1
<1> QED
  BY <1>1, <1>2 DEF Max

\* The initial states satisfy the inductive invariant.
LEMMA InitIInv == Init => IInv
<1> SUFFICES ASSUME Init PROVE IInv
  OBVIOUS
<1> USE MigrationAssumption
<1>1. PICK n \in Existing : /\ schema = UpTo(n)
                            /\ versions = 0..(n - 1)
                            /\ tableExists = (n > 0)
  BY DEF Init
<1>2. n \in Nat /\ schema \in Seq(Nat) /\ Len(schema) = n
  BY <1>1, UpToFacts
<1>3. TypeOK
  BY <1>1, <1>2 DEF TypeOK, Init, Locations, Calling, Critical, Effects
<1>4. VersionTableIsTruthful
  BY <1>1, <1>2 DEF VersionTableIsTruthful
<1>5. LockExcludes /\ LockIsInUse /\ EffectsAreLocked
  BY DEF Init, LockExcludes, LockIsInUse, EffectsAreLocked, Critical
<1>6. ASSUME NEW i \in Instances PROVE Knows(i, pc[i], nextVersion[i], did[i])
  BY <1>2 DEF Init, Knows
<1> QED
  BY <1>3, <1>4, <1>5, <1>6 DEF IInv

-----------------------------------------------------------------------------
(* Steps of one instance.                                                  *)

\* What the highest version reads as, in a table that is not empty.
LEMMA HighestVersion ==
    ASSUME IInv, versions # {}
    PROVE  Max(versions) = Len(schema) - 1 /\ Len(schema) > 0
<1>1. Len(schema) \in Nat /\ versions = 0..(Len(schema) - 1)
  BY DEF IInv, TypeOK, VersionTableIsTruthful
<1>2. Len(schema) > 0
  BY <1>1
<1> QED
  BY <1>1, <1>2, MaxOfVersions, Len(schema) - 1 \in Nat

\* Committing what a transaction did keeps the table and the schema in step,
\* and the schema never shrinks.
LEMMA PublishKeepsTruth ==
    ASSUME IInv, NEW i \in Instances, pc[i] = "commit", Publish(i)
    PROVE  /\ VersionTableIsTruthful'
           /\ versions' \subseteq Nat /\ schema' \in Seq(Nat) /\ tableExists' \in BOOLEAN
           /\ Len(schema') >= Len(schema)
           /\ did[i] # {} => Len(schema') = nextVersion[i] + 1
<1> DEFINE n == Len(schema)
<1>1. /\ n \in Nat /\ schema = UpTo(n) /\ versions = 0..(n - 1)
      /\ schema \in Seq(Nat)
      /\ tableExists \in BOOLEAN /\ (tableExists <=> n > 0)
  BY DEF IInv, TypeOK, VersionTableIsTruthful
<1>2. did[i] = {} \/ (did[i] = Effects /\ nextVersion[i] = n)
  BY DEF IInv, Knows, EffectsAreLocked, Effects
<1>3. CASE did[i] = {}
  <2>1. schema' = schema /\ versions' = versions
    BY <1>3 DEF Publish
  <2>2. (tableExists' <=> tableExists) /\ tableExists' \in BOOLEAN
    BY <1>3 DEF Publish
  <2> QED
    BY <1>1, <1>3, <2>1, <2>2 DEF VersionTableIsTruthful
<1>4. CASE did[i] = Effects /\ nextVersion[i] = n
  <2>1. /\ schema' = Append(schema, n)
        /\ versions' = versions \cup {n}
        /\ tableExists' = (tableExists \/ n = 0)
    BY <1>4 DEF Publish, Effects
  <2>2. schema' = UpTo(n + 1) /\ Len(schema') = n + 1 /\ schema' \in Seq(Nat)
    BY <1>1, <2>1, UpToFacts, n + 1 \in Nat
  <2>3. versions' = 0..n /\ versions' \subseteq Nat
    BY <1>1, <2>1
  <2>4. tableExists'
    <3>1. n = 0 \/ n > 0
      <4> HIDE DEF n
      <4>1. n \in Nat
        BY <1>1
      <4> QED
        BY <4>1
    <3>2. n > 0 => tableExists
      BY <1>1
    <3>3. (tableExists \/ n = 0) => tableExists'
      BY <2>1
    <3> QED
      BY <3>1, <3>2, <3>3
  <2>5. tableExists' \in BOOLEAN
    BY <2>1
  <2> QED
    BY <1>1, <1>4, <2>2, <2>3, <2>4, <2>5 DEF VersionTableIsTruthful, Effects
<1> QED
  BY <1>2, <1>3, <1>4

\* A step of instance i preserves the invariant if it changes the database
\* only under the lock, hands the lock over properly, and arrives where what
\* the instance knows is true.
LEMMA LocalStep ==
    ASSUME IInv, NEW i \in Instances,
           NEW p \in Locations, NEW v \in Nat, NEW d \in SUBSET Effects,
           pc' = [pc EXCEPT ![i] = p],
           nextVersion' = [nextVersion EXCEPT ![i] = v],
           did' = [did EXCEPT ![i] = d],
           faults' \in 0..MaxFaults,
           \/ UNCHANGED db
           \/ /\ lock = i /\ VersionTableIsTruthful' /\ Len(schema') >= Len(schema)
              /\ versions' \subseteq Nat /\ schema' \in Seq(Nat) /\ tableExists' \in BOOLEAN,
           \/ lock' = lock
           \/ lock = NoOne /\ lock' = i
           \/ lock = i /\ lock' \in {NoOne, Orphan},
           p \in Critical => lock' = i,
           lock' = i => p \in Critical \cup {"rollback"},
           d # {} => lock' = i /\ v = Len(schema'),
           Knows(i, p, v, d)'
    PROVE  IInv'
<1> USE MigrationAssumption
<1>1. TypeOK /\ VersionTableIsTruthful
  BY DEF IInv
<1>2. TypeOK' /\ VersionTableIsTruthful'
  <2>1. /\ pc' \in [Instances -> Locations]
        /\ nextVersion' \in [Instances -> Nat]
        /\ did' \in [Instances -> SUBSET Effects]
        /\ lock' \in Instances \cup {NoOne, Orphan}
    BY <1>1 DEF TypeOK
  <2>2. CASE UNCHANGED db
    BY <1>1, <2>1, <2>2 DEF TypeOK, VersionTableIsTruthful, db
  <2>3. CASE /\ VersionTableIsTruthful'
             /\ versions' \subseteq Nat /\ schema' \in Seq(Nat) /\ tableExists' \in BOOLEAN
    BY <2>1, <2>3 DEF TypeOK
  <2> QED
    BY <2>2, <2>3
<1>3. pc'[i] = p /\ nextVersion'[i] = v /\ did'[i] = d
  BY <1>1 DEF TypeOK
<1>4. ASSUME NEW j \in Instances, j # i
      PROVE  /\ Knows(j, pc[j], nextVersion[j], did[j])'
             /\ pc'[j] \in Critical => lock' = j
             /\ lock' = j => pc'[j] \in Critical \cup {"rollback"}
             /\ did'[j] # {} => lock' = j /\ nextVersion'[j] = Len(schema')
  <2>1. /\ Knows(j, pc[j], nextVersion[j], did[j])
        /\ pc[j] \in Critical => lock = j
        /\ lock = j => pc[j] \in Critical \cup {"rollback"}
        /\ did[j] # {} => lock = j /\ nextVersion[j] = Len(schema)
    BY <1>4 DEF IInv, LockExcludes, LockIsInUse, EffectsAreLocked
  <2>2. pc'[j] = pc[j] /\ nextVersion'[j] = nextVersion[j] /\ did'[j] = did[j]
    BY <1>1, <1>4 DEF TypeOK
  <2>3. lock = j <=> lock' = j
    BY <1>4
  <2>4. Release[j] \in Nat /\ Len(schema) \in Nat /\ Len(schema') \in Nat
    BY <1>1, <1>2, <1>4 DEF TypeOK
  <2>5. CASE UNCHANGED db
    BY <2>1, <2>2, <2>3, <2>5 DEF Knows, db
  <2>6. CASE lock = i /\ Len(schema') >= Len(schema)
    BY <1>4, <2>1, <2>2, <2>3, <2>4, <2>6 DEF Knows, Critical
  <2> QED
    BY <2>5, <2>6
<1>5. LockExcludes' /\ LockIsInUse' /\ EffectsAreLocked'
  BY <1>3, <1>4 DEF LockExcludes, LockIsInUse, EffectsAreLocked
<1>6. ASSUME NEW j \in Instances
      PROVE  Knows(j, pc[j], nextVersion[j], did[j])'
  <2>1. CASE j = i
    BY <1>3, <2>1 DEF Knows
  <2> QED
    BY <1>4, <2>1
<1> QED
  BY <1>2, <1>5, <1>6 DEF IInv

-----------------------------------------------------------------------------
(* Every action keeps the invariant.                                       *)

\* What the invariant says about the instance that acts.
LEMMA Acting ==
    ASSUME IInv, NEW i \in Instances
    PROVE  /\ nextVersion[i] \in Nat /\ did[i] \in SUBSET Effects /\ Release[i] \in Nat
           /\ pc = [pc EXCEPT ![i] = pc[i]]
           /\ nextVersion = [nextVersion EXCEPT ![i] = nextVersion[i]]
           /\ did = [did EXCEPT ![i] = did[i]]
           /\ faults \in 0..MaxFaults
           /\ schema \in Seq(Nat) /\ Len(schema) \in Nat
           /\ Knows(i, pc[i], nextVersion[i], did[i])
           /\ pc[i] \in Critical => lock = i
           /\ lock = i => pc[i] \in Critical \cup {"rollback"}
           /\ did[i] # {} => lock = i /\ nextVersion[i] = Len(schema)
           /\ NoOne # i /\ Orphan # i /\ NoOne # Orphan
BY MigrationAssumption DEF IInv, TypeOK, LockExcludes, LockIsInUse, EffectsAreLocked

\* Before and after the loop of Migrate, and when it asks for the lock.
LEMMA OutsideTransaction ==
    ASSUME IInv, NEW i \in Instances,
           ReturnNil(i) \/ Begin(i) \/ BeginFails(i) \/ AcquireLock(i) \/ Restart(i) \/ Redeploy(i)
    PROVE  IInv'
<1> USE DEF Goto, Locations, Calling, Critical
<1>1. CASE ReturnNil(i)
  <2>1. Knows(i, "done", nextVersion[i], {})'
    BY <1>1, Acting DEF ReturnNil, Knows, db
  <2>2. /\ pc' = [pc EXCEPT ![i] = "done"] /\ pc[i] = "loop" /\ did[i] = {}
        /\ UNCHANGED <<db, lock, nextVersion, did, faults>>
    BY <1>1, Acting DEF ReturnNil, Knows
  <2> QED
    BY <2>1, <2>2, Acting, LocalStep
<1>2. CASE Begin(i)
  <2>1. Knows(i, "lock", nextVersion[i], {})'
    BY <1>2, Acting DEF Begin, Knows, db
  <2> QED
    BY <1>2, <2>1, Acting, LocalStep DEF Begin, Knows
<1>3. CASE BeginFails(i)
  <2>1. Knows(i, "failed", nextVersion[i], {})'
    BY <1>3, Acting DEF BeginFails, Knows, db
  <2>2. faults' \in 0..MaxFaults
    BY <1>3, Acting, MigrationAssumption DEF BeginFails, Fault
  <2> QED
    BY <1>3, <2>1, <2>2, Acting, LocalStep DEF BeginFails, Knows
<1>4. CASE AcquireLock(i)
  <2>1. Knows(i, "check", nextVersion[i], {})'
    BY <1>4, Acting DEF AcquireLock, Knows, db
  <2> QED
    BY <1>4, <2>1, Acting, LocalStep DEF AcquireLock, Knows
<1>5. ASSUME NEW from \in {"failed", "down", "done"}, Start(i, from) PROVE IInv'
  <2>1. Knows(i, "loop", 0, {})'
    BY <1>5, Acting DEF Start, Knows, db
  <2> QED
    BY <1>5, <2>1, Acting, LocalStep DEF Start, Knows
<1>6. CASE Restart(i) \/ Redeploy(i)
  BY <1>5, <1>6 DEF Restart, Redeploy
<1> QED
  BY <1>1, <1>2, <1>3, <1>4, <1>6

\* Reading the version, executing the script and inserting the row.
LEMMA InTransaction ==
    ASSUME IInv, NEW i \in Instances,
           \/ CheckTable(i) \/ ReadMax(i) \/ ApplyScript(i) \/ ScriptFails(i)
           \/ InsertVersion(i) \/ StatementFails(i)
    PROVE  IInv'
<1> USE DEF Goto, Locations, Calling, Critical
<1>1. CASE CheckTable(i)
  <2>1. CASE tableExists /\ Goto(i, "check", "max") /\ UNCHANGED nextVersion
    <3>1. Knows(i, "max", nextVersion[i], {})'
      BY <1>1, <2>1, Acting DEF CheckTable, Knows, db
    <3> QED
      BY <1>1, <2>1, <3>1, Acting, LocalStep DEF CheckTable, Knows
  <2>2. CASE SetNext(i, "check", -1)
    <3>1. pc[i] = "check" /\ 0 < Release[i]
      BY <2>2, Acting DEF SetNext, Knows
    <3>2. pc' = [pc EXCEPT ![i] = "apply"] /\ nextVersion' = [nextVersion EXCEPT ![i] = 0]
      <4>1. -1 + 1 = 0 /\ ~(0 >= Release[i])
        BY <3>1, Acting
      <4> QED
        BY <2>2, <4>1 DEF SetNext
    <3>3. Knows(i, "apply", 0, {})'
      BY <1>1, <3>1, Acting DEF CheckTable, Knows, db
    <3> QED
      BY <1>1, <3>1, <3>2, <3>3, Acting, LocalStep DEF CheckTable, Knows
  <2> QED
    BY <1>1, <2>1, <2>2 DEF CheckTable
<1>2. CASE ReadMax(i)
  <2>1. pc[i] = "max" /\ UNCHANGED <<db, lock, did, faults>> /\ did[i] = {}
    BY <1>2, Acting DEF ReadMax, SetNext, Knows
  <2>2. versions # {} /\ Len(schema) > 0
    <3>1. Len(schema) > 0
      BY <2>1, Acting DEF Knows, IInv, VersionTableIsTruthful
    <3>2. 0 \in 0..(Len(schema) - 1)
      BY <3>1, Acting
    <3> QED
      BY <3>1, <3>2 DEF IInv, VersionTableIsTruthful
  <2>3. Max(versions) + 1 = Len(schema)
    BY <2>2, HighestVersion, Acting
  <2>4. PICK p \in {"commit", "apply"} :
              p = IF Len(schema) >= Release[i] THEN "commit" ELSE "apply"
    OBVIOUS
  <2>5. PICK v \in Nat : v = Len(schema)
    BY Acting
  <2>6. pc' = [pc EXCEPT ![i] = p] /\ nextVersion' = [nextVersion EXCEPT ![i] = v]
    BY <1>2, <2>2, <2>3, <2>4, <2>5 DEF ReadMax, SetNext
  <2>7. Knows(i, p, v, {})'
    BY <2>1, <2>4, <2>5, Acting DEF Knows, db
  <2>8. lock = i /\ lock' = lock /\ UNCHANGED db /\ faults' \in 0..MaxFaults
    BY <2>1, Acting
  <2>9. did' = [did EXCEPT ![i] = {}]
    BY <2>1, Acting
  <2> QED
    BY <2>4, <2>5, <2>6, <2>7, <2>8, <2>9, Acting, LocalStep
<1>3. CASE ApplyScript(i)
  <2>1. pc[i] = "apply" /\ did[i] = {} /\ nextVersion[i] < Release[i]
    BY <1>3, Acting DEF ApplyScript, Knows
  <2>2. nextVersion[i] = Len(schema)
    <3>1. nextVersion[i] = 0 => ~tableExists
      BY <1>3 DEF ApplyScript, ScriptCanRun
    <3>2. nextVersion[i] = 0 => ~(Len(schema) > 0)
      BY <3>1 DEF IInv, VersionTableIsTruthful
    <3>3. nextVersion[i] \in {0, Len(schema)}
      BY <2>1, Acting DEF Knows
    <3> QED
      BY <3>2, <3>3, Acting
  <2>3. Knows(i, "insert", nextVersion[i], {"script"})'
    BY <1>3, <2>1, Acting DEF ApplyScript, Knows, db
  <2>4. did' = [did EXCEPT ![i] = {"script"}]
    BY <1>3, <2>1 DEF ApplyScript
  <2>5. lock = i /\ lock' = lock /\ UNCHANGED <<db, schema, nextVersion, faults>>
    BY <1>3, <2>1, Acting DEF ApplyScript, db
  <2>6. pc' = [pc EXCEPT ![i] = "insert"] /\ {"script"} \in SUBSET Effects
    BY <1>3 DEF ApplyScript, Effects
  <2> QED
    BY <2>2, <2>3, <2>4, <2>5, <2>6, Acting, LocalStep
<1>4. CASE ScriptFails(i)
  <2>1. Knows(i, "rollback", nextVersion[i], {})'
    BY <1>4, Acting DEF ScriptFails, Knows, db
  <2> QED
    BY <1>4, <2>1, Acting, LocalStep DEF ScriptFails, Knows
<1>5. CASE InsertVersion(i)
  <2>1. /\ pc[i] = "insert" /\ did[i] = {"script"} /\ nextVersion[i] < Release[i]
        /\ UNCHANGED <<db, lock, nextVersion, faults>>
    BY <1>5, Acting DEF InsertVersion, Knows
  <2>2. CASE RowCanBeInserted(i)
    <3>1. pc' = [pc EXCEPT ![i] = "commit"] /\ did' = [did EXCEPT ![i] = Effects]
      BY <1>5, <2>1, <2>2 DEF InsertVersion, Effects
    <3>2. Knows(i, "commit", nextVersion[i], Effects)'
      BY <2>1, Acting DEF Knows, db
    <3> QED
      BY <2>1, <3>1, <3>2, Acting, LocalStep DEF db
  <2>3. CASE ~RowCanBeInserted(i)
    <3>1. pc' = [pc EXCEPT ![i] = "rollback"] /\ UNCHANGED did
      BY <1>5, <2>3 DEF InsertVersion
    <3>2. Knows(i, "rollback", nextVersion[i], did[i])'
      BY <2>1, <3>1, Acting DEF Knows, db
    <3> QED
      BY <2>1, <3>1, <3>2, Acting, LocalStep DEF db
  <2> QED
    BY <2>2, <2>3
<1>6. CASE StatementFails(i)
  <2>1. pc[i] \in {"lock", "check", "max", "apply", "insert"} /\ pc' = [pc EXCEPT ![i] = "rollback"]
    BY <1>6, Zenon DEF StatementFails
  <2>2. UNCHANGED <<db, lock, nextVersion, did>> /\ faults' \in 0..MaxFaults
    BY <1>6, Acting, MigrationAssumption DEF StatementFails, Fault
  <2>3. Knows(i, "rollback", nextVersion[i], did[i])'
    BY <2>1, <2>2, Acting DEF Knows, db
  <2>4. did[i] # {} => lock' = i /\ nextVersion[i] = Len(schema')
    BY <2>2, Acting DEF db
  <2>5. "rollback" \in Locations /\ "rollback" \notin Critical
    OBVIOUS
  <2> HIDE DEF Locations, Critical, Calling
  <2> QED
    BY <2>1, <2>2, <2>3, <2>4, <2>5, Acting, LocalStep
<1> QED
  BY <1>1, <1>2, <1>3, <1>4, <1>5, <1>6

\* Ending the transaction, on every path, and the death of the process.
LEMMA EndOfTransaction ==
    ASSUME IInv, NEW i \in Instances,
           Commit(i) \/ CommitFails(i) \/ Rollback(i) \/ RollbackFails(i) \/ Crash(i)
    PROVE  IInv'
<1> USE DEF Goto, Locations, Calling, Critical
<1>1. ASSUME NEW p \in {"failed", "down"}, NEW v \in Nat PROVE Knows(i, p, v, {})'
  BY <1>1 DEF Knows
<1>2. faults' \in 0..MaxFaults
  BY Acting, MigrationAssumption
  DEF Commit, CommitFails, Rollback, RollbackFails, Crash, Fault
<1>3. did' = [did EXCEPT ![i] = {}]
  BY DEF Commit, CommitFails, Rollback, RollbackFails, Crash, Forget
<1>4. ASSUME pc[i] = "commit", Publish(i)
      PROVE  /\ lock = i /\ VersionTableIsTruthful' /\ Len(schema') >= Len(schema)
             /\ versions' \subseteq Nat /\ schema' \in Seq(Nat) /\ tableExists' \in BOOLEAN
             /\ did[i] # {} => Len(schema') = nextVersion[i] + 1
             /\ did[i] = {} => Len(schema') >= Release[i]
  <2>1. did[i] = {} => Len(schema) >= Release[i]
    BY <1>4, Acting DEF Knows, Effects
  <2>2. Len(schema) \in Nat /\ Len(schema') \in Nat /\ Release[i] \in Nat
    BY <1>4, PublishKeepsTruth, Acting
  <2> QED
    BY <1>4, <2>1, <2>2, PublishKeepsTruth, Acting
<1>5. ASSUME Unlock(i) \/ Abandon(i)
      PROVE  (lock' = lock \/ (lock = i /\ lock' \in {NoOne, Orphan})) /\ lock' # i
  BY <1>5, Acting DEF Unlock, Abandon
<1>6. CASE Commit(i)
  <2>1. pc[i] = "commit" /\ Publish(i) /\ Unlock(i)
    BY <1>6 DEF Commit
  <2>2. PICK v \in Nat : v = nextVersion[i] + 1
    BY Acting
  <2>3. Knows(i, "loop", v, {})'
    <3>1. v >= Release[i] => Len(schema') >= Release[i]
      BY <1>4, <2>1, <2>2, Acting
    <3> QED
      BY <3>1 DEF Knows
  <2>4. pc' = [pc EXCEPT ![i] = "loop"] /\ nextVersion' = [nextVersion EXCEPT ![i] = v]
    BY <1>6, <2>2 DEF Commit
  <2>5. /\ lock = i /\ VersionTableIsTruthful' /\ Len(schema') >= Len(schema)
        /\ versions' \subseteq Nat /\ schema' \in Seq(Nat) /\ tableExists' \in BOOLEAN
    BY <1>4, <2>1
  <2>6. (lock' = lock \/ (lock = i /\ lock' \in {NoOne, Orphan})) /\ lock' # i
    BY <1>5, <2>1
  <2>7. "loop" \in Locations /\ "loop" \notin Critical /\ {} \in SUBSET Effects
    OBVIOUS
  <2> QED
    BY <1>2, <1>3, <2>2, <2>3, <2>4, <2>5, <2>6, <2>7, LocalStep
<1>7. CASE CommitFails(i) \/ Rollback(i) \/ RollbackFails(i) \/ Crash(i)
  <2>1. PICK p \in {"failed", "down"} : pc' = [pc EXCEPT ![i] = p]
    BY <1>7 DEF CommitFails, Rollback, RollbackFails, Crash
  <2>2. PICK v \in Nat : v = nextVersion[i]
    BY Acting
  <2>3. nextVersion' = [nextVersion EXCEPT ![i] = v] /\ Knows(i, p, v, {})'
    BY <1>1, <1>7, <2>2, Acting DEF CommitFails, Rollback, RollbackFails, Crash
  <2>4. Unlock(i) \/ Abandon(i)
    BY <1>7 DEF CommitFails, Rollback, RollbackFails, Crash
  <2>5. UNCHANGED db \/ (pc[i] = "commit" /\ Publish(i))
    BY <1>7 DEF CommitFails, Rollback, RollbackFails, Crash, db
  <2>6. \/ UNCHANGED db
        \/ /\ lock = i /\ VersionTableIsTruthful' /\ Len(schema') >= Len(schema)
           /\ versions' \subseteq Nat /\ schema' \in Seq(Nat) /\ tableExists' \in BOOLEAN
    BY <1>4, <2>5
  <2>7. (lock' = lock \/ (lock = i /\ lock' \in {NoOne, Orphan})) /\ lock' # i
    BY <1>5, <2>4
  <2>8. p \in Locations /\ p \notin Critical /\ {} \in SUBSET Effects
    BY <2>1
  <2> QED
    BY <1>2, <1>3, <2>1, <2>2, <2>3, <2>6, <2>7, <2>8, LocalStep
<1> QED
  BY <1>6, <1>7

\* The server ends the transaction of a dead client.
LEMMA OrphanStep == ASSUME IInv, OrphanAborted PROVE IInv'
<1> USE MigrationAssumption
<1>1. lock = Orphan /\ lock' = NoOne /\ UNCHANGED <<db, pc, nextVersion, did, faults>>
  BY DEF OrphanAborted
<1>2. ASSUME NEW i \in Instances
      PROVE  pc[i] \notin Critical /\ did[i] = {} /\ Knows(i, pc[i], nextVersion[i], did[i])'
  BY <1>1, <1>2, Acting DEF Knows, db
<1>3. TypeOK' /\ VersionTableIsTruthful'
  BY <1>1 DEF IInv, TypeOK, VersionTableIsTruthful, db
<1> QED
  BY <1>1, <1>2, <1>3 DEF IInv, LockExcludes, LockIsInUse, EffectsAreLocked

\* The invariant is inductive.
LEMMA Inductive == IInv /\ [Next]_vars => IInv'
<1> SUFFICES ASSUME IInv, [Next]_vars PROVE IInv'
  OBVIOUS
<1>1. CASE UNCHANGED vars
  BY <1>1 DEF vars, db, IInv, TypeOK, VersionTableIsTruthful, LockExcludes, LockIsInUse,
              EffectsAreLocked, Knows
<1>2. CASE OrphanAborted
  BY <1>2, OrphanStep
<1>3. ASSUME NEW i \in Instances,
             AcquireLock(i) \/ Step(i) \/ Failure(i) \/ Restart(i) \/ Redeploy(i)
      PROVE  IInv'
  BY <1>3, OutsideTransaction, InTransaction, EndOfTransaction DEF Step, Failure
<1> QED
  BY <1>1, <1>2, <1>3 DEF Next

-----------------------------------------------------------------------------
(* The theorems.                                                           *)

\* The inductive invariant holds in every reachable state, for any number of
\* instances of any releases and any number of failures.
THEOREM Invariance == Spec => []IInv
BY InitIInv, Inductive, PTL DEF Spec

\* Types: the loop variable stays a natural number, effects are a script and
\* a row.
THEOREM TypeCorrect == Spec => []TypeOK
<1>1. IInv => TypeOK
  BY DEF IInv
<1> QED
  BY <1>1, Invariance, PTL

\* Mutual exclusion from pg_advisory_xact_lock to the end of the transaction.
THEOREM MutualExclusion == Spec => []LockExcludes
<1>1. IInv => LockExcludes
  BY DEF IInv
<1> QED
  BY <1>1, Invariance, PTL

\* The version table records exactly the scripts that took effect, each once
\* and in order.
THEOREM ExactlyOnceInOrder == Spec => []VersionTableIsTruthful
<1>1. IInv => VersionTableIsTruthful
  BY DEF IInv
<1> QED
  BY <1>1, Invariance, PTL

\* No instance executes a script on the strength of a stale version.
THEOREM NoStaleRead == Spec => []VersionReadIsCurrent
<1>1. IInv => VersionReadIsCurrent
  BY DEF IInv, EffectsAreLocked, VersionReadIsCurrent
<1> QED
  BY <1>1, Invariance, PTL

\* A nil result of Migrate means the release's schema is there.
THEOREM NilMeansMigrated == Spec => []SuccessMeansUpToDate
<1>1. IInv => SuccessMeansUpToDate
  BY DEF IInv, Knows, SuccessMeansUpToDate
<1> QED
  BY <1>1, Invariance, PTL

-----------------------------------------------------------------------------
(* Migration implements SchemaLog: whatever instances, releases and        *)
(* failures do, the database moves by whole migrations, in order, and what *)
(* callers are told agrees with it.                                        *)

\* The abstract variables, as the INSTANCE of SchemaLog substitutes them.
LogVersion == IF versions = {} THEN -1 ELSE Max(versions)
Told(i) == CASE pc[i] \in Calling -> "pending"
             [] pc[i] = "done" -> "ok"
             [] OTHER -> "error"
LogOutcome == [i \in Instances |-> Told(i)]

-----------------------------------------------------------------------------
\* The entry the version table shows is the length of the schema less one.
LEMMA LogVersionIsLength == IInv => LogVersion = Len(schema) - 1
<1> SUFFICES ASSUME IInv PROVE LogVersion = Len(schema) - 1
  OBVIOUS
<1>1. Len(schema) \in Nat /\ versions = 0..(Len(schema) - 1)
  BY DEF IInv, TypeOK, VersionTableIsTruthful
<1>2. CASE versions = {}
  <2>1. ~(Len(schema) > 0)
    <3> SUFFICES ASSUME Len(schema) > 0 PROVE FALSE
      OBVIOUS
    <3>1. 0 \in 0..(Len(schema) - 1)
      BY <1>1
    <3> QED
      BY <1>1, <1>2, <3>1
  <2>2. Len(schema) = 0
    BY <1>1, <2>1
  <2> QED
    BY <1>2, <2>2 DEF LogVersion
<1>3. CASE versions # {}
  BY <1>3, HighestVersion DEF LogVersion
<1> QED
  BY <1>2, <1>3

\* The same after a step.
LEMMA NextLogVersion == IInv' => (LogVersion = Len(schema) - 1)'
BY LogVersionIsLength, PTL

\* What a step of i does to the outcomes: nothing to the others, and to its
\* own what its new location says.
LEMMA OutcomeStep ==
    ASSUME TypeOK, NEW i \in Instances, NEW p, pc' = [pc EXCEPT ![i] = p], NEW o,
           o = CASE p \in Calling -> "pending" [] p = "done" -> "ok" [] OTHER -> "error"
    PROVE  LogOutcome' = [LogOutcome EXCEPT ![i] = o]
<1>1. pc'[i] = p /\ \A j \in Instances \ {i} : pc'[j] = pc[j]
  BY DEF TypeOK
<1>2. \A j \in Instances : Told(j)' = IF j = i THEN o ELSE Told(j)
  BY <1>1 DEF Told
<1> QED
  BY <1>2 DEF LogOutcome

\* Initial states are initial states of the log.
LEMMA RefinesInit == Init => Log!Init
<1> SUFFICES ASSUME Init PROVE Log!Init
  OBVIOUS
<1>1. PICK n \in Existing : schema = UpTo(n)
  BY DEF Init
<1>2. n \in Nat /\ Len(schema) = n
  BY <1>1, UpToFacts, MigrationAssumption
<1>3. LogVersion = n - 1
  BY <1>2, InitIInv, LogVersionIsLength
<1>4. LogOutcome = [i \in Instances |-> "pending"]
  BY DEF Init, LogOutcome, Told, Calling
<1>5. schema = Log!UpTo(n)
  BY <1>1 DEF UpTo, Log!UpTo
<1> QED
  BY <1>3, <1>4, <1>5 DEF Log!Init, LogVersion, LogOutcome, Told

-----------------------------------------------------------------------------
(* Steps of the abstract log.                                              *)

\* A step that touches neither the schema nor an outcome is invisible.
LEMMA Stutters ==
    ASSUME IInv, IInv', schema' = schema, LogOutcome' = LogOutcome
    PROVE  UNCHANGED Log!vars
<1>1. LogVersion' = LogVersion
  BY LogVersionIsLength, NextLogVersion
<1> QED
  BY <1>1 DEF Log!vars, LogVersion, LogOutcome, Told

\* Publishing an effect is one abstract migration.
LEMMA PublishInstalls ==
    ASSUME IInv, IInv', NEW i \in Instances, pc[i] = "commit", Publish(i), did[i] # {}
    PROVE  Log!Install
<1>1. did[i] = Effects /\ nextVersion[i] < Release[i] /\ nextVersion[i] = Len(schema)
  BY Acting DEF Knows
<1>2. schema' = Append(schema, Len(schema)) /\ Len(schema) \in Nat
  BY <1>1, Acting DEF Publish, Effects
<1>3. Len(schema') = Len(schema) + 1
  BY <1>2, Acting
<1>4. LogVersion = Len(schema) - 1 /\ LogVersion' = Len(schema)
  BY <1>2, <1>3, LogVersionIsLength, NextLogVersion
<1>5. /\ LogVersion + 1 < Release[i]
      /\ LogVersion' = LogVersion + 1
      /\ schema' = Append(schema, LogVersion + 1)
  BY <1>1, <1>2, <1>4
<1> QED
  BY <1>5 DEF Log!Install, LogVersion

\* A transaction without effects publishes nothing.
LEMMA EmptyPublish ==
    ASSUME IInv, NEW i \in Instances, Publish(i), did[i] = {}
    PROVE  schema' = schema
BY DEF Publish

\* Every step of an instance is a step of the log or invisible.
LEMMA RefinesLocalStep ==
    ASSUME IInv, IInv', NEW i \in Instances,
           AcquireLock(i) \/ Step(i) \/ Failure(i) \/ Restart(i) \/ Redeploy(i)
    PROVE  [Log!Next]_(Log!vars)
<1> USE DEF Goto
<1>1. TypeOK /\ pc = [pc EXCEPT ![i] = pc[i]] /\ LogOutcome[i] = Told(i)
  BY Acting DEF IInv, LogOutcome
<1>2. LogVersion = Len(schema) - 1 /\ Len(schema) \in Nat
  BY LogVersionIsLength, Acting
<1>3. CASE \/ Begin(i) \/ AcquireLock(i) \/ CheckTable(i) \/ ReadMax(i) \/ ApplyScript(i)
           \/ ScriptFails(i) \/ InsertVersion(i) \/ StatementFails(i)
  <2>1. PICK p \in Calling : pc' = [pc EXCEPT ![i] = p]
    BY <1>3 DEF Begin, AcquireLock, CheckTable, ReadMax, SetNext, ApplyScript,
                ScriptFails, InsertVersion, StatementFails, Calling, Critical
  <2>2. pc[i] \in Calling
    BY <1>3 DEF Begin, AcquireLock, CheckTable, ReadMax, SetNext, ApplyScript,
                ScriptFails, InsertVersion, StatementFails, Calling, Critical
  <2>3. schema' = schema
    BY <1>3 DEF Begin, AcquireLock, CheckTable, ReadMax, ApplyScript,
                ScriptFails, InsertVersion, StatementFails, db
  <2>4. LogOutcome' = [LogOutcome EXCEPT ![i] = "pending"]
    BY <1>1, <2>1, OutcomeStep DEF Calling, Critical
  <2>5. LogOutcome' = LogOutcome
    <3>1. Told(i) = "pending"
      BY <2>2 DEF Told, Calling, Critical
    <3> QED
      BY <1>1, <2>4, <3>1 DEF LogOutcome
  <2> QED
    BY <2>3, <2>5, Stutters
<1>4. CASE Commit(i)
  <2>1. pc[i] = "commit" /\ pc' = [pc EXCEPT ![i] = "loop"] /\ Publish(i)
    BY <1>4 DEF Commit
  <2>2. LogOutcome' = [LogOutcome EXCEPT ![i] = "pending"]
    BY <1>1, <2>1, OutcomeStep DEF Calling
  <2>3. LogOutcome' = LogOutcome
    BY <1>1, <2>1, <2>2 DEF Told, LogOutcome, Calling, Critical
  <2>4. CASE did[i] = {}
    BY <2>1, <2>3, <2>4, EmptyPublish, Stutters
  <2>5. CASE did[i] # {}
    BY <2>1, <2>3, <2>5, PublishInstalls DEF Log!Next, Log!InstallSilently, LogOutcome, Told
  <2> QED
    BY <2>4, <2>5
<1>5. CASE ReturnNil(i)
  <2>1. pc[i] = "loop" /\ pc' = [pc EXCEPT ![i] = "done"] /\ UNCHANGED db
    BY <1>5 DEF ReturnNil
  <2>2. LogOutcome' = [LogOutcome EXCEPT ![i] = "ok"]
    BY <1>1, <2>1, OutcomeStep DEF Calling, Critical
  <2>3. LogOutcome[i] = "pending"
    BY <1>1, <2>1 DEF Told, Calling
  <2>4. LogVersion + 1 >= Release[i]
    BY <1>2, <1>5, <2>1, Acting DEF ReturnNil, Knows
  <2>5. LogVersion' = LogVersion /\ schema' = schema
    BY <2>1 DEF db, LogVersion
  <2> QED
    BY <2>2, <2>3, <2>4, <2>5 DEF Log!Next, Log!Succeed, LogOutcome, LogVersion, Told
<1>6. CASE BeginFails(i) \/ CommitFails(i) \/ Rollback(i) \/ RollbackFails(i) \/ Crash(i)
  <2>1. PICK p \in {"failed", "down"} : pc' = [pc EXCEPT ![i] = p]
    BY <1>6 DEF BeginFails, CommitFails, Rollback, RollbackFails, Crash
  <2>2. LogOutcome' = [LogOutcome EXCEPT ![i] = "error"]
    BY <1>1, <2>1, OutcomeStep DEF Calling, Critical
  <2>3. LogOutcome[i] = "pending"
    BY <1>1, <1>6 DEF Told, BeginFails, CommitFails, Rollback, RollbackFails, Crash,
                      Calling, Critical
  <2>4. schema' = schema \/ (pc[i] = "commit" /\ Publish(i) /\ did[i] # {})
    BY <1>6, EmptyPublish DEF BeginFails, CommitFails, Rollback, RollbackFails, Crash, db
  <2>5. CASE schema' = schema
    <3>1. LogVersion' = LogVersion
      BY <2>5, LogVersionIsLength, NextLogVersion
    <3> QED
      BY <2>2, <2>3, <2>5, <3>1 DEF Log!Next, Log!Fail, LogOutcome, LogVersion, Told
  <2>6. CASE pc[i] = "commit" /\ Publish(i) /\ did[i] # {}
    BY <2>2, <2>3, <2>6, PublishInstalls DEF Log!Next, Log!InstallUnknown, LogOutcome, Told
  <2> QED
    BY <2>4, <2>5, <2>6
<1>7. CASE Restart(i) \/ Redeploy(i)
  <2>1. /\ pc[i] \in {"failed", "down", "done"}
        /\ pc' = [pc EXCEPT ![i] = "loop"] /\ UNCHANGED db
    BY <1>7 DEF Restart, Redeploy, Start
  <2>2. LogOutcome' = [LogOutcome EXCEPT ![i] = "pending"]
    BY <1>1, <2>1, OutcomeStep DEF Calling
  <2>3. LogOutcome[i] # "pending"
    BY <1>1, <2>1 DEF Told, Calling, Critical
  <2>4. LogVersion' = LogVersion /\ schema' = schema
    BY <2>1 DEF db, LogVersion
  <2> QED
    BY <2>2, <2>3, <2>4 DEF Log!Next, Log!Retry, LogOutcome, LogVersion, Told
<1> QED
  BY <1>3, <1>4, <1>5, <1>6, <1>7 DEF Step, Failure

\* Every step of the system is a step of the log or invisible.
LEMMA RefinesNext == IInv /\ IInv' /\ [Next]_vars => [Log!Next]_(Log!vars)
<1> SUFFICES ASSUME IInv, IInv', [Next]_vars PROVE [Log!Next]_(Log!vars)
  OBVIOUS
<1>1. CASE UNCHANGED vars
  BY <1>1, Stutters DEF vars, db, LogOutcome, Told
<1>2. CASE OrphanAborted
  BY <1>2, Stutters DEF OrphanAborted, db, LogOutcome, Told
<1> QED
  BY <1>1, <1>2, RefinesLocalStep DEF Next

-----------------------------------------------------------------------------
\* Migrate implements the log of migrations: the property the runs check on
\* small instances, for every instance of the constants.
THEOREM Refinement == Spec => ImplementsLog
<1>1. Init => Log!Init
  BY RefinesInit
<1>2. IInv /\ IInv' /\ [Next]_vars => [Log!Next]_(Log!vars)
  BY RefinesNext
<1>3. Spec => []IInv
  BY Invariance
<1> QED
  BY <1>1, <1>2, <1>3, PTL DEF Spec, ImplementsLog, Log!Spec
=============================================================================
