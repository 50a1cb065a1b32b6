----------------------------- MODULE SchemaLog -----------------------------
(***************************************************************************)
(* What migration.Migrate promises, without transactions, locks or         *)
(* failures: the database schema is a log of migration scripts, installed  *)
(* one at a time and in order, the "version" table always names the last   *)
(* one, and a service that is told its migration succeeded finds every     *)
(* script of its release installed.                                        *)
(***************************************************************************)
EXTENDS Integers, Sequences

CONSTANTS
    Instances,  \* the service instances that call Migrate on this database
    Release,    \* Release[i]: how many scripts instance i carries
    Existing    \* numbers of migrations the database may start with

VARIABLES
    schema,     \* the scripts whose effects are in the database, in order
    version,    \* the highest entry of the "version" table, -1 without one
    outcome     \* what each instance was last told

vars == <<schema, version, outcome>>

\* The version numbers of a database that was migrated n times.
UpTo(n) == [k \in 1..n |-> k - 1]

Init == /\ \E n \in Existing : schema = UpTo(n) /\ version = n - 1
        /\ outcome = [i \in Instances |-> "pending"]

\* One migration: script, version entry and nothing else, all at once.
Install == /\ \E i \in Instances : version + 1 < Release[i]
           /\ version' = version + 1
           /\ schema' = Append(schema, version + 1)

\* A migration may be installed although its instance is told of a failure
\* (its connection broke during the commit).
InstallUnknown(i) == /\ outcome[i] = "pending"
                     /\ Install
                     /\ outcome' = [outcome EXCEPT ![i] = "error"]

InstallSilently == Install /\ UNCHANGED outcome

Succeed(i) == /\ outcome[i] = "pending"
              /\ version + 1 >= Release[i]
              /\ outcome' = [outcome EXCEPT ![i] = "ok"]
              /\ UNCHANGED <<schema, version>>

Fail(i) == /\ outcome[i] = "pending"
           /\ outcome' = [outcome EXCEPT ![i] = "error"]
           /\ UNCHANGED <<schema, version>>

Retry(i) == /\ outcome[i] # "pending"
            /\ outcome' = [outcome EXCEPT ![i] = "pending"]
            /\ UNCHANGED <<schema, version>>

Next == \/ InstallSilently
        \/ \E i \in Instances : \/ InstallUnknown(i) \/ Succeed(i)
                                \/ Fail(i) \/ Retry(i)

Spec == Init /\ [][Next]_vars
============================================================================
