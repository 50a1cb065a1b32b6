---------------------------- MODULE MCDBCleaner ----------------------------
(***************************************************************************)
(* Instances of DBCleaner for TLC.                                         *)
(***************************************************************************)
EXTENDS DBCleaner, TLC

CONSTANTS space, item, event

\* An item belongs to a space, and so does an event, which has no primary key.
MCParent == space :> NoRow @@ item :> space @@ event :> space

\* Goroutines differ in nothing, and no property names one.
Interchangeable == Permutations(Goroutines)

\* No step reads what a cleaner has returned, and the properties look at it in
\* the step that returns it.
AllButReport == <<settings, rows, phase, tests, hooks, tx, hookVars, inserted, ghosts>>
=============================================================================
