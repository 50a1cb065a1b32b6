---------------------------- MODULE MCMigration ----------------------------
(***************************************************************************)
(* Instances of Migration for TLC.                                         *)
(***************************************************************************)
EXTENDS Migration, TLC

CONSTANTS old, new, stray

\* A rolling deployment: the release being replaced, its successor with two
\* more migrations, the last one broken, and an instance that passes the
\* wrong catalog.
RollingRelease == old :> 2 @@ new :> 4 @@ stray :> 2
=============================================================================
