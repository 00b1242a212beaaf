----------------------------- MODULE MCMigrate ------------------------------
(***************************************************************************)
(* Migrate for TLC: the two migrations of today, the first cut to two of   *)
(* its statements, and a third of a build to come.                         *)
(***************************************************************************)
EXTENDS Migrate, TLC

CONSTANTS old, new

MCSize == <<2, 1, 1>>
MCIndexStatement == <<2, 1>>
MCBuild == old :> 2 @@ new :> 3
=============================================================================
