------------------------------ MODULE MCTaskRun ------------------------------
(***************************************************************************)
(* Small instances of TaskRun: constant values for the .cfg files.          *)
(***************************************************************************)
EXTENDS TaskRun

CONSTANTS r1, r2, cli
=============================================================================
