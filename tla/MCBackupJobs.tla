---------------------------- MODULE MCBackupJobs ----------------------------
(***************************************************************************)
(* TLC instances of BackupJobs.  The coroutine slots of a worker are       *)
(* interchangeable.                                                        *)
(***************************************************************************)
EXTENDS BackupJobs, TLC

Slots == Permutations(Tasks)
=============================================================================
