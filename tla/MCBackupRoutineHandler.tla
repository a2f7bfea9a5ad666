------------------------ MODULE MCBackupRoutineHandler ------------------------
(***************************************************************************)
(* BackupRoutineHandler for TLC: the namespaces and the executions of the  *)
(* full backup are interchangeable.                                        *)
(***************************************************************************)
EXTENDS BackupRoutineHandler, TLC

Symmetry == Permutations(Namespaces) \cup Permutations(Calls)
=============================================================================
