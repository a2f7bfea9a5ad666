---------------------------- MODULE MCBackupService ----------------------------
(***************************************************************************)
(* BackupService for TLC: requests are interchangeable.                    *)
(***************************************************************************)
EXTENDS BackupService, TLC

Symmetry == Permutations(Requests)
=============================================================================
