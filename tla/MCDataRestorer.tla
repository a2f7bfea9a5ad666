---------------------------- MODULE MCDataRestorer ----------------------------
(***************************************************************************)
(* DataRestorer for TLC: the namespaces are interchangeable.               *)
(***************************************************************************)
EXTENDS DataRestorer, TLC

Symmetry == Permutations(Namespaces)
=============================================================================
