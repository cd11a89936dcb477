------------------------------- MODULE MCCpg -------------------------------
(***************************************************************************)
(* Instances of Cpg for TLC.                                               *)
(***************************************************************************)
EXTENDS Cpg, TLC

Everybody == [u \in Uuids |-> Nodes]

\* Nodes and filesystems are interchangeable.
Symmetry == Permutations(Nodes) \cup Permutations(Uuids)

=============================================================================
