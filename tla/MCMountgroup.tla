---------------------------- MODULE MCMountgroup ----------------------------
(* Mountgroup on small instances; the .cfg files choose the faults.        *)
EXTENDS Mountgroup, TLC

MCSlots == 0..5

Symmetry == Permutations(Clients)

=============================================================================
