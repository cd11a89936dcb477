----------------------------- MODULE MCProtocol -----------------------------
(***************************************************************************)
(* Instances of Protocol for TLC: a cluster of nodes with different        *)
(* versions of the daemon and of the filesystem.                           *)
(***************************************************************************)
EXTENDS Protocol

CONSTANTS n1, n2, n3

V(major, minor) == [major |-> major, minor |-> minor]
Node(d, f) == [daemon |-> d, fs |-> f]

\* An old node, one with a newer filesystem, and one with a newer daemon and
\* another major version of the filesystem.
MCMaxima ==
    { [n \in Nodes |-> CASE n = n1 -> Node(V(1, 0), V(1, 0))
                         [] n = n2 -> Node(V(1, 0), V(1, 255))
                         [] n = n3 -> Node(V(1, 1), V(2, 17))] }

=============================================================================
