------------------------------ MODULE Recovery ------------------------------
(***************************************************************************)
(* What fsck.ocfs2 promises of an unclean volume: what the journals say    *)
(* the blocks hold never changes, the work left in the slots (journals,    *)
(* local allocs, truncate logs, orphans) only shrinks, and a slot is       *)
(* declared cleanly unmounted only when no work is left anywhere.  The     *)
(* promise is off once it is released: an I/O call failed, the revokes     *)
(* read are not the committed ones, or another node used the volume.       *)
(***************************************************************************)
CONSTANTS Nodes, Work

VARIABLES view, todo, unclean, released

rvars == <<view, todo, unclean, released>>

Init == /\ todo \subseteq Work
        /\ unclean \subseteq Nodes
        /\ released = FALSE

\* A piece of a slot's work is done; the recovered contents are the same.
Progress == /\ todo' \subseteq todo
            /\ todo' # todo
            /\ UNCHANGED <<view, unclean>>

\* Slots are declared cleanly unmounted.
Finish == /\ todo = {}
          /\ unclean' \subseteq unclean
          /\ UNCHANGED <<view, todo>>

Next == \/ UNCHANGED released /\ (Progress \/ Finish)
        \/ released' = TRUE

Spec == Init /\ [][Next]_rvars
=============================================================================
