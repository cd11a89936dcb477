---------------------------- MODULE BlockDevice ----------------------------
(***************************************************************************)
(* What a channel of libocfs2 promises its callers: a block device.  A     *)
(* write changes what the device holds and a read that succeeds returns    *)
(* exactly that.  Nothing here knows of a cache; IoCache, the model of     *)
(* libocfs2/unix_io.c, is shown to implement this module.                  *)
(***************************************************************************)
CONSTANTS Blocks,    \* block numbers of the device
          Values     \* contents of a block

VARIABLES disk,      \* contents of the device
          ret        \* what the last read returned, NoRead when it failed

NoRead == [blks |-> <<>>, data |-> <<>>]

Init ==
    /\ disk \in [Blocks -> Values]
    /\ ret = NoRead

\* A read that succeeds: the caller's buffer is what the device holds.
Read ==
    /\ \A k \in DOMAIN ret'.blks : ret'.blks[k] \in Blocks
    /\ ret' = [blks |-> ret'.blks,
               data |-> [k \in DOMAIN ret'.blks |-> disk[ret'.blks[k]]]]
    /\ UNCHANGED disk

\* A new request: a write changes the device, a read has not returned yet.
Request ==
    /\ disk' \in [Blocks -> Values]
    /\ ret' = NoRead

Next == Read \/ Request

Spec == Init /\ [][Next]_<<disk, ret>>

=============================================================================
