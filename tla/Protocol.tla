------------------------------ MODULE Protocol ------------------------------
(***************************************************************************)
(* Protocol negotiation between the ocfs2_controld daemons of a cluster    *)
(* (cpg_joined() and its callees in ocfs2_controld/main.c, ckpt.c).  The   *)
(* first daemon of the daemon group stores the versions everybody is to    *)
(* run in the global checkpoint, in two sections; the others wait for them *)
(* in a loop, and stop if they cannot run them.                            *)
(*                                                                         *)
(* OpenAIS is external.  A checkpoint lives as long as somebody has it     *)
(* open ("retention time is 0"), and a process that ended counts until     *)
(* OpenAIS cleans up after it, "in a lazy fashion".                        *)
(***************************************************************************)
EXTENDS Naturals, Sequences

CONSTANTS Nodes,       \* node numbers, one ocfs2_controld each
          Maxima,      \* the maximum protocols the nodes may have
          MaxStarts,   \* bound on daemons that start
          Faults       \* what may happen, a subset of FaultKinds

\* "call": a call to OpenAIS, or one of those that follow the negotiation, fails
\* for good; "early": a daemon ends while others negotiate; "linger": a checkpoint
\* that OpenAIS has yet to clean up can be opened.
FaultKinds == {"call", "early", "linger"}

Version == [major : 0..255, minor : 0..255]

ASSUME ConstAssumption ==
    /\ Maxima \subseteq [Nodes -> [daemon : Version, fs : Version]]
    /\ MaxStarts \in Nat /\ Faults \subseteq FaultKinds

VARIABLES max,         \* daemon_max_proto and fs_max_proto of each node
          pc,          \* where each daemon is
          first,       \* the daemons told that they are first
          seen,        \* the daemons that have seen the global checkpoint
          proto,       \* daemon_running_proto and fs_running_proto
          group,       \* the daemon group
          node_ckpt,   \* the node checkpoints: "none", "open", or "stale"
          handles,     \* the daemons that have the global checkpoint open
          stale,       \* the nodes whose ended daemon had it open
          global,      \* its sections
          starts       \* counter for the bound

vars == <<max, pc, first, seen, proto, group, node_ckpt, handles, stale, global, starts>>

NoSections == [daemon |-> <<>>, fs |-> <<>>]
Incomplete == global.daemon = <<>> \/ global.fs = <<>>

-----------------------------------------------------------------------------
(* Versions.                                                               *)

\* "%02x %02x" and a null, digit by digit.
proto_version_to_checkpoint(v) ==
    <<v.major \div 16, v.major % 16, " ", v.minor \div 16, v.minor % 16, "">>

well_formed(s) == Len(s) = 6 /\ s[3] = " " /\ s[6] = ""

checkpoint_to_proto_version(s) ==
    [major |-> 16 * s[1] + s[2], minor |-> 16 * s[4] + s[5]]

protocol_compatible(cluster, our_max) ==
    cluster.major = our_max.major /\ cluster.minor <= our_max.minor

-----------------------------------------------------------------------------
(* Checkpoints.                                                            *)

Goto(n, to) == pc' = [pc EXCEPT ![n] = to]

\* A process opens the global checkpoint for reading and finds it.
Exists == handles # {} \/ ("linger" \in Faults /\ stale # {})

\* What is left of the sections once the holders are those of h and s.
Kept(h, s) == IF h = {} /\ s = {} THEN NoSections ELSE global

\* OpenAIS notices that a process has ended.
ais_cleanup(n) ==
    /\ stale' = stale \ {n} /\ n \in stale
    /\ global' = Kept(handles, stale')
    /\ UNCHANGED <<max, pc, first, seen, proto, group, node_ckpt, handles, starts>>

ais_cleanup_node(n) ==
    /\ node_ckpt[n] = "stale"
    /\ node_ckpt' = [node_ckpt EXCEPT ![n] = "none"]
    /\ UNCHANGED <<max, pc, first, seen, proto, group, handles, stale, global, starts>>

-----------------------------------------------------------------------------
(* loop(), up to the first change of the daemon group.                     *)

start(n) ==
    /\ pc[n] = "down" /\ Goto(n, "install_node")
    /\ starts < MaxStarts /\ starts' = starts + 1
    /\ UNCHANGED <<max, first, seen, proto, group, node_ckpt, handles, stale, global>>

\* call_ckpt_open() tries again as long as the checkpoint exists.
install_node_checkpoint(n) ==
    /\ pc[n] = "install_node" /\ node_ckpt[n] = "none"
    /\ node_ckpt' = [node_ckpt EXCEPT ![n] = "open"]
    /\ Goto(n, "setup_cpg")
    /\ UNCHANGED <<max, first, seen, proto, group, handles, stale, global, starts>>

setup_cpg(n) ==
    /\ pc[n] = "setup_cpg"
    /\ group' = group \cup {n}
    /\ first' = IF group = {} THEN first \cup {n} ELSE first
    /\ Goto(n, IF group = {} THEN "create" ELSE "open")
    /\ UNCHANGED <<max, seen, proto, node_ckpt, handles, stale, global, starts>>

-----------------------------------------------------------------------------
(* install_global_checkpoint().                                            *)

\* Mutant: an existing checkpoint is taken over.
create_takes_over(n) ==
    /\ pc[n] = "create"
    /\ proto' = [proto EXCEPT ![n] = max[n]]
    /\ handles' = handles \cup {n}
    /\ Goto(n, "store_daemon")
    /\ UNCHANGED <<max, first, seen, group, node_ckpt, stale, global, starts>>

\* ckpt_open_global(1), which waits until no checkpoint of that name is left.
create(n) ==
    /\ pc[n] = "create" /\ handles = {} /\ stale = {}
    /\ proto' = [proto EXCEPT ![n] = max[n]]
    /\ handles' = {n} /\ global' = NoSections
    /\ Goto(n, "store_daemon")
    /\ UNCHANGED <<max, first, seen, group, node_ckpt, stale, starts>>

store_daemon(n) ==
    /\ pc[n] = "store_daemon"
    /\ global' = [global EXCEPT !.daemon = proto_version_to_checkpoint(proto[n].daemon)]
    /\ Goto(n, "store_fs")
    /\ UNCHANGED <<max, first, seen, proto, group, node_ckpt, handles, stale, starts>>

\* Mutant: the second section is forgotten.
store_fs_forgotten(n) ==
    /\ pc[n] = "store_fs" /\ Goto(n, "serve")
    /\ UNCHANGED <<max, first, seen, proto, group, node_ckpt, handles, stale, global, starts>>

store_fs(n) ==
    /\ pc[n] = "store_fs"
    /\ global' = [global EXCEPT !.fs = proto_version_to_checkpoint(proto[n].fs)]
    /\ Goto(n, "serve")
    /\ UNCHANGED <<max, first, seen, proto, group, node_ckpt, handles, stale, starts>>

-----------------------------------------------------------------------------
(* read_global_checkpoint().                                               *)

\* ckpt_open_global(0).  Not there: a daemon that has seen it stops, any other
\* tries again.
open(n) ==
    /\ pc[n] = "open"
    /\ IF Exists
       THEN /\ handles' = handles \cup {n} /\ seen' = seen \cup {n}
            /\ Goto(n, "get_daemon")
       ELSE /\ n \in seen /\ Goto(n, "dying")
            /\ UNCHANGED <<handles, seen>>
    /\ UNCHANGED <<max, first, proto, group, node_ckpt, stale, global, starts>>

\* A section is missing: close the checkpoint and try again.
retry(n) ==
    /\ handles' = handles \ {n}
    /\ global' = Kept(handles', stale)
    /\ Goto(n, "open")
    /\ UNCHANGED proto

\* One section is read: it must hold a version this daemon can run.
get_section(n, s, next) ==
    LET v == checkpoint_to_proto_version(global[s])
        usable == well_formed(global[s]) /\ protocol_compatible(v, max[n][s])
    IN  /\ IF global[s] = <<>> THEN retry(n)
           ELSE /\ proto' = IF well_formed(global[s]) THEN [proto EXCEPT ![n][s] = v] ELSE proto
                /\ Goto(n, IF usable THEN next ELSE "dying")
                /\ UNCHANGED <<handles, global>>
        /\ UNCHANGED <<max, first, seen, group, node_ckpt, stale, starts>>

get_daemon(n) == pc[n] = "get_daemon" /\ get_section(n, "daemon", "get_fs")
get_fs(n) == pc[n] = "get_fs" /\ get_section(n, "fs", "serve")

-----------------------------------------------------------------------------
(* The rest of cpg_joined(), and the daemon's end.                         *)

\* setup_dlmcontrol(), o2cb_control_open(), setup_listener().
serve(n) ==
    /\ pc[n] = "serve" /\ Goto(n, "running")
    /\ UNCHANGED <<max, first, seen, proto, group, node_ckpt, handles, stale, global, starts>>

Negotiating(n) == pc[n] \in {"create", "store_daemon", "store_fs", "open", "get_daemon", "get_fs"}

\* The cluster can do without n: it ends while nobody negotiates.
MayEnd(n) ==
    "early" \in Faults \/ \A m \in Nodes \ {n} : ~Negotiating(m)

\* A call fails, or a signal arrives: shutdown_daemon().
shutdown_daemon(n) ==
    /\ pc[n] = "running" \/ ("call" \in Faults /\ (Negotiating(n) \/ pc[n] = "serve"))
    /\ MayEnd(n)
    /\ Goto(n, "dying")
    /\ UNCHANGED <<max, first, seen, proto, group, node_ckpt, handles, stale, global, starts>>

exit_cpg(n) ==
    /\ pc[n] = "dying"
    /\ group' = group \ {n}
    /\ Goto(n, "left")
    /\ UNCHANGED <<max, first, seen, proto, node_ckpt, handles, stale, global, starts>>

\* The process is gone; OpenAIS will notice.
Gone(n) ==
    /\ handles' = handles \ {n}
    /\ stale' = IF n \in handles THEN stale \cup {n} ELSE stale
    /\ node_ckpt' = [node_ckpt EXCEPT ![n] = IF @ = "open" THEN "stale" ELSE @]
    /\ first' = first \ {n} /\ seen' = seen \ {n}
    /\ Goto(n, "down")
    /\ UNCHANGED <<max, proto, global>>

\* drop_node_checkpoint(), exit_ckpt().
exit_ckpt(n) == pc[n] = "left" /\ Gone(n) /\ UNCHANGED <<group, starts>>

\* The daemon or its node dies.
die(n) ==
    /\ pc[n] # "down" /\ MayEnd(n)
    /\ group' = group \ {n}
    /\ Gone(n)
    /\ UNCHANGED starts

-----------------------------------------------------------------------------

Init ==
    /\ max \in Maxima /\ proto = max
    /\ pc = [n \in Nodes |-> "down"]
    /\ first = {} /\ seen = {} /\ group = {}
    /\ node_ckpt = [n \in Nodes |-> "none"]
    /\ handles = {} /\ stale = {} /\ global = NoSections
    /\ starts = 0

cpg_joined(n) ==
    \/ create(n) \/ store_daemon(n) \/ store_fs(n)
    \/ open(n) \/ get_daemon(n) \/ get_fs(n)
    \/ serve(n)

Progress(n) ==
    \/ install_node_checkpoint(n) \/ setup_cpg(n) \/ cpg_joined(n) \/ exit_cpg(n) \/ exit_ckpt(n)

Next ==
    \E n \in Nodes :
        \/ start(n) \/ Progress(n) \/ shutdown_daemon(n) \/ die(n)
        \/ ais_cleanup(n) \/ ais_cleanup_node(n)

Spec == Init /\ [][Next]_vars

\* A daemon that runs goes on, and OpenAIS cleans up at last.
FairSpec ==
    /\ Spec
    /\ \A n \in Nodes : WF_vars(Progress(n)) /\ WF_vars(ais_cleanup(n))

-----------------------------------------------------------------------------
(* Properties.                                                             *)

Runs(n) == pc[n] \in {"serve", "running"}

\* "All interaction takes place based on the running versions": two daemons that
\* run, run the same versions, whoever stored them and whoever has ended since,
\* and their nodes support these versions.
Agreement ==
    /\ \A m, n \in Nodes : Runs(m) /\ Runs(n) => proto[m] = proto[n]
    /\ \A n \in Nodes, s \in {"daemon", "fs"} :
         Runs(n) => /\ proto[n][s].major = max[n][s].major
                    /\ proto[n][s].minor <= max[n][s].minor

\* The checkpoint is not complete and the daemon that created it is gone.
Stranded ==
    Incomplete /\ first \cap handles = {} /\ (first = {} \/ handles \cup stale # {})

\* Every negotiation comes to an end, unless the first daemon ended in the middle
\* of its own or the checkpoint of an earlier cluster is still in use.
Served ==
    \A n \in Nodes :
        Negotiating(n) ~>
            (~Negotiating(n) \/ Stranded \/ (pc[n] = "create" /\ \E m \in Nodes : Runs(m)))

=============================================================================
