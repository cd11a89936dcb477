-------------------------------- MODULE Cpg --------------------------------
(***************************************************************************)
(* How the ocfs2_controld daemons of a cluster follow each other's coming  *)
(* and going (ocfs2_controld/cpg.c).  Every daemon is in the group         *)
(* "ocfs2:controld" and in one group per filesystem it mounts.  Each group *)
(* has a connection of its own to corosync, so a daemon sees the changes   *)
(* of one group in order but may be further behind in one group than in    *)
(* another.  A node that goes down is looked for in the filesystems when   *)
(* the *daemon* group says so, which tells the kernel and dlm_controld.    *)
(*                                                                         *)
(* corosync is external: a change of a group reaches every member, and a   *)
(* node that leaves, in one order.                                         *)
(***************************************************************************)
EXTENDS Naturals, Sequences, FiniteSets

CONSTANTS Nodes,       \* node numbers, one ocfs2_controld each
          Uuids,       \* filesystems
          Start,       \* the nodes that have each filesystem mounted at first
          MaxDowns,    \* bound on nodes that go down
          MaxChanges,    \* bound on groups joined and left
          Faults       \* what may happen, a subset of FaultKinds

\* "late": a node goes down before the others have handled its joining of a
\* filesystem, or joins one before they have handled its going down.
\* "dlmcontrol": a daemon loses dlm_controld, which ends it; "stop": even while
\* it is joining a filesystem's group.
FaultKinds == {"late", "dlmcontrol", "stop"}

ASSUME ConstAssumption ==
    /\ "controld" \notin Uuids /\ Start \in [Uuids -> SUBSET Nodes]
    /\ MaxDowns \in Nat /\ MaxChanges \in Nat /\ Faults \subseteq FaultKinds

daemon_group == "controld"
Groups == Uuids \cup {daemon_group}

VARIABLES state,       \* of each daemon: "down", "up", or, with time_to_die set,
                       \* "dying", or "lost" in its group members
          member,      \* corosync's members of each group
          confchg,     \* the changes a daemon has yet to read, by group
          revents,     \* the connections the daemon's poll() found readable
          cg,          \* each daemon's struct cgroup of each group
          told,        \* the node-down calls each daemon made, in order
          downs, changes \* counters for the bounds

vars == <<state, member, confchg, revents, cg, told, downs, changes>>

\* group_join(): before the first change arrives.  cg_nodes is "our idea".
Closed == [open |-> FALSE, joined |-> FALSE, members |-> {}, nodes |-> {}]
Opened == [Closed EXCEPT !.open = TRUE]

-----------------------------------------------------------------------------
(* corosync.  A change is about one node: cpg.c takes a change about several *)
(* node by node.                                                           *)

Change(members, n, reason) ==
    [members |-> members, node |-> n, reason |-> reason, number |-> downs + 1]

\* A change of group g reaches the members that remain, and a node that left on
\* its own request.
Deliver(g, members, n, reason) ==
    [d \in Nodes |->
        IF d \in members \/ (d = n /\ reason = "LEAVE")
        THEN [confchg[d] EXCEPT ![g] = Append(@, Change(members, n, reason))]
        ELSE confchg[d]]

\* n drops out of all its groups; why[g] is the reason the others are given.
DropOut(n, why) ==
    /\ member' = [g \in Groups |-> member[g] \ {n}]
    /\ confchg' = [d \in Nodes |-> [g \in Groups |->
                     IF d = n THEN <<>>
                     ELSE IF {d, n} \subseteq member[g]
                     THEN Append(confchg[d][g], Change(member[g] \ {n}, n, why[g]))
                     ELSE confchg[d][g]]]
    /\ state' = [state EXCEPT ![n] = "down"]
    /\ cg' = [cg EXCEPT ![n] = [g \in Groups |-> Closed]]
    /\ revents' = [revents EXCEPT ![n] = {}]
    /\ told' = [told EXCEPT ![n] = <<>>]
    /\ downs' = downs + 1
    /\ UNCHANGED changes

Pending(d, g) == {confchg[d][g][i] : i \in DOMAIN confchg[d][g]}

\* No daemon has yet to put n in the nodes of a filesystem.
JoinSeen(n) ==
    \A d \in Nodes, u \in Uuids : \A e \in Pending(d, u) :
        e.reason = "JOIN" => e.node # n /\ (e.node = d => n \notin e.members)

\* No daemon has yet to look for n, which went down, in its filesystems.
DownSeen(n) ==
    \A d \in Nodes : \A e \in Pending(d, daemon_group) : e.reason = "DOWN" => e.node # n

\* A node fails (NODEDOWN), or its daemon does and the others have the node
\* killed (PROCDOWN).
node_down(n) ==
    /\ state[n] = "up"
    /\ downs + Cardinality({d \in Nodes : state[d] = "dying"}) < MaxDowns
    /\ "late" \in Faults \/ JoinSeen(n)
    /\ DropOut(n, [g \in Groups |-> "DOWN"])

\* The daemon of n starts and joins the daemon group.
setup_cpg(n) ==
    /\ state[n] = "down"
    /\ state' = [state EXCEPT ![n] = "up"]
    /\ cg' = [cg EXCEPT ![n][daemon_group] = Opened]
    /\ member' = [member EXCEPT ![daemon_group] = @ \cup {n}]
    /\ confchg' = Deliver(daemon_group, member'[daemon_group], n, "JOIN")
    /\ UNCHANGED <<revents, told, downs, changes>>

-----------------------------------------------------------------------------
(* Joining and leaving the group of a filesystem.                          *)

\* group_join() succeeds: what init_group() does when corosync refuses is not
\* modelled, and no node joins then.
group_join(d, u) ==
    /\ state[d] = "up" /\ cg[d][daemon_group].joined /\ ~cg[d][u].open
    /\ changes < MaxChanges
    /\ "late" \in Faults \/ DownSeen(d)
    /\ cg' = [cg EXCEPT ![d][u] = Opened]
    /\ member' = [member EXCEPT ![u] = @ \cup {d}]
    /\ confchg' = Deliver(u, member'[u], d, "JOIN")
    /\ changes' = changes + 1
    /\ UNCHANGED <<state, revents, told, downs>>

\* group_leave() refuses a group that is not joined; remove_service() of mount.c
\* asks once.
group_leave(d, u) ==
    /\ state[d] = "up" /\ cg[d][u].joined /\ d \in member[u]
    /\ changes < MaxChanges
    /\ member' = [member EXCEPT ![u] = @ \ {d}]
    /\ confchg' = Deliver(u, member'[u], d, "LEAVE")
    /\ changes' = changes + 1
    /\ UNCHANGED <<state, revents, cg, told, downs>>

-----------------------------------------------------------------------------
(* Handling a change.                                                      *)

push_node(c, S) == [c EXCEPT !.nodes = @ \cup S]
pop_node(c, n) == [c EXCEPT !.nodes = @ \ {n}]

\* The nodes that a JOIN adds to our idea of the group: at our own, all members.
Pushed(c, d, e) ==
    IF e.reason # "JOIN" THEN {}
    ELSE IF e.node # d THEN {e.node}
    ELSE IF c.joined THEN {} ELSE e.members

handle_node_join(c, d, e) ==
    [push_node(c, Pushed(c, d, e)) EXCEPT !.joined = @ \/ (e.reason = "JOIN" /\ e.node = d)]

\* A node that went down is left to daemon_change().  Our own leave frees the
\* group, in finalize_group().
handle_node_leave(c, d, e) ==
    IF e.reason # "LEAVE" THEN c
    ELSE IF e.node = d THEN Closed ELSE pop_node(c, e.node)

\* push_node() of a node that is already there calls shutdown_daemon().
group_change(d, u, e) ==
    LET c == [cg[d][u] EXCEPT !.members = e.members]
    IN  /\ cg' = [cg EXCEPT ![d][u] = handle_node_leave(handle_node_join(c, d, e), d, e)]
        /\ state' = IF Pushed(c, d, e) \cap c.nodes = {} THEN state
                    ELSE [state EXCEPT ![d] = "lost"]
        /\ UNCHANGED told

\* The groups of d, but the daemon group, that have n among their nodes.
Shared(d, n) == {u \in Uuids : n \in cg[d][u].nodes}

\* Mutant: the node stays in cg_nodes after the filesystem was told.
handle_node_down_no_pop(d, e) ==
    /\ cg' = [cg EXCEPT ![d][daemon_group].joined = TRUE]
    /\ told' = [told EXCEPT ![d] = IF Shared(d, e.node) = {} THEN @
                  ELSE Append(@, [number |-> e.number, uuids |-> Shared(d, e.node)])]

\* cg_node_down() of every filesystem that n is part of: mount_node_down().
handle_node_down(d, e) ==
    /\ cg' = [cg EXCEPT ![d] = [g \in Groups |->
                IF g = daemon_group THEN [@[g] EXCEPT !.joined = TRUE, !.members = e.members]
                ELSE pop_node(@[g], e.node)]]
    /\ told' = [told EXCEPT ![d] = IF Shared(d, e.node) = {} THEN @
                  ELSE Append(@, [number |-> e.number, uuids |-> Shared(d, e.node)])]

\* Mutant: every change of the daemon group is taken for a failure.
daemon_change_any_reason(d, e) ==
    handle_node_down(d, e) /\ UNCHANGED state

\* A LEAVE of the daemon group is not acted upon.
daemon_change(d, e) ==
    /\ IF e.reason = "DOWN" THEN handle_node_down(d, e)
       ELSE /\ cg' = [cg EXCEPT ![d][daemon_group].joined = TRUE,
                                ![d][daemon_group].members = e.members]
            /\ UNCHANGED told
    /\ UNCHANGED state

\* Mutant: the groups of the filesystems act on a failure themselves, and the
\* daemon group does not.
process_cpg_down_by_group(d, g) ==
    LET e == Head(confchg[d][g])
        down == g # daemon_group /\ e.reason = "DOWN" /\ e.node \in cg[d][g].nodes
    IN  /\ state[d] = "up" /\ g \in revents[d]
        /\ g = daemon_group \/ daemon_group \notin revents[d]
        /\ IF e.reason # "DOWN" THEN IF g = daemon_group THEN daemon_change(d, e)
                                     ELSE group_change(d, g, e)
           ELSE /\ cg' = [cg EXCEPT ![d][g] = pop_node(@, e.node)]
                /\ told' = IF down THEN [told EXCEPT ![d] =
                                           Append(@, [number |-> e.number, uuids |-> {g}])]
                           ELSE told
                /\ UNCHANGED state
        /\ confchg' = [confchg EXCEPT ![d][g] = Tail(@)]
        /\ revents' = [revents EXCEPT ![d] = @ \ {g}]
        /\ UNCHANGED <<member, downs, changes>>

\* One connection that poll() found readable: CPG_DISPATCH_ONE and the change
\* it brought.  The daemon group has the first entry of the client array.
process_cpg(d, g) ==
    /\ state[d] = "up" /\ g \in revents[d]
    /\ g = daemon_group \/ daemon_group \notin revents[d]
    /\ IF g = daemon_group THEN daemon_change(d, Head(confchg[d][g]))
       ELSE group_change(d, g, Head(confchg[d][g]))
    /\ confchg' = [confchg EXCEPT ![d][g] = Tail(@)]
    /\ revents' = [revents EXCEPT ![d] = @ \ {g}]
    /\ UNCHANGED <<member, downs, changes>>

\* A pass of loop() is over: poll() again.
poll(d) ==
    /\ state[d] = "up" /\ revents[d] = {}
    /\ revents' = [revents EXCEPT ![d] = {g \in Groups : confchg[d][g] # <<>>}]
    /\ revents'[d] # {}
    /\ UNCHANGED <<state, member, confchg, cg, told, downs, changes>>

\* dead_dlmcontrol() calls shutdown_daemon().
dead_dlmcontrol(d) ==
    /\ "dlmcontrol" \in Faults /\ state[d] = "up"
    /\ downs + Cardinality({n \in Nodes : state[n] = "dying"}) < MaxDowns
    /\ "stop" \in Faults \/ \A u \in Uuids : cg[d][u].open => cg[d][u].joined
    /\ state' = [state EXCEPT ![d] = "dying"]
    /\ UNCHANGED <<member, confchg, revents, cg, told, downs, changes>>

\* loop() stops.  finish_leave() exits at once when a filesystem's group is
\* live; otherwise exit_cpg() leaves the daemon group.
exit_cpg(d) ==
    /\ state[d] \in {"dying", "lost"}
    /\ "late" \in Faults \/ JoinSeen(d)
    /\ DropOut(d, [g \in Groups |->
         IF g = daemon_group /\ \A u \in Uuids : cg[d][u].joined => d \notin member[u]
         THEN "LEAVE" ELSE "DOWN"])

-----------------------------------------------------------------------------

\* A cluster at rest: its daemons run and have the filesystems of Start mounted.
Init ==
    /\ state = [d \in Nodes |-> "up"]
    /\ member = [g \in Groups |-> IF g = daemon_group THEN Nodes ELSE Start[g]]
    /\ confchg = [d \in Nodes |-> [g \in Groups |-> <<>>]]
    /\ revents = [d \in Nodes |-> {}]
    /\ cg = [d \in Nodes |-> [g \in Groups |->
               IF g = daemon_group THEN [Opened EXCEPT !.joined = TRUE, !.members = Nodes]
               ELSE IF d \in Start[g]
               THEN [open |-> TRUE, joined |-> TRUE, members |-> Start[g], nodes |-> Start[g]]
               ELSE Closed]]
    /\ told = [d \in Nodes |-> <<>>]
    /\ downs = 0 /\ changes = 0

Loop(d) == poll(d) \/ (\E g \in Groups : process_cpg(d, g)) \/ exit_cpg(d)

Next ==
    \E d \in Nodes :
        \/ node_down(d) \/ setup_cpg(d) \/ dead_dlmcontrol(d)
        \/ \E u \in Uuids : group_join(d, u) \/ group_leave(d, u)
        \/ Loop(d)

Spec == Init /\ [][Next]_vars

-----------------------------------------------------------------------------
(* Properties.                                                             *)

\* "Our idea of the group lags cg_members until join/leave processing is
\* complete": a daemon that has read everything has the group's members in
\* cg_nodes, although joins and leaves came over one connection and failures
\* over another; and push_node() never finds the node it adds, after which "we
\* can't interact safely" and the daemon ends.
CaughtUp ==
    /\ \A d \in Nodes, u \in Uuids :
         state[d] = "up" /\ cg[d][u].joined
         /\ confchg[d][u] = <<>> /\ confchg[d][daemon_group] = <<>>
             => cg[d][u].nodes = member[u]
    /\ \A d \in Nodes : state[d] # "lost"

\* "We ensure the same order on all nodes": two daemons that both tell of two
\* failures, in whichever filesystems, tell of them in the same order.
Before(d, x, y) ==
    \E i, j \in DOMAIN told[d] : i < j /\ told[d][i].number = x /\ told[d][j].number = y
SameOrder ==
    \A d1, d2 \in Nodes, x, y \in 1..MaxDowns :
        ~(x # y /\ Before(d1, x, y) /\ Before(d2, y, x))

\* A daemon never tells the kernel and dlm_controld that a node went down in a
\* filesystem of which the node is a member.
NoFalseDown ==
    [][\A d \in Nodes, n \in Nodes, u \in Uuids :
          told'[d] # told[d] /\ told'[d] # <<>>
          /\ n \in cg[d][u].nodes /\ n \notin cg'[d][u].nodes => n \notin member[u]]_vars

=============================================================================
