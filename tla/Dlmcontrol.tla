----------------------------- MODULE Dlmcontrol -----------------------------
(***************************************************************************)
(* How ocfs2_controld tells dlm_controld of nodes that went down           *)
(* (ocfs2_controld/dlmcontrol.c).  A notification is sent for each         *)
(* registered filesystem and sent again for as long as dlm_controld, which *)
(* learns of the failure on its own, answers that it has not seen it.      *)
(* Requests and results travel over one socket and are matched by the      *)
(* filesystem's name and the node's number alone.                          *)
(*                                                                         *)
(* dlm_controld is external.  The life of a node is a number that is odd   *)
(* while the node is down.                                                 *)
(***************************************************************************)
EXTENDS Naturals, Sequences

CONSTANTS Names,       \* filesystems
          Nodes,       \* the other nodes of the cluster
          MaxLife,     \* bound on the failures and returns of a node
          MaxMounts,   \* bound on registrations
          Faults       \* what may happen, a subset of FaultKinds

\* "again": a node comes back, or fails again, while messages about its failure
\* are under way.
\* "send": the connection to dlm_controld breaks.
FaultKinds == {"again", "send"}

ASSUME ConstAssumption ==
    MaxLife \in Nat /\ MaxMounts \in Nat /\ Faults \subseteq FaultKinds

VARIABLES register_list,    \* the filesystems registered with dlm_controld
          df_notifications, \* for each filesystem, the nodes to be notified of
          requests,         \* messages to dlm_controld
          results,          \* messages from dlm_controld
          life,             \* the life of each node
          seen,             \* the last life of each node dlm_controld has seen
          asked,            \* the last failure dlmcontrol_node_down() was told of
          noted,            \* the last failure dlm_controld took note of
          daemon,           \* "up", or "down" after shutdown_daemon()
          mounts            \* counter for the bound

vars == <<register_list, df_notifications, requests, results, life, seen, asked, noted,
          daemon, mounts>>

NoFailure == [f \in Names |-> [n \in Nodes |-> 0]]

Msg(type, f, n, status) == [type |-> type, name |-> f, node |-> n, status |-> status]
AnyNode == CHOOSE n \in Nodes : TRUE

\* A message about node n is under way.
UnderWay(queue, n) ==
    \E i \in DOMAIN queue : queue[i].type = "notified" /\ queue[i].node = n

-----------------------------------------------------------------------------
(* The calls of mount.c and the results.                                   *)

dlmcontrol_register(f) ==
    /\ daemon = "up" /\ f \notin register_list /\ mounts < MaxMounts
    /\ register_list' = register_list \cup {f}
    /\ df_notifications' = [df_notifications EXCEPT ![f] = {}]
    /\ requests' = Append(requests, Msg("register", f, AnyNode, 0))
    /\ mounts' = mounts + 1
    /\ UNCHANGED <<results, life, seen, asked, noted, daemon>>

\* complete_all_notifications(), and whatever was asked is no longer wanted.
dlmcontrol_unregister(f) ==
    /\ daemon = "up" /\ f \in register_list
    /\ register_list' = register_list \ {f}
    /\ df_notifications' = [df_notifications EXCEPT ![f] = {}]
    /\ requests' = Append(requests, Msg("unregister", f, AnyNode, 0))
    /\ asked' = [asked EXCEPT ![f] = NoFailure[f]]
    /\ UNCHANGED <<results, life, seen, noted, daemon, mounts>>

\* Mutant: a node for which a notification is pending is not sent again.
notify_once(f, n) ==
    IF n \in df_notifications[f] THEN UNCHANGED <<df_notifications, requests>>
    ELSE /\ df_notifications' = [df_notifications EXCEPT ![f] = @ \cup {n}]
         /\ requests' = Append(requests, Msg("notified", f, n, 0))

\* The body of dlmcontrol_node_down() for a filesystem that is registered.
notify(f, n) ==
    /\ df_notifications' = [df_notifications EXCEPT ![f] = @ \cup {n}]
    /\ requests' = Append(requests, Msg("notified", f, n, 0))

\* mount_node_down() calls it when the daemon group reports that n is down.
dlmcontrol_node_down(f, n) ==
    /\ daemon = "up" /\ f \in register_list
    /\ life[n] % 2 = 1 /\ asked[f][n] < life[n]
    /\ notify(f, n)
    /\ asked' = [asked EXCEPT ![f][n] = life[n]]
    /\ UNCHANGED <<register_list, results, life, seen, noted, daemon, mounts>>

\* Mutant: any answer completes the notification.
notify_result_completes(f, n, status) ==
    IF n \in df_notifications[f]
    THEN /\ df_notifications' = [df_notifications EXCEPT ![f] = @ \ {n}]
         /\ UNCHANGED requests
    ELSE UNCHANGED <<df_notifications, requests>>

\* An answer nobody waits for is dropped: "but we never asked for it!".
notify_result(f, n, status) ==
    IF n \notin df_notifications[f] THEN UNCHANGED <<df_notifications, requests>>
    ELSE IF status = 0
    THEN /\ df_notifications' = [df_notifications EXCEPT ![f] = @ \ {n}]
         /\ UNCHANGED requests
    ELSE notify(f, n)

\* One result is read.  One for a filesystem that is gone is dropped; the result
\* of a registration goes to mount.c.
process_dlmcontrol ==
    /\ daemon = "up" /\ results # <<>>
    /\ LET m == Head(results)
       IN  IF m.name \in register_list /\ m.type = "notified"
           THEN notify_result(m.name, m.node, m.status)
           ELSE UNCHANGED <<df_notifications, requests>>
    /\ results' = Tail(results)
    /\ UNCHANGED <<register_list, life, seen, asked, noted, daemon, mounts>>

\* The connection breaks, or sending over it fails: shutdown_daemon(), and then
\* exit_dlmcontrol() drops every registration.
dead_dlmcontrol ==
    /\ "send" \in Faults /\ daemon = "up"
    /\ daemon' = "down"
    /\ register_list' = {}
    /\ df_notifications' = [f \in Names |-> {}]
    /\ requests' = <<>> /\ results' = <<>>
    /\ asked' = NoFailure
    /\ UNCHANGED <<life, seen, noted, mounts>>

-----------------------------------------------------------------------------
(* dlm_controld and the nodes.                                             *)

\* dlm_controld answers one request: a notification is accepted when it has
\* seen the node go down.
dlm_controld ==
    /\ requests # <<>>
    /\ LET m == Head(requests)
           down == seen[m.node] % 2 = 1
       IN  /\ results' = CASE m.type = "register" -> Append(results, m)
                           [] m.type = "unregister" -> results
                           [] m.type = "notified" ->
                                Append(results, [m EXCEPT !.status = IF down THEN 0 ELSE 1])
           /\ noted' = IF m.type = "notified" /\ down
                       THEN [noted EXCEPT ![m.name][m.node] = seen[m.node]] ELSE noted
    /\ requests' = Tail(requests)
    /\ UNCHANGED <<register_list, df_notifications, life, seen, asked, daemon, mounts>>

\* dlm_controld sees the next failure or return of n.
dlm_sees(n) ==
    /\ seen[n] < life[n]
    /\ seen' = [seen EXCEPT ![n] = @ + 1]
    /\ UNCHANGED <<register_list, df_notifications, requests, results, life, asked, noted,
                   daemon, mounts>>

\* n fails or comes back, after both daemons have seen its last change.
node_changes(n) ==
    /\ life[n] < MaxLife
    /\ life[n] % 2 = 1 => \A f \in register_list : asked[f][n] = life[n]
    /\ seen[n] = life[n]
    /\ "again" \in Faults \/ ~UnderWay(requests \o results, n)
    /\ life' = [life EXCEPT ![n] = @ + 1]
    /\ UNCHANGED <<register_list, df_notifications, requests, results, seen, asked, noted,
                   daemon, mounts>>

-----------------------------------------------------------------------------

Init ==
    /\ register_list = {} /\ df_notifications = [f \in Names |-> {}]
    /\ requests = <<>> /\ results = <<>>
    /\ life = [n \in Nodes |-> 0] /\ seen = [n \in Nodes |-> 0]
    /\ asked = NoFailure /\ noted = NoFailure
    /\ daemon = "up" /\ mounts = 0

Next ==
    \/ \E f \in Names : dlmcontrol_register(f) \/ dlmcontrol_unregister(f)
    \/ \E f \in Names, n \in Nodes : dlmcontrol_node_down(f, n)
    \/ process_dlmcontrol \/ dead_dlmcontrol \/ dlm_controld
    \/ \E n \in Nodes : dlm_sees(n) \/ node_changes(n)

Spec == Init /\ [][Next]_vars

\* Both daemons serve their socket, and dlm_controld hears of failures.
FairSpec == /\ Spec /\ WF_vars(process_dlmcontrol) /\ WF_vars(dlm_controld)
            /\ \A n \in Nodes : WF_vars(dlm_sees(n))

-----------------------------------------------------------------------------
(* Properties.                                                             *)

\* "This goes on until dlm_controld sees the node go down": of every failure
\* that dlmcontrol_node_down() was told of for a registered filesystem,
\* dlm_controld has taken note, or a message that will bring that about is
\* under way and df_notifications remembers it.
NotForgotten ==
    \A f \in register_list, n \in Nodes :
        \/ noted[f][n] >= asked[f][n]
        \/ /\ n \in df_notifications[f]
           /\ \/ \E i \in DOMAIN requests : requests[i] = Msg("notified", f, n, 0)
              \/ \E i \in DOMAIN results : results[i] = Msg("notified", f, n, 1)

\* Every notification is completed, or its filesystem unmounted.
Completes ==
    \A f \in Names, n \in Nodes :
        n \in df_notifications[f] ~> n \notin df_notifications[f]

=============================================================================
