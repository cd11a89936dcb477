----------------------------- MODULE Mountgroup -----------------------------
(***************************************************************************)
(* Mount groups of ocfs2_controld, one node: ocfs2_controld/mount.c with   *)
(* the parts of cpg.c, dlmcontrol.c and main.c that call into it.          *)
(*                                                                         *)
(* mount.ocfs2 asks the daemon to join the group of a filesystem (MOUNT),  *)
(* calls mount(2), and reports its result (MRESULT); the kernel runs       *)
(* ocfs2_hb_ctl at the last umount, which asks the daemon to leave it      *)
(* (UNMOUNT).  The tools (fsck.ocfs2, tunefs.ocfs2) do the same for a      *)
(* service of their own.  The daemon is one thread: each handler is one    *)
(* action.  Joins, leaves and registrations complete later, in events of   *)
(* corosync and dlm_controld; clients may die at any moment.               *)
(*                                                                         *)
(* fs[u] is everything the daemon and its two partners know of filesystem  *)
(* u: the mountgroup (mg is FALSE when there is none), its cgroup with the *)
(* corosync state, the list of dlmcontrol_fs and the dlm_controld state.   *)
(***************************************************************************)
EXTENDS Integers, Sequences, FiniteSets

CONSTANTS Uuids,       \* filesystems
          Clients,     \* processes that may connect to the daemon
          Services,    \* "ocfs2" for mount(2), any other name for a tool
          Slots,       \* indices of the client array
          MaxMounts,   \* bound: kernel mounts of one filesystem
          MaxDfs,      \* bound: dlmcontrol_fs kept for one filesystem
          Faults       \* what the environment may do, a subset of FaultKinds

\* "die": a client is killed; "hb_ctl": so is ocfs2_hb_ctl; "join", "leave",
\* "register": the request to corosync or dlm_controld fails; "device": the
\* device cannot be stat'ed or is another one; "cpg": the connection of a group
\* breaks; "signal": the daemon is told to terminate; "overlap": a MOUNT may
\* arrive while the same filesystem is being left; "late": the daemon may notice
\* a client's death before it reads dlm_controld's answer to its registration.
FaultKinds == {"die", "hb_ctl", "join", "leave", "register", "device", "cpg", "signal",
               "overlap", "late"}

ASSUME ConstAssumption ==
    /\ Slots \subseteq Nat /\ MaxMounts \in Nat /\ MaxDfs \in Nat
    /\ Faults \subseteq FaultKinds
    /\ "ocfs2" \in Services /\ "none" \notin Services /\ "none" \notin Uuids

NoCi == -1
None == "none"
Status == {"ok", "EALREADY", "error"}

VARIABLES mounts,      \* the list of mountgroups, newest first
          fs, cl, kern,
          held,        \* filesystems a tool has joined the group of
          daemon       \* "up", "exited", or "wild" after it used a freed mountgroup

vars == <<mounts, fs, cl, kern, held, daemon>>

\* A process that is not connected.
IdleClient == [pc |-> "idle", u |-> None, s |-> None, ci |-> NoCi, up |-> None,
               down |-> <<>>, ok |-> FALSE]

-----------------------------------------------------------------------------
(* Helpers on one filesystem record and on the connections.                *)

\* "Don't overwrite an error".
fill_error(f, e) == IF f.err # "ok" THEN f ELSE [f EXCEPT !.err = e]

create_mg(f) ==
    [f EXCEPT !.mg = TRUE, !.group = FALSE, !.leave_on_join = FALSE, !.registered = FALSE,
              !.services = {}, !.in_progress = None, !.additional = FALSE, !.ci = NoCi,
              !.notified = FALSE, !.err = "ok"]

\* list_del(), free(): what still points at the mountgroup now dangles.
free_mg(f) ==
    [create_mg(f) EXCEPT !.mg = FALSE, !.cg_live = FALSE, !.dfs = [i \in DOMAIN @ |-> FALSE]]

\* The list without the entry of u, which is on it at most once.
list_del(seq, u) ==
    LET at == CHOOSE i \in DOMAIN seq : seq[i] = u
    IN  IF \A i \in DOMAIN seq : seq[i] # u THEN seq
        ELSE [j \in 1..(Len(seq) - 1) |-> seq[IF j < at THEN j ELSE j + 1]]

\* A mountgroup in the middle of a LEAVE.
leaving(f) == f.mg /\ f.in_progress # None /\ f.in_progress \notin f.services

find_mg_by_client(ci) ==
    LET has(i) == fs[mounts[i]].ci = ci
    IN  IF \E i \in DOMAIN mounts : has(i)
        THEN mounts[CHOOSE i \in DOMAIN mounts : has(i) /\ \A j \in 1..(i - 1) : ~has(j)]
        ELSE None

FreeSlots(k) == Slots \ ({k[c].ci : c \in Clients} \cup {fs[u].cg_ci : u \in Uuids})

\* i is the first free entry of the array.
connection_add(k, i) == i \in FreeSlots(k) /\ \A j \in FreeSlots(k) : i <= j

\* send_message(fd, CM_STATUS, ...): reaches the process connected at that entry.
Reached(k, ci) == {c \in Clients : k[c].ci = ci /\ ci # NoCi /\ k[c].pc # "gone"}
send_message(k, ci, st) ==
    [c \in Clients |-> IF c \in Reached(k, ci) THEN [k[c] EXCEPT !.down = Append(@, st)]
                       ELSE k[c]]

connection_dead(k, ci) ==
    [c \in Clients |-> IF ci = NoCi \/ k[c].ci # ci THEN k[c]
                       ELSE IF k[c].pc = "gone" THEN IdleClient
                       ELSE [k[c] EXCEPT !.ci = NoCi, !.up = None]]

dlmcontrol_unregister(f) ==
    IF f.dfs = <<>> THEN f ELSE [f EXCEPT !.dfs = Tail(@), !.dlmc = FALSE]

group_leave_not_sent(f, left) == f

\* left: cpg_leave() succeeds.  When it does not, nothing else happens.
group_leave(f, left) == IF left /\ f.cg = "joined" THEN [f EXCEPT !.cg = "leaving"] ELSE f

remove_service(f, s, left) ==
    LET rest == f.services \ {s}
        g == [f EXCEPT !.services = rest, !.additional = @ /\ s # "ocfs2"]
        h == [(IF f.registered THEN dlmcontrol_unregister(g) ELSE g)
                EXCEPT !.in_progress = s, !.registered = FALSE]
    IN  IF s \notin f.services THEN f
        ELSE IF rest # {} THEN g
        ELSE IF f.group THEN group_leave(h, left)
        ELSE [h EXCEPT !.leave_on_join = TRUE]

add_service_when_busy(f, s, ci, bad) ==
    IF bad \/ (s \in f.services /\ s # "ocfs2") THEN fill_error(f, "error")
    ELSE [f EXCEPT !.additional = @ \/ s \in f.services, !.ci = ci, !.in_progress = s,
                   !.services = @ \cup {s}, !.err = IF f.services # {} THEN "EALREADY" ELSE @]

\* bad: stat() fails, or the device is not the one of the first mount.
add_service(f, s, ci, bad) ==
    LET g == [f EXCEPT !.additional = @ \/ s \in f.services, !.ci = ci, !.in_progress = s]
    IN  IF \/ bad
           \/ f.in_progress # None
           \/ s \in f.services /\ s # "ocfs2"
        THEN fill_error(f, "error")
        ELSE [(IF f.services # {} THEN fill_error(g, "EALREADY") ELSE g)
                EXCEPT !.services = @ \cup {s}]

\* The message goes to whoever is connected; the error is dropped either way.
notify_mount_client(f, k) ==
    [f EXCEPT !.err = "ok", !.notified = @ \/ Reached(k, f.ci) # {}]

-----------------------------------------------------------------------------
(* What the clients ask, process_client().                                 *)

Read(c) == [cl EXCEPT ![c].up = None]

\* The fault "join": group_join() fails before its connection is added.  Where it
\* fails after that, init_group() (cpg.c:676) closes the connection in the slot
\* numbered like the descriptor, whichever that is: not modelled.
start_mount(c, bad, joined, i) ==
    LET u == cl[c].u
        s == cl[c].s
        found == fs[u].mg
        f1 == add_service(IF found THEN fs[u] ELSE create_mg(fs[u]), s, cl[c].ci, bad)
        f2 == IF found \/ f1.err # "ok" THEN f1
              ELSE IF joined
              THEN [f1 EXCEPT !.cg = "joining", !.cg_live = TRUE, !.cg_ci = i]
              ELSE [remove_service(fill_error(f1, "error"), s, FALSE) EXCEPT !.in_progress = None]
        f3 == [f2 EXCEPT !.err = "ok", !.notified = @ \/ f2.err = "EALREADY"]
        freed == f2.err = "error" /\ f2.services = {}
    IN  /\ cl[c].up = "MOUNT" /\ connection_add(cl, i)
        /\ "overlap" \in Faults \/ ~leaving(fs[u])
        /\ bad => "device" \in Faults
        /\ IF joined THEN fs[u].cg = "none" \/ found
           ELSE ~found /\ (fs[u].cg # "none" \/ "join" \in Faults)
        /\ fs' = [fs EXCEPT ![u] = IF freed THEN free_mg(f3) ELSE f3]
        /\ mounts' = IF freed THEN list_del(mounts, u)
                     ELSE IF found THEN mounts ELSE <<u>> \o mounts
        /\ cl' = IF f2.err = "ok" THEN Read(c) ELSE send_message(Read(c), cl[c].ci, f2.err)
        /\ UNCHANGED <<kern, held, daemon>>

Completed(c, f2, reply) ==
    /\ cl[c].up \in {"MRESULT0", "MRESULT1"}
    /\ fs' = [fs EXCEPT ![cl[c].u] = f2]
    /\ cl' = IF reply THEN send_message(Read(c), cl[c].ci, f2.err) ELSE Read(c)
    /\ UNCHANGED <<mounts, kern, held, daemon>>

complete_mount_not_additional(c, left) ==
    LET f == [fs[cl[c].u] EXCEPT !.in_progress = None, !.additional = FALSE]
        f2 == IF cl[c].up = "MRESULT1" THEN remove_service(f, cl[c].s, left)
              ELSE [f EXCEPT !.ci = NoCi]
    IN  Completed(c, f2, f2.in_progress = None)

complete_mount_always_replies(c, left) ==
    LET f == fs[cl[c].u]
        g == [f EXCEPT !.in_progress = None, !.additional = FALSE]
    IN  Completed(c, IF cl[c].up = "MRESULT1" /\ ~f.additional THEN remove_service(g, cl[c].s, left)
                     ELSE [g EXCEPT !.ci = NoCi], TRUE)

complete_mount(c, left) ==
    LET ci == cl[c].ci
        u == find_mg_by_client(ci)
        s == cl[c].s
        f == fs[u]
        refused == \/ cl[c].u # u \/ f.in_progress = None
                   \/ s \notin f.services \/ s # f.in_progress
        err == cl[c].up = "MRESULT1" /\ ~(s = "ocfs2" /\ f.additional)
        f1 == [f EXCEPT !.in_progress = None, !.additional = @ /\ s # "ocfs2"]
        f2 == IF refused THEN fill_error(f, "error")
              ELSE IF err THEN remove_service(f1, s, left) ELSE [f1 EXCEPT !.ci = NoCi]
    IN  /\ cl[c].up \in {"MRESULT0", "MRESULT1"}
        /\ IF u = None
           THEN fs' = fs /\ cl' = send_message(Read(c), ci, "error")
           ELSE /\ fs' = [fs EXCEPT ![u] = f2]
                /\ cl' = IF refused \/ f2.in_progress = None
                         THEN send_message(Read(c), ci, f2.err) ELSE Read(c)
        /\ UNCHANGED <<mounts, kern, held, daemon>>

remove_mount(c, left) ==
    LET ci == cl[c].ci
        u == cl[c].u
        s == cl[c].s
        f == fs[u]
        busy == f.in_progress # None
        f1 == remove_service(f, s, left)
    IN  /\ cl[c].up = "UNMOUNT"
        /\ IF ~f.mg \/ s \notin f.services
           THEN fs' = fs /\ cl' = send_message(Read(c), ci, "error")
           ELSE IF busy
           THEN /\ fs' = [fs EXCEPT ![u].additional = @ /\ s # "ocfs2"]
                /\ cl' = send_message(Read(c), ci, "error")
           ELSE IF f1.in_progress # None
           THEN fs' = [fs EXCEPT ![u] = [f1 EXCEPT !.ci = ci]] /\ cl' = Read(c)
           ELSE fs' = [fs EXCEPT ![u] = f1] /\ cl' = send_message(Read(c), ci, f1.err)
        /\ UNCHANGED <<mounts, kern, held, daemon>>

\* The connection was closed by its client and everything it sent was read.
dead_client(c, left) ==
    LET u == find_mg_by_client(cl[c].ci)
        f == fs[u]
        f1 == [f EXCEPT !.ci = NoCi]
        dead_mounter ==
            IF f.in_progress = None THEN f
            ELSE IF f.in_progress \notin f.services THEN f1
            ELSE IF f.in_progress = "ocfs2" /\ f.additional
            THEN [f1 EXCEPT !.additional = FALSE, !.in_progress = None]
            ELSE IF ~f.notified THEN remove_service(f1, f.in_progress, left)
            ELSE [f1 EXCEPT !.in_progress = None]
    IN  /\ cl[c].pc = "gone" /\ cl[c].up = None
        /\ u # None /\ "late" \notin Faults => f.results = <<>>
        /\ fs' = IF u = None THEN fs ELSE [fs EXCEPT ![u] = dead_mounter]
        /\ cl' = connection_dead(cl, cl[c].ci)
        /\ UNCHANGED <<mounts, kern, held, daemon>>

-----------------------------------------------------------------------------
(* Events of corosync and dlm_controld.                                    *)

\* A callback on a mountgroup that was freed: the daemon may do anything.
Wild == daemon' = "wild" /\ UNCHANGED <<mounts, fs, cl, kern, held>>

finish_join_unsent_waits(f, sent, st, left) ==
    LET g == [f EXCEPT !.group = TRUE]
    IN  IF f.group \/ f.in_progress = None THEN f
        ELSE IF f.in_progress \notin f.services THEN group_leave(f, left)
        ELSE IF sent
        THEN [g EXCEPT !.dfs = <<TRUE>> \o @, !.dlmc = @ \/ st = "ok", !.results = Append(@, st)]
        ELSE fill_error(g, "error")

\* sent: dlmc_fs_register() could be written; st: what dlm_controld will answer.
finish_join(f, sent, st, left) ==
    LET g == [f EXCEPT !.group = TRUE]
    IN  IF f.group \/ f.in_progress = None THEN f
        ELSE IF f.in_progress \notin f.services
        THEN IF f.leave_on_join THEN group_leave(f, left) ELSE f
        ELSE IF sent
        THEN [g EXCEPT !.dfs = <<TRUE>> \o @, !.dlmc = @ \/ st = "ok", !.results = Append(@, st)]
        ELSE remove_service(fill_error(g, "error"), f.in_progress, left)

\* The confchg that has this node in its joined list: handle_node_join().
handle_node_join(u, sent, st, left) ==
    /\ fs[u].cg = "joining"
    /\ st = "error" => fs[u].dlmc \/ "register" \in Faults
    /\ st = "ok" => ~fs[u].dlmc
    /\ ~sent => "register" \in Faults
    /\ IF ~fs[u].cg_live THEN Wild
       ELSE /\ fs' = [fs EXCEPT ![u] = finish_join([@ EXCEPT !.cg = "joined"], sent, st, left)]
            /\ UNCHANGED <<mounts, cl, kern, held, daemon>>

register_result(u, left) ==
    LET f == [fs[u] EXCEPT !.results = Tail(@)]
        st == Head(fs[u].results)
        ignored == f.dfs = <<>> \/ ~f.group \/ f.in_progress = None
    IN  /\ fs[u].results # <<>>
        /\ IF f.dfs # <<>> /\ ~Head(f.dfs) THEN Wild
           ELSE /\ fs' = [fs EXCEPT ![u] =
                            IF ignored THEN f
                            ELSE IF st = "error"
                            THEN remove_service(fill_error(f, "error"), f.in_progress, left)
                            ELSE notify_mount_client([f EXCEPT !.registered = TRUE], cl)]
                /\ cl' = IF ignored \/ st = "error" THEN cl ELSE send_message(cl, f.ci, f.err)
                /\ UNCHANGED <<mounts, kern, held, daemon>>

cg_not_finalized(f) == [f EXCEPT !.cg_live = FALSE]

\* The cgroup is gone: cpg_finalize(), connection_dead(cg_ci), free(cg).
CgGone(f) == [f EXCEPT !.cg = "none", !.cg_live = FALSE, !.cg_ci = NoCi]

\* The daemon ends and its connections close.
Exit ==
    /\ daemon' = "exited"
    /\ cl' = [c \in Clients |-> IF cl[c].pc = "gone" THEN IdleClient
                                ELSE [cl[c] EXCEPT !.ci = NoCi, !.up = None]]
    /\ UNCHANGED <<mounts, fs, kern, held>>

finalize_group_survives(u) ==
    IF ~fs[u].cg_live THEN Wild
    ELSE /\ cl' = IF fs[u].services = {} /\ fs[u].in_progress # None
                  THEN send_message(cl, fs[u].ci, fs[u].err) ELSE connection_dead(cl, fs[u].ci)
         /\ fs' = [fs EXCEPT ![u] = CgGone(free_mg(fs[u]))]
         /\ mounts' = list_del(mounts, u)
         /\ UNCHANGED <<kern, held, daemon>>

\* finalize_group(): tell the mountgroup with finish_leave(), drop the cgroup.
finalize_group(u) ==
    LET f == fs[u]
        done == f.services = {} /\ f.in_progress # None
    IN  IF ~f.cg_live THEN Wild
        ELSE IF ~done /\ f.group
        THEN Exit
        ELSE /\ cl' = IF done THEN send_message(cl, f.ci, f.err) ELSE connection_dead(cl, f.ci)
             /\ fs' = [fs EXCEPT ![u] = CgGone(free_mg(f))]
             /\ mounts' = list_del(mounts, u)
             /\ UNCHANGED <<kern, held, daemon>>

\* The confchg that has this node in its left list.
handle_node_leave(u) == fs[u].cg = "leaving" /\ finalize_group(u)

\* The connection of the group breaks.
dead_cpg(u) == "cpg" \in Faults /\ fs[u].cg # "none" /\ finalize_group(u)

\* SIGTERM, SIGINT, SIGHUP or SIGQUIT: ignored while have_mounts().
handle_signal == "signal" \in Faults /\ mounts = <<>> /\ Exit

-----------------------------------------------------------------------------
(* The clients and the kernel.                                             *)

Connected(c, u, s, pc, msg) ==
    \E i \in Slots :
      /\ connection_add(cl, i)
      /\ cl' = [cl EXCEPT ![c] = [pc |-> pc, u |-> u, s |-> s, ci |-> i, up |-> msg,
                                  down |-> <<>>, ok |-> FALSE]]

\* Close the connection; the daemon notices later.
Closed(c) == IF cl[c].ci = NoCi THEN IdleClient
             ELSE [cl[c] EXCEPT !.pc = "gone", !.down = <<>>]

\* user_begin_group_join(): mount.ocfs2 or a tool asks to join.
begin_group_join(c, u, s) ==
    /\ cl[c].pc = "idle" /\ (s # "ocfs2" => u \notin held)
    /\ Len(fs[u].dfs) < MaxDfs
    /\ Connected(c, u, s, "joining", "MOUNT")
    /\ UNCHANGED <<mounts, fs, kern, held, daemon>>

join_status(c) ==
    /\ cl[c].pc = "joining" /\ cl[c].down # <<>>
    /\ cl' = [cl EXCEPT ![c] = IF Head(cl[c].down) = "error" THEN Closed(c)
                               ELSE [cl[c] EXCEPT !.pc = "mounting", !.down = Tail(cl[c].down)]]
    /\ UNCHANGED <<mounts, fs, kern, held, daemon>>

\* mount(2), or what a tool does once it has joined; then the result is sent.
\* A new mount(2) waits for an umount of the same filesystem to finish.
mount(c, ok) ==
    LET u == cl[c].u
    IN  /\ cl[c].pc = "mounting"
        /\ cl[c].s = "ocfs2" => ~kern[u].umounting /\ (ok => kern[u].count < MaxMounts)
        /\ kern' = IF ok /\ cl[c].s = "ocfs2" THEN [kern EXCEPT ![u].count = @ + 1] ELSE kern
        /\ cl' = [cl EXCEPT ![c].pc = "result", ![c].ok = ok,
                            ![c].up = IF cl[c].ci = NoCi THEN None
                                      ELSE IF ok THEN "MRESULT0" ELSE "MRESULT1"]
        /\ UNCHANGED <<mounts, fs, held, daemon>>

\* user_complete_group_join() has its answer, whose error it drops.
complete_group_join(c) ==
    /\ cl[c].pc = "result" /\ cl[c].down # <<>>
    /\ cl' = [cl EXCEPT ![c] = Closed(c)]
    /\ held' = IF cl[c].ok /\ cl[c].s # "ocfs2" THEN held \cup {cl[c].u} ELSE held
    /\ UNCHANGED <<mounts, fs, kern, daemon>>

umount(u) ==
    /\ kern[u].count > 1
    /\ kern' = [kern EXCEPT ![u].count = @ - 1]
    /\ UNCHANGED <<mounts, fs, cl, held, daemon>>

\* The last umount runs ocfs2_hb_ctl -K and waits for it.
last_umount(u, c) ==
    /\ kern[u].count = 1 /\ cl[c].pc = "idle"
    /\ kern' = [kern EXCEPT ![u] = [count |-> 0, umounting |-> TRUE]]
    /\ Connected(c, u, "ocfs2", "leaving", "UNMOUNT")
    /\ UNCHANGED <<mounts, fs, held, daemon>>

\* A tool is done: user_group_leave().
tool_leave(u, s, c) ==
    /\ u \in held /\ s # "ocfs2" /\ cl[c].pc = "idle"
    /\ held' = held \ {u}
    /\ Connected(c, u, s, "leaving", "UNMOUNT")
    /\ UNCHANGED <<mounts, fs, kern, daemon>>

Finished(c) == IF cl[c].pc = "leaving" /\ cl[c].s = "ocfs2"
               THEN [kern EXCEPT ![cl[c].u].umounting = FALSE] ELSE kern

leave_status(c) ==
    /\ cl[c].pc = "leaving" /\ cl[c].down # <<>>
    /\ cl' = [cl EXCEPT ![c] = Closed(c)]
    /\ kern' = Finished(c)
    /\ UNCHANGED <<mounts, fs, held, daemon>>

die(c) ==
    /\ cl[c].pc \in {"joining", "mounting", "result", "leaving"}
    /\ IF cl[c].pc = "leaving" /\ cl[c].s = "ocfs2"
       THEN "hb_ctl" \in Faults ELSE "die" \in Faults
    /\ cl' = [cl EXCEPT ![c] = Closed(c)]
    /\ kern' = Finished(c)
    /\ UNCHANGED <<mounts, fs, held, daemon>>

\* The daemon closed the connection under a client that waits for an answer.
connection_lost(c) ==
    /\ cl[c].pc \in {"joining", "result", "leaving"}
    /\ cl[c].ci = NoCi /\ cl[c].down = <<>>
    /\ cl' = [cl EXCEPT ![c] = IdleClient]
    /\ kern' = Finished(c)
    /\ UNCHANGED <<mounts, fs, held, daemon>>

-----------------------------------------------------------------------------

Init ==
    /\ mounts = <<>>
    /\ fs = [u \in Uuids |->
               [mg |-> FALSE, group |-> FALSE, leave_on_join |-> FALSE, registered |-> FALSE,
                services |-> {}, in_progress |-> None, additional |-> FALSE, ci |-> NoCi,
                notified |-> FALSE, err |-> "ok", cg |-> "none", cg_live |-> FALSE,
                cg_ci |-> NoCi, dfs |-> <<>>, dlmc |-> FALSE, results |-> <<>>]]
    /\ cl = [c \in Clients |-> IdleClient]
    /\ kern = [u \in Uuids |-> [count |-> 0, umounting |-> FALSE]]
    /\ held = {} /\ daemon = "up"

Lefts == IF "leave" \in Faults THEN BOOLEAN ELSE {TRUE}

ProcessClient(c) ==
    \/ \E bad, joined \in BOOLEAN, i \in Slots : start_mount(c, bad, joined, i)
    \/ \E left \in Lefts : complete_mount(c, left) \/ remove_mount(c, left) \/ dead_client(c, left)

GroupEvent(u) ==
    \/ \E sent \in BOOLEAN, st \in {"ok", "error"}, left \in Lefts :
          handle_node_join(u, sent, st, left)
    \/ \E left \in Lefts : register_result(u, left)
    \/ handle_node_leave(u)

Daemon ==
    /\ daemon = "up"
    /\ \/ \E c \in Clients : ProcessClient(c)
       \/ \E u \in Uuids : GroupEvent(u) \/ dead_cpg(u)
       \/ handle_signal

ClientStep(c) ==
    \/ join_status(c) \/ complete_group_join(c) \/ leave_status(c) \/ connection_lost(c)
    \/ \E ok \in BOOLEAN : mount(c, ok)

UserStep ==
    /\ daemon = "up"
    /\ \/ \E c \in Clients, u \in Uuids, s \in Services :
             begin_group_join(c, u, s) \/ tool_leave(u, s, c)
       \/ \E u \in Uuids : umount(u) \/ \E c \in Clients : last_umount(u, c)

Next ==
    \/ Daemon
    \/ UserStep
    \/ \E c \in Clients : ClientStep(c) \/ die(c)

Spec == Init /\ [][Next]_vars

\* Every process the system needs keeps running; what the users do is up to them.
Fairness ==
    /\ \A c \in Clients : /\ SF_vars(daemon = "up" /\ ProcessClient(c))
                          /\ WF_vars(ClientStep(c))
    /\ \A u \in Uuids : WF_vars(daemon = "up" /\ GroupEvent(u))

FairSpec == Spec /\ Fairness

-----------------------------------------------------------------------------
(* Properties.                                                             *)

\* The types of the records of one filesystem and of one client.
FsType ==
    [mg : BOOLEAN, group : BOOLEAN, leave_on_join : BOOLEAN, registered : BOOLEAN,
     services : SUBSET Services, in_progress : Services \cup {None}, additional : BOOLEAN,
     ci : Slots \cup {NoCi}, notified : BOOLEAN, err : Status,
     cg : {"none", "joining", "joined", "leaving"}, cg_live : BOOLEAN,
     cg_ci : Slots \cup {NoCi}, dfs : Seq(BOOLEAN), dlmc : BOOLEAN,
     results : Seq({"ok", "error"})]

ClType ==
    [pc : {"idle", "joining", "mounting", "result", "leaving", "gone"},
     u : Uuids \cup {None}, s : Services \cup {None}, ci : Slots \cup {NoCi},
     up : {None, "MOUNT", "MRESULT0", "MRESULT1", "UNMOUNT"}, down : Seq(Status), ok : BOOLEAN]

\* Every component of the state has its type, and a client with a message or a
\* wait names a filesystem and a service.
TypeOK ==
    /\ mounts \in Seq(Uuids)
    /\ fs \in [Uuids -> FsType]
    /\ cl \in [Clients -> ClType]
    /\ \A c \in Clients : cl[c].pc # "idle" => cl[c].u \in Uuids /\ cl[c].s \in Services
    /\ \A c \in Clients : cl[c].pc = "idle" => cl[c].up = None
    /\ kern \in [Uuids -> [count : 0..MaxMounts, umounting : BOOLEAN]]
    /\ held \in SUBSET Uuids
    /\ daemon \in {"up", "exited", "wild"}

\* While the kernel has a filesystem mounted, the daemon is a member of its
\* group, is registered for it with dlm_controld and holds its service: the
\* state that makes node-down events reach the kernel.
KernelNeedsGroup ==
    daemon = "up" =>
      \A u \in Uuids : kern[u].count > 0 =>
        /\ fs[u].mg /\ fs[u].group /\ fs[u].registered /\ fs[u].dlmc
        /\ "ocfs2" \in fs[u].services
        /\ fs[u].cg = "joined" /\ fs[u].cg_live

\* The three states the comment above mount_set_group() allows when corosync
\* reports that a group was joined or left; and ms_in_progress never points at a
\* freed service: one that is in progress and not on the list was the last.
SetGroupStates ==
    \A u \in Uuids :
      LET f == fs[u]
      IN  /\ f.mg /\ f.cg = "joining" =>
               /\ f.in_progress # None /\ ~f.group
               /\ \/ f.services = {f.in_progress}
                  \/ f.services = {} /\ f.leave_on_join
          /\ f.mg /\ f.cg = "leaving" =>
               f.in_progress # None /\ f.services = {} /\ (~f.group => f.leave_on_join)
          /\ leaving(f) => f.services = {}

\* The list of mountgroups has exactly the live ones, each once.
MountsListed ==
    /\ \A i, j \in DOMAIN mounts : mounts[i] = mounts[j] => i = j
    /\ {mounts[i] : i \in DOMAIN mounts} = {u \in Uuids : fs[u].mg}

\* A client only finds an answer on its socket when it waits for one, and one
\* answer per question.
OneAnswer ==
    \A c \in Clients :
      cl[c].down # <<>> => /\ cl[c].pc \in {"joining", "result", "leaving"}
                           /\ Len(cl[c].down) = 1 /\ cl[c].up = None

\* A cgroup exists exactly as long as the mountgroup its callbacks are given:
\* cg_user_data never dangles.
GroupLive ==
    \A u \in Uuids : (fs[u].mg <=> fs[u].cg_live) /\ (fs[u].cg_live <=> fs[u].cg # "none")

\* Every request is answered: no client waits for the daemon for ever.
Answered ==
    \A c \in Clients : \A p \in {"joining", "result", "leaving"} :
      cl[c].pc = p ~> cl[c].pc # p

\* No filesystem stays busy for ever: what is in progress ends.
NotBusyForever ==
    \A u \in Uuids : []<>(fs[u].in_progress = None \/ daemon # "up")

=============================================================================
