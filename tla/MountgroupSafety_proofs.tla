----------------------- MODULE MountgroupSafety_proofs -----------------------
(***************************************************************************)
(* What the mountgroups of ocfs2_controld promise their clients and the    *)
(* kernel, for every set of filesystems, clients and services: the states  *)
(* mount_set_group() expects, one answer per question, and a group and a   *)
(* registration under every kernel mount.  MountgroupPhases_proofs has the *)
(* invariant; here the events of corosync and dlm_controld, the clients    *)
(* and the kernel keep it, and the theorems follow.                        *)
(***************************************************************************)
EXTENDS MountgroupPhases_proofs

-----------------------------------------------------------------------------
(* The events of corosync and dlm_controld.                                *)

\* A step of a mountgroup on its own, before it is registered or after.
LEMMA EventStep ==
    ASSUME Inv, Safe, daemon = "up", daemon' = daemon, kern' = kern,
           NEW u \in Uuids, OnlyFs(u), ~fs[u].registered, Phase(fs'[u]),
           NEW C, OnlyClients(C), Distinct(cl'),
           WillAnswer(fs'[u]) /\ fs'[u].ci # NoCi => \E d \in Clients : Owner(u, fs'[u], cl'[d]),
           \A c \in C : ClientMoved(c, u) /\ ("hb_ctl" \notin Faults => KernelMoved(c))
    PROVE  Safe'
<1>1. ClOK(cl)
  BY Zenon, InvParts
<1>2. \A d \in Clients : Granted(cl[d]) => cl[d].u # u
  <2>1. ~Busy(fs[u])
    BY Zenon DEF Busy
  <2> QED BY Zenon, <2>1, NoneGranted
<1>3. "hb_ctl" \in Faults \/ ~(kern[u].count > 0)
  BY Zenon, MountedNow
<1> QED BY Zenon, <1>1, <1>2, <1>3, DaemonStep

\* remove_service() of the only service, after the error that makes it fail: the
\* mountgroup leaves its group and will tell its client.
LEMMA FailsOnly ==
    ASSUME NEW f \in FsType, f.mg, f.group, f.cg = "joined", ~f.additional, f.results = <<>>,
           f.err = "ok", f.in_progress \in Services, f.services = {f.in_progress},
           NEW left \in BOOLEAN
    PROVE  LET r == remove_service(fill_error(f, "error"), f.in_progress, left)
           IN  /\ Leaving(r) /\ Phase(r) /\ r.err = "error" /\ r.ci = f.ci
               /\ r.in_progress = f.in_progress
<1> DEFINE e == fill_error(f, "error")
           p == f.in_progress
           r == remove_service(e, p, left)
<1>1. e = [f EXCEPT !.err = "error"]
  BY Zenon DEF fill_error
<1>2. e \in FsType /\ e.mg = f.mg /\ e.group = f.group /\ e.cg = f.cg /\ e.results = f.results
  BY Zenon, <1>1 DEF FsType, Status
<1>3. e.additional = f.additional /\ e.err = "error" /\ e.ci = f.ci /\ e.services = f.services
  BY Zenon, <1>1 DEF FsType
<1>4. e.services = {p} /\ p \in Services /\ (e.additional => p = "ocfs2")
  BY Zenon, <1>3
<1> HIDE DEF e, p
<1>5. /\ r.services = {} /\ r.in_progress = p /\ ~r.registered /\ ~r.additional
      /\ r.ci = e.ci /\ r.err = e.err /\ r.results = e.results
  BY <1>2, <1>4, RemoveLast
<1>6. r.mg /\ r.group /\ r.cg \in {"joined", "leaving"}
  <2>1. r.mg = e.mg
    BY ZenonT(30), <1>2, <1>4, RemoveLast
  <2>2. e.group => r.group /\ (r.cg = e.cg \/ (e.cg = "joined" /\ r.cg = "leaving"))
    BY <1>2, <1>4, RemoveLast
  <2> QED BY Zenon, <1>2, <2>1, <2>2
<1> HIDE DEF r
<1>7. p # None
  BY Zenon, ConstAssumption DEF None, p
<1>8. Leaving(r)
  BY Zenon, <1>2, <1>5, <1>6, <1>7 DEF Leaving
<1>9. Phase(r)
  BY Zenon, <1>2, <1>3, <1>5, <1>6, <1>8 DEF Phase
<1> QED BY Zenon, <1>3, <1>5, <1>8, <1>9 DEF r, e, p

\* handle_node_join() keeps the invariant.
LEMMA NodeJoinSafe ==
    ASSUME Tame, Inv, Safe, daemon = "up", NEW u \in Uuids, NEW sent \in BOOLEAN,
           NEW st \in {"ok", "error"}, NEW left \in BOOLEAN, handle_node_join(u, sent, st, left)
    PROVE  Safe'
<1> DEFINE f == fs[u]
           f0 == [f EXCEPT !.cg = "joined"]
           g0 == [f0 EXCEPT !.group = TRUE]
           d == <<TRUE>> \o f.dfs
           r == Append(f.results, st)
           m == f.dlmc \/ st = "ok"
           g == finish_join(f0, sent, st, left)
<1>1. FsOK(mounts, fs) /\ ClOK(cl) /\ fs \in [Uuids -> FsType] /\ f \in FsType
  BY Zenon, InvParts DEF FsOK
<1>2. f.cg = "joining" /\ f.mg /\ f.cg_live
  BY Zenon, <1>1 DEF handle_node_join, FsOK, GroupOK, Tame
<1>3. Phase(f) /\ (Joining(f) \/ Abandoned(f))
  <2>1. Phase(f)
    BY Zenon DEF Safe, Phases
  <2> QED BY Zenon, <1>2, <2>1 DEF Phase, Absent, Registering, Live, Busy, Leaving
<1>4. kern' = kern /\ daemon' = daemon /\ cl' = cl /\ fs' = [fs EXCEPT ![u] = g]
  BY Zenon, <1>2 DEF handle_node_join
<1>5. OnlyFs(u) /\ fs'[u] = g
  BY Zenon, <1>1, <1>4 DEF OnlyFs
<1>6. ~f.registered /\ OnlyClients({}) /\ Distinct(cl')
  BY Zenon, <1>3, <1>4 DEF Joining, Abandoned, OnlyClients, Safe, Conns
<1>7. /\ f0 \in FsType /\ f0.mg = f.mg /\ f0.group = f.group /\ f0.cg = "joined"
      /\ f0.leave_on_join = f.leave_on_join /\ f0.registered = f.registered
  BY Zenon, <1>1 DEF FsType
<1>8. /\ f0.services = f.services /\ f0.in_progress = f.in_progress
      /\ f0.additional = f.additional /\ f0.ci = f.ci /\ f0.notified = f.notified
      /\ f0.err = f.err /\ f0.results = f.results /\ f0.dfs = f.dfs /\ f0.dlmc = f.dlmc
  BY Zenon, <1>1 DEF FsType
<1>9. ASSUME Phase(g),
             WillAnswer(g) /\ g.ci # NoCi => \E c \in Clients : Owner(u, g, cl[c])
      PROVE  Safe'
  <2> HIDE DEF g
  <2> QED BY Zenon, <1>4, <1>5, <1>6, <1>9, EventStep
<1> HIDE DEF f0
<1>10. CASE Abandoned(f)
  <2>1. g = group_leave(f0, left)
    BY Zenon, <1>7, <1>8, <1>10 DEF finish_join, Abandoned
  <2>2. g = f0 \/ g = [f0 EXCEPT !.cg = "leaving"]
    BY Zenon, <2>1 DEF group_leave
  <2> HIDE DEF g
  <2>3. /\ g.mg = f.mg /\ g.leave_on_join = f.leave_on_join /\ g.registered = f.registered
        /\ g.cg \in {"joined", "leaving"} /\ g.services = f.services
    BY Zenon, <1>7, <1>8, <2>2 DEF FsType
  <2>4. /\ g.in_progress = f.in_progress /\ g.additional = f.additional /\ g.ci = f.ci
        /\ g.err = f.err /\ g.results = f.results
    BY Zenon, <1>7, <1>8, <2>2 DEF FsType
  <2>5. Leaving(g) /\ g.ci = NoCi
    BY Zenon, <1>10, <2>3, <2>4 DEF Leaving, Abandoned
  <2>6. Phase(g)
    BY Zenon, <1>2, <1>3, <2>3, <2>4, <2>5 DEF Phase
  <2> QED BY Zenon, <1>9, <2>5, <2>6 DEF g
<1>11. CASE Joining(f)
  <2>1. f.in_progress \in Services /\ f.in_progress # None
    BY Zenon, <1>1, <1>3, <1>11, PhaseFacts
  <2>2. /\ g0 \in FsType /\ g0.mg = f.mg /\ g0.group /\ g0.cg = "joined"
        /\ g0.registered = f.registered /\ g0.services = f.services
    BY Zenon, <1>7, <1>8 DEF FsType
  <2>3. /\ g0.in_progress = f.in_progress /\ g0.additional = f.additional /\ g0.ci = f.ci
        /\ g0.notified = f.notified /\ g0.err = f.err /\ g0.results = f.results
    BY Zenon, <1>7, <1>8 DEF FsType
  <2>4. WillAnswer(f) /\ ~Leaving(f)
    BY Zenon, <1>2, <1>11 DEF WillAnswer, Joining, Leaving
  <2>5. ASSUME g.ci = f.ci, g.in_progress = f.in_progress, Leaving(g) => g.err = "error"
        PROVE  g.ci # NoCi => \E c \in Clients : Owner(u, g, cl[c])
    <3> SUFFICES ASSUME g.ci # NoCi PROVE \E c \in Clients : Owner(u, g, cl[c])
      BY Zenon
    <3>1. PICK c \in Clients : Owner(u, f, cl[c])
      BY Zenon, <2>4, <2>5 DEF Safe, Owned
    <3> HIDE DEF g
    <3> QED BY Zenon, <2>4, <2>5, <3>1 DEF Owner
  <2>6. CASE sent
    <3>1. g = [g0 EXCEPT !.dfs = d, !.dlmc = m, !.results = r]
      BY ZenonT(30), <1>7, <1>8, <1>11, <2>1, <2>6 DEF finish_join, Joining, FsType
    <3>2. /\ d \in Seq(BOOLEAN) /\ r \in Seq({"ok", "error"}) /\ m \in BOOLEAN
          /\ d # <<>> /\ Head(d) = TRUE
      <4>1. f.dfs \in Seq(BOOLEAN) /\ f.results \in Seq({"ok", "error"}) /\ f.dlmc \in BOOLEAN
        BY Zenon, <1>1 DEF FsType
      <4> HIDE DEF f
      <4>2. d \in Seq(BOOLEAN) /\ r \in Seq({"ok", "error"}) /\ m \in BOOLEAN
        BY <4>1
      <4>3. Len(d) = Len(f.dfs) + 1 /\ d[1] = TRUE /\ Len(f.dfs) \in Nat
        BY <4>1
      <4>4. d # <<>>
        BY <4>2, <4>3
      <4> HIDE DEF d
      <4>5. Head(d) = d[1]
        BY <4>2, <4>4
      <4> QED BY Zenon, <4>2, <4>3, <4>4, <4>5
    <3>3. Len(r) = 1 /\ Head(r) = st /\ (st = "ok" => m)
      BY <1>11 DEF Joining
    <3> HIDE DEF g0, d, r, m, g
    <3>4. /\ g.mg = g0.mg /\ g.group = g0.group /\ g.cg = g0.cg /\ g.registered = g0.registered
          /\ g.services = g0.services /\ g.in_progress = g0.in_progress
      BY Zenon, <2>2, <3>1 DEF FsType
    <3>5. /\ g.additional = g0.additional /\ g.ci = g0.ci /\ g.notified = g0.notified
          /\ g.err = g0.err /\ g.results = r /\ g.dfs = d /\ g.dlmc = m
      BY Zenon, <2>2, <3>1 DEF FsType
    <3>6. Registering(g)
      BY ZenonT(30), <1>11, <2>2, <2>3, <3>2, <3>3, <3>4, <3>5 DEF Registering, Joining
    <3>7. Phase(g) /\ ~Leaving(g)
      BY Zenon, <1>2, <1>3, <2>2, <2>3, <3>4, <3>5, <3>6 DEF Phase, Registering, Leaving
    <3> QED BY Zenon, <1>9, <2>2, <2>3, <2>5, <3>4, <3>5, <3>7 DEF g
  <2>7. CASE ~sent
    <3>1. g = remove_service(fill_error(g0, "error"), g0.in_progress, left)
      BY Zenon, <1>7, <1>8, <1>11, <2>1, <2>3, <2>7 DEF finish_join, Joining
    <3> HIDE DEF g0, g
    <3>2. g0.services = {g0.in_progress} /\ ~g0.additional /\ g0.results = <<>> /\ g0.err = "ok"
          /\ g0.in_progress \in Services
      BY Zenon, <1>11, <2>1, <2>2, <2>3 DEF Joining
    <3>3. /\ Leaving(g) /\ Phase(g) /\ g.err = "error" /\ g.ci = g0.ci
          /\ g.in_progress = g0.in_progress
      BY Zenon, <1>2, <2>2, <3>1, <3>2, FailsOnly
    <3> QED BY Zenon, <1>9, <2>3, <2>5, <3>3 DEF g
  <2> QED BY Zenon, <2>6, <2>7
<1> QED BY Zenon, <1>3, <1>10, <1>11

\* register_result() keeps the invariant: the failure is left for the group's
\* leave to report, success is reported at once.
LEMMA RegisterResultSafe ==
    ASSUME Tame, Inv, Safe, daemon = "up", NEW u \in Uuids, NEW left \in BOOLEAN,
           register_result(u, left)
    PROVE  Safe'
<1> DEFINE f == fs[u]
           f0 == [f EXCEPT !.results = Tail(f.results)]
           st == Head(f.results)
           ignored == f0.dfs = <<>> \/ ~f0.group \/ f0.in_progress = None
<1>1. FsOK(mounts, fs) /\ ClOK(cl) /\ fs \in [Uuids -> FsType] /\ f \in FsType /\ Phase(f)
      /\ Distinct(cl)
  BY Zenon, InvParts DEF FsOK, Safe, Phases, Conns
<1>2. f.mg /\ Registering(f) /\ f.in_progress \in Services /\ f.in_progress # None
  <2>1. f.results # <<>>
    BY Zenon DEF register_result
  <2> QED BY Zenon, <1>1, <2>1, PhaseFacts
<1>3. Tail(f.results) = <<>> /\ st \in {"ok", "error"}
  <2>1. f.results \in Seq({"ok", "error"}) /\ Len(f.results) = 1
    BY Zenon, <1>1, <1>2 DEF FsType, Registering
  <2>2. f.results # <<>>
    BY Zenon DEF register_result
  <2> HIDE DEF f
  <2>3. Tail(f.results) \in Seq({"ok", "error"}) /\ Len(Tail(f.results)) = 0 /\ st \in {"ok", "error"}
    BY <2>1, <2>2
  <2> QED BY Zenon, <2>3, NoneLeft
<1>4. f0 = [f EXCEPT !.results = <<>>]
  BY Zenon, <1>3
<1> HIDE DEF f0
<1>5. /\ f0 \in FsType /\ f0.mg /\ f0.group /\ f0.cg = "joined" /\ ~f0.additional
      /\ f0.results = <<>> /\ f0.err = "ok"
  <2>1. <<>> \in Seq({"ok", "error"})
    OBVIOUS
  <2>2. f0 \in FsType /\ f0.results = <<>>
    BY Zenon, <1>1, <1>4, <2>1 DEF FsType
  <2>3. /\ f0.mg = f.mg /\ f0.group = f.group /\ f0.cg = f.cg /\ f0.additional = f.additional
        /\ f0.err = f.err
    BY Zenon, <1>1, <1>4 DEF FsType
  <2> QED BY Zenon, <1>2, <2>2, <2>3 DEF Registering
<1>6. /\ f0.in_progress = f.in_progress /\ f0.services = {f.in_progress} /\ f0.ci = f.ci
      /\ ~f0.registered /\ ~f0.notified
  BY Zenon, <1>1, <1>2, <1>4 DEF FsType, Registering
<1>7. f0.dfs = f.dfs /\ f0.dlmc = f.dlmc
  BY Zenon, <1>1, <1>4 DEF FsType
<1>8. ~ignored /\ f0.dfs # <<>> /\ Head(f0.dfs)
  BY Zenon, <1>2, <1>5, <1>6, <1>7 DEF Registering
<1>9. /\ fs' = [fs EXCEPT ![u] = IF ignored THEN f0
                                 ELSE IF st = "error"
                                 THEN remove_service(fill_error(f0, "error"), f0.in_progress, left)
                                 ELSE notify_mount_client([f0 EXCEPT !.registered = TRUE], cl)]
      /\ cl' = IF ignored \/ st = "error" THEN cl ELSE send_message(cl, f0.ci, f0.err)
      /\ kern' = kern /\ daemon' = daemon
  <2>1. ~(f0.dfs # <<>> /\ ~Head(f0.dfs))
    BY Zenon, <1>8
  <2>2. f0 = [fs[u] EXCEPT !.results = Tail(@)]
    BY Zenon DEF f0
  <2> QED BY Zenon, <2>1, <2>2 DEF register_result
<1> HIDE DEF ignored
<1>10. ~f.registered
  BY Zenon, <1>2 DEF Registering
<1>11. WillAnswer(f) /\ ~Leaving(f)
  BY Zenon, <1>2 DEF WillAnswer, Registering, Leaving
<1>12. CASE st = "error"
  <2> DEFINE g == remove_service(fill_error(f0, "error"), f0.in_progress, left)
  <2>1. fs' = [fs EXCEPT ![u] = g] /\ cl' = cl
    BY Zenon, <1>8, <1>9, <1>12
  <2>2. OnlyFs(u) /\ fs'[u] = g
    BY Zenon, <1>1, <2>1 DEF OnlyFs
  <2>3. /\ Leaving(g) /\ Phase(g) /\ g.err = "error" /\ g.ci = f0.ci
        /\ g.in_progress = f0.in_progress
    BY Zenon, <1>2, <1>5, <1>6, FailsOnly
  <2> HIDE DEF g
  <2>4. g.ci # NoCi => \E c \in Clients : Owner(u, g, cl[c])
    <3> SUFFICES ASSUME g.ci # NoCi PROVE \E c \in Clients : Owner(u, g, cl[c])
      BY Zenon
    <3>1. PICK c \in Clients : Owner(u, f, cl[c])
      BY Zenon, <1>6, <1>11, <2>3 DEF Safe, Owned
    <3> QED BY Zenon, <1>6, <1>11, <2>3, <3>1 DEF Owner
  <2>5. OnlyClients({}) /\ Distinct(cl')
    BY Zenon, <1>1, <2>1 DEF OnlyClients
  <2> QED BY Zenon, <1>9, <1>10, <2>1, <2>2, <2>3, <2>4, <2>5, EventStep
<1>13. CASE st = "ok"
  <2> DEFINE g1 == [f0 EXCEPT !.registered = TRUE]
             n == Reached(cl, f.ci) # {}
             g == [g1 EXCEPT !.err = "ok", !.notified = n]
  <2>1. /\ g1 \in FsType /\ g1.mg /\ g1.group /\ g1.cg = "joined" /\ ~g1.additional
        /\ g1.results = <<>> /\ g1.registered
    BY Zenon, <1>5 DEF FsType
  <2>2. /\ g1.in_progress = f.in_progress /\ g1.services = {f.in_progress} /\ g1.ci = f.ci
        /\ ~g1.notified /\ g1.dlmc = f.dlmc
    BY Zenon, <1>5, <1>6, <1>7 DEF FsType
  <2> HIDE DEF g1
  <2>3. notify_mount_client(g1, cl) = g
    <3>1. (g1.notified \/ Reached(cl, g1.ci) # {}) = n
      BY Zenon, <2>2
    <3> HIDE DEF n
    <3> QED BY Zenon, <3>1 DEF notify_mount_client
  <2>4. fs' = [fs EXCEPT ![u] = g] /\ cl' = send_message(cl, f.ci, "ok")
    <3>1. ~(ignored \/ st = "error")
      BY Zenon, <1>8, <1>13
    <3>2. fs' = [fs EXCEPT ![u] = notify_mount_client(g1, cl)] /\ cl' = send_message(cl, f.ci, "ok")
      BY Zenon, <1>5, <1>6, <1>9, <3>1 DEF g1
    <3> QED BY Zenon, <2>3, <3>2
  <2>5. n \in BOOLEAN
    BY Zenon
  <2> HIDE DEF n
  <2>6. /\ g.mg /\ g.group /\ g.cg = "joined" /\ ~g.additional /\ g.results = <<>>
        /\ g.registered /\ g.err = "ok"
    BY Zenon, <2>1, <2>5 DEF FsType
  <2>7. /\ g.in_progress = f.in_progress /\ g.services = {f.in_progress} /\ g.ci = f.ci
        /\ g.notified = n /\ g.dlmc
    <3>1. f.dlmc
      BY Zenon, <1>2, <1>13 DEF Registering
    <3> QED BY Zenon, <2>1, <2>2, <2>5, <3>1 DEF FsType
  <2> HIDE DEF g
  <2>8. Busy(g) /\ Phase(g) /\ ~WillAnswer(g)
    <3>1. Busy(g)
      BY Zenon, <2>6, <2>7 DEF Busy
    <3> QED BY Zenon, <2>6, <2>7, <3>1 DEF Phase, WillAnswer, Joining, Registering, Leaving
  <2>9. OnlyFs(u) /\ fs'[u] = g
    BY Zenon, <1>1, <2>4 DEF OnlyFs
  <2>10. CASE f.ci = NoCi
    <3>1. OnlyClients({}) /\ Distinct(cl')
      BY <1>1, <2>4, <2>10, SendNobody DEF OnlyClients, Distinct
    <3> QED BY Zenon, <1>9, <1>10, <2>8, <2>9, <3>1, EventStep
  <2>11. CASE f.ci # NoCi
    <3>1. PICK c \in Clients : Owner(u, f, cl[c])
      BY Zenon, <1>11, <2>11 DEF Safe, Owned
    <3>2. /\ cl[c].ci = f.ci /\ cl[c].u = u /\ cl[c].up = None /\ cl[c].down = <<>>
          /\ cl[c].pc \in {"joining", "gone"} /\ (cl[c].pc = "joining" => cl[c].s = f.in_progress)
          /\ ClientOK(cl[c])
      BY Zenon, <1>11, <3>1 DEF Owner, Safe, Conns
    <3>3. /\ Told(cl[c], cl'[c], "ok") /\ \A d \in Clients : d # c => cl'[d] = cl[d]
      BY <1>1, <2>4, <2>11, <3>2, SendStep DEF Status
    <3>4. ClientOK(cl'[c])
      BY Zenon, <3>2, <3>3, ToldOK DEF Status
    <3>5. /\ cl'[c].u = u /\ cl'[c].s = cl[c].s /\ cl'[c].ci = f.ci /\ cl'[c].up = None
          /\ cl'[c].pc = cl[c].pc
      BY Zenon, <3>2, <3>3 DEF Told, Heard
    <3>6. OnlyClients({c}) /\ Distinct(cl')
      BY <1>1, <3>2, <3>3, <3>5 DEF OnlyClients, Distinct
    <3>7. Granted(cl'[c]) => Kept(g, cl'[c])
      <4> SUFFICES ASSUME Granted(cl'[c]) PROVE Kept(g, cl'[c])
        BY Zenon
      <4>1. cl[c].pc = "joining"
        BY Zenon, <3>2, <3>5 DEF Granted, None
      <4>2. c \in Reached(cl, f.ci)
        BY Zenon, <2>11, <3>2, <4>1 DEF Reached
      <4>3. n
        BY Zenon, <4>2 DEF n
      <4> QED BY Zenon, <2>6, <2>7, <2>8, <2>11, <3>2, <3>5, <4>1, <4>3 DEF Kept
    <3>8. ClientMoved(c, u)
      BY Zenon, <2>9, <3>2, <3>4, <3>5, <3>7 DEF ClientMoved, Owner
    <3>9. ASSUME "hb_ctl" \notin Faults PROVE KernelMoved(c)
      <4>1. ~(kern[u].count > 0)
        BY Zenon, <1>10, <3>9, MountedNow
      <4> QED BY Zenon, <1>9, <3>2, <3>5, <4>1 DEF KernelMoved, HbCtl, None
    <3> QED BY Zenon, <1>9, <1>10, <2>8, <2>9, <3>6, <3>8, <3>9, EventStep
  <2> QED BY Zenon, <2>10, <2>11
<1> QED BY Zenon, <1>3, <1>12, <1>13

\* A client whose connection the daemon closed.
LEMMA Detached ==
    ASSUME NEW r \in ClType, ClientOK(r), r.pc # "gone"
    PROVE  LET q == [r EXCEPT !.ci = NoCi, !.up = None]
           IN  ClientOK(q) /\ q.pc = r.pc /\ q.u = r.u /\ q.s = r.s /\ q.ci = NoCi /\ q.up = None
               /\ q.down = r.down
<1> DEFINE q == [r EXCEPT !.ci = NoCi, !.up = None]
<1>1. q.pc = r.pc /\ q.u = r.u /\ q.s = r.s /\ q.ci = NoCi /\ q.up = None /\ q.down = r.down
  BY Zenon DEF ClType
<1> HIDE DEF q
<1>2. ClientOK(q)
  BY Zenon, <1>1 DEF ClientOK, None
<1> QED BY Zenon, <1>1, <1>2 DEF q

\* The end of the daemon keeps the invariant.
LEMMA ExitSafe ==
    ASSUME Inv, Safe, Exit
    PROVE  Safe'
<1>1. ClOK(cl) /\ cl \in [Clients -> ClType]
  BY Zenon, InvParts DEF ClOK
<1>2. fs' = fs /\ kern' = kern /\ daemon' = "exited"
  BY Zenon DEF Exit
<1>3. \A c \in Clients : ClientOK(cl[c])
  BY Zenon DEF Safe, Conns
<1>4. \A c \in Clients : cl'[c] = IF cl[c].pc = "gone" THEN IdleClient
                                  ELSE [cl[c] EXCEPT !.ci = NoCi, !.up = None]
  BY Zenon DEF Exit
<1>5. \A c \in Clients : /\ ClientOK(cl'[c]) /\ cl'[c].ci = NoCi /\ cl'[c].up = None
                         /\ HbCtl(cl'[c]) => HbCtl(cl[c]) /\ cl'[c].u = cl[c].u
  <2> TAKE c \in Clients
  <2>1. CASE cl[c].pc = "gone"
    <3>1. cl'[c] = IdleClient /\ IdleClient.up = None
      BY Zenon, <1>4, <2>1 DEF IdleClient
    <3> QED BY Zenon, <3>1, IdleOK DEF HbCtl
  <2>2. CASE cl[c].pc # "gone"
    <3>1. cl'[c] = [cl[c] EXCEPT !.ci = NoCi, !.up = None] /\ cl[c] \in ClType
      BY Zenon, <1>1, <1>4, <2>2
    <3>2. /\ ClientOK(cl'[c]) /\ cl'[c].pc = cl[c].pc /\ cl'[c].u = cl[c].u /\ cl'[c].s = cl[c].s
          /\ cl'[c].ci = NoCi /\ cl'[c].up = None
      <4> DEFINE r == cl[c]
      <4>1. r \in ClType /\ ClientOK(r) /\ r.pc # "gone"
        BY Zenon, <1>3, <2>2, <3>1
      <4>2. cl'[c] = [r EXCEPT !.ci = NoCi, !.up = None]
        BY Zenon, <3>1
      <4> HIDE DEF r
      <4>3. /\ ClientOK(cl'[c]) /\ cl'[c].pc = r.pc /\ cl'[c].u = r.u /\ cl'[c].s = r.s
            /\ cl'[c].ci = NoCi /\ cl'[c].up = None
        BY Zenon, <4>1, <4>2, Detached
      <4> QED BY Zenon, <4>3 DEF r
    <3> QED BY Zenon, <3>2 DEF HbCtl
  <2> QED BY Zenon, <2>1, <2>2
<1>6. Phases' /\ Owned' /\ Grants' /\ Mounted'
  BY Zenon, <1>2 DEF Safe, Phases, Owned, Grants, Mounted
<1>7. Conns'
  BY Zenon, <1>5 DEF Conns, Distinct
<1>8. "hb_ctl" \notin Faults => Unmounting'
  BY Zenon, <1>2, <1>5 DEF Safe, KernelOK, Unmounting, None
<1> QED BY Zenon, <1>2, <1>6, <1>7, <1>8 DEF Safe, KernelOK

\* finalize_group() keeps the invariant: the client that waits is told, or its
\* connection is closed, and the mountgroup is gone.
LEMMA FinalizeSafe ==
    ASSUME Tame, Inv, Safe, daemon = "up", NEW u \in Uuids, fs[u].cg # "none", finalize_group(u)
    PROVE  Safe'
<1> DEFINE f == fs[u]
           done == f.services = {} /\ f.in_progress # None
           g == CgGone(free_mg(f))
<1>1. /\ FsOK(mounts, fs) /\ ClOK(cl) /\ fs \in [Uuids -> FsType] /\ f \in FsType /\ Phase(f)
      /\ Distinct(cl) /\ cl \in [Clients -> ClType]
  BY Zenon, InvParts DEF FsOK, ClOK, Safe, Phases, Conns
<1>2. f.mg /\ f.cg_live
  BY Zenon, <1>1 DEF FsOK, GroupOK, Tame
<1>3. CASE ~done /\ f.group
  <2>1. Exit
    BY Zenon, <1>2, <1>3 DEF finalize_group
  <2> QED BY Zenon, <2>1, ExitSafe
<1>4. CASE done \/ ~f.group
  <2>1. /\ cl' = IF done THEN send_message(cl, f.ci, f.err) ELSE connection_dead(cl, f.ci)
        /\ fs' = [fs EXCEPT ![u] = g] /\ kern' = kern /\ daemon' = daemon
    BY Zenon, <1>2, <1>4 DEF finalize_group
  <2>2. /\ (done => Abandoned(f) \/ Leaving(f)) /\ (~done => Joining(f))
        /\ f.results = <<>> /\ ~f.registered
    BY Zenon, <1>1, <1>2, <1>4 DEF Phase, Absent, Joining, Abandoned, Registering, Live, Busy, Leaving
  <2> HIDE DEF done
  <2>3. Phase(g) /\ ~WillAnswer(g)
    <3> DEFINE m == free_mg(f)
    <3>1. m \in FsType /\ Absent(m) /\ m.err # "EALREADY"
      BY Zenon, <1>1, <2>2, FreeMg, FreeFields DEF Phase
    <3> HIDE DEF m
    <3>2. CgGone(m) = [m EXCEPT !.cg = "none", !.cg_live = FALSE, !.cg_ci = NoCi]
      BY Zenon DEF CgGone
    <3> DEFINE q == CgGone(m)
    <3>3. q.mg = m.mg /\ q.services = m.services /\ q.in_progress = m.in_progress
          /\ q.results = m.results
      BY Zenon, <3>1, <3>2 DEF FsType
    <3>4. q.registered = m.registered /\ q.additional = m.additional /\ q.ci = m.ci /\ q.err = m.err
      BY Zenon, <3>1, <3>2 DEF FsType
    <3> HIDE DEF q
    <3>5. Absent(q) /\ Phase(q) /\ ~WillAnswer(q)
      BY Zenon, <3>1, <3>3, <3>4 DEF Absent, Phase, WillAnswer
    <3> QED BY Zenon, <3>5 DEF q, m
  <2> HIDE DEF g
  <2>4. OnlyFs(u) /\ fs'[u] = g
    BY Zenon, <1>1, <2>1 DEF OnlyFs
  <2>5. CASE f.ci = NoCi
    <3>1. \A d \in Clients : cl'[d] = cl[d]
      BY Zenon, <1>1, <2>1, <2>5, SendNobody
    <3>2. OnlyClients({}) /\ Distinct(cl')
      BY Zenon, <1>1, <3>1 DEF OnlyClients, Distinct
    <3> QED BY Zenon, <2>1, <2>2, <2>3, <2>4, <3>2, EventStep
  <2>6. CASE f.ci # NoCi
    <3>1. PICK c \in Clients : Owner(u, f, cl[c])
      <4>1. WillAnswer(f)
        BY Zenon, <1>2, <2>2, <2>6 DEF WillAnswer, Abandoned
      <4> QED BY Zenon, <2>6, <4>1 DEF Safe, Owned
    <3>2. /\ cl[c].ci = f.ci /\ cl[c].u = u /\ cl[c].up = None /\ cl[c].down = <<>>
          /\ cl[c].pc \in {"joining", "result", "leaving", "gone"}
          /\ ClientOK(cl[c]) /\ cl[c] \in ClType
      BY Zenon, <1>1, <3>1 DEF Owner, Safe, Conns
    <3>3. ASSUME ClientOK(cl'[c]), ~Granted(cl'[c]), cl'[c].up = None, cl'[c].ci \in {cl[c].ci, NoCi},
                 HbCtl(cl'[c]) => HbCtl(cl[c]) /\ cl'[c].u = cl[c].u,
                 \A d \in Clients : d # c => cl'[d] = cl[d]
          PROVE  Safe'
      <4>1. OnlyClients({c}) /\ Distinct(cl')
        BY Zenon, <1>1, <3>3, DistinctStep DEF OnlyClients, Safe
      <4>2. ClientMoved(c, u) /\ KernelMoved(c)
        BY Zenon, <3>2, <3>3 DEF ClientMoved, KernelMoved, Owner, None
      <4> QED BY Zenon, <2>1, <2>2, <2>3, <2>4, <4>1, <4>2, EventStep
    <3>4. CASE done
      <4>1. f.err \in Status /\ cl' = send_message(cl, cl[c].ci, f.err)
        BY Zenon, <1>1, <2>1, <3>2, <3>4 DEF FsType
      <4>2. Told(cl[c], cl'[c], f.err) /\ \A d \in Clients : d # c => cl'[d] = cl[d]
        BY ZenonT(30), <1>1, <2>6, <3>2, <4>1, SendStep
      <4>3. ClientOK(cl'[c])
        BY Zenon, <3>2, <4>1, <4>2, ToldOK
      <4>4. ~Granted(cl'[c])
        <5>1. cl[c].pc = "joining" => f.err = "error"
          BY Zenon, <2>2, <2>6, <3>1, <3>4 DEF Owner, Abandoned
        <5>2. Head(<<"error">>) = "error"
          OBVIOUS
        <5> QED BY Zenon, <3>2, <4>2, <5>1, <5>2 DEF Granted, Told, Heard, None
      <4> QED BY Zenon, <3>3, <4>2, <4>3, <4>4 DEF Told, Heard, HbCtl
    <3>5. CASE ~done
      <4>1. cl' = connection_dead(cl, cl[c].ci)
        BY Zenon, <2>1, <3>2, <3>5
      <4>2. /\ cl[c].pc = "gone" => cl'[c] = IdleClient
            /\ cl[c].pc # "gone" => cl'[c] = [cl[c] EXCEPT !.ci = NoCi, !.up = None]
            /\ \A d \in Clients : d # c => cl'[d] = cl[d]
        BY Zenon, <1>1, <2>6, <3>2, <4>1, DeadStep
      <4>3. CASE cl[c].pc = "gone"
        BY <3>3, <4>2, <4>3, IdleOK DEF HbCtl, IdleClient
      <4>4. CASE cl[c].pc # "gone"
        <5> DEFINE r == cl[c]
        <5>1. r \in ClType /\ ClientOK(r) /\ r.pc # "gone" /\ r.down = <<>>
          BY Zenon, <3>2, <4>4
        <5>2. cl'[c] = [r EXCEPT !.ci = NoCi, !.up = None]
          BY Zenon, <4>2, <4>4
        <5>3. r.pc \in {"joining", "result", "leaving"}
          BY Zenon, <3>2, <4>4
        <5> HIDE DEF r
        <5>4. /\ ClientOK(cl'[c]) /\ cl'[c].pc = r.pc /\ cl'[c].u = r.u /\ cl'[c].s = r.s
              /\ cl'[c].ci = NoCi /\ cl'[c].up = None /\ cl'[c].down = <<>>
          BY Zenon, <5>1, <5>2, Detached
        <5>5. ~Granted(cl'[c])
          BY Zenon, <5>3, <5>4 DEF Granted, None
        <5> QED BY Zenon, <3>3, <4>2, <5>4, <5>5 DEF HbCtl, r
      <4> QED BY Zenon, <4>3, <4>4
    <3> QED BY Zenon, <3>4, <3>5
  <2> QED BY Zenon, <2>5, <2>6
<1> QED BY Zenon, <1>3, <1>4

\* Every step of the daemon keeps the invariant.
LEMMA DaemonSafe ==
    ASSUME Tame, Inv, Safe, Daemon
    PROVE  Safe'
<1>1. daemon = "up" /\ Lefts \subseteq BOOLEAN
  BY Zenon DEF Daemon, Lefts
<1>2. ASSUME NEW c \in Clients, ProcessClient(c) PROVE Safe'
  <2>1. ASSUME NEW bad \in BOOLEAN, NEW joined \in BOOLEAN, NEW i \in Slots,
               start_mount(c, bad, joined, i)
        PROVE  Safe'
    BY Zenon, <1>1, <2>1, StartMountSafe
  <2>2. ASSUME NEW left \in Lefts,
               complete_mount(c, left) \/ remove_mount(c, left) \/ dead_client(c, left)
        PROVE  Safe'
    BY Zenon, <1>1, <2>2, CompleteMountSafe, RemoveMountSafe, DeadClientSafe
  <2> QED BY Zenon, <1>2, <2>1, <2>2 DEF ProcessClient
<1>3. ASSUME NEW u \in Uuids, GroupEvent(u) PROVE Safe'
  <2>1. ASSUME NEW sent \in BOOLEAN, NEW st \in {"ok", "error"}, NEW left \in Lefts,
               handle_node_join(u, sent, st, left)
        PROVE  Safe'
    BY Zenon, <1>1, <2>1, NodeJoinSafe
  <2>2. ASSUME NEW left \in Lefts, register_result(u, left) PROVE Safe'
    BY Zenon, <1>1, <2>2, RegisterResultSafe
  <2>3. ASSUME handle_node_leave(u) PROVE Safe'
    BY Zenon, <1>1, <2>3, FinalizeSafe DEF handle_node_leave
  <2> QED BY Zenon, <1>3, <2>1, <2>2, <2>3 DEF GroupEvent
<1>4. ASSUME NEW u \in Uuids, dead_cpg(u) PROVE Safe'
  BY Zenon, <1>1, <1>4, FinalizeSafe DEF dead_cpg
<1>5. ASSUME handle_signal PROVE Safe'
  BY Zenon, <1>5, ExitSafe DEF handle_signal
<1> QED BY Zenon, <1>2, <1>3, <1>4, <1>5 DEF Daemon

-----------------------------------------------------------------------------
(* The steps of the clients and of the kernel.                             *)

\* What a step of client c has to show: it stays the owner it was, and what it
\* was told is still kept.
LEMMA ClientChange ==
    ASSUME Safe, NEW c \in Clients, fs' = fs, daemon' = daemon, OnlyClients({c}), Distinct(cl'),
           ClientOK(cl'[c]),
           \A v \in Uuids : Owner(v, fs[v], cl[c]) /\ fs[v].ci # NoCi => Owner(v, fs[v], cl'[c]),
           daemon = "up" /\ Granted(cl'[c]) => Kept(fs[cl'[c].u], cl'[c]),
           KernelOK'
    PROVE  Safe'
<1>1. Phases' /\ Conns'
  BY Zenon DEF Safe, Phases, Conns, OnlyClients
<1>2. Owned'
  <2> SUFFICES ASSUME daemon = "up", NEW v \in Uuids, WillAnswer(fs[v]), fs[v].ci # NoCi
               PROVE  \E d \in Clients : Owner(v, fs[v], cl'[d])
    BY Zenon DEF Owned
  <2>1. PICK d \in Clients : Owner(v, fs[v], cl[d])
    BY Zenon DEF Safe, Owned
  <2> QED BY Zenon, <2>1 DEF OnlyClients
<1>3. Grants'
  BY Zenon DEF Safe, Grants, OnlyClients
<1> QED BY Zenon, <1>1, <1>2, <1>3 DEF Safe

\* The kernel's part of it, when the kernel does not move.
LEMMA KernelStays ==
    ASSUME Inv, Safe, NEW c \in Clients, NEW u \in Uuids, fs' = fs, daemon' = daemon, kern' = kern,
           OnlyClients({c}), "hb_ctl" \notin Faults => KernelMoved(c)
    PROVE  KernelOK'
<1>1. ClOK(cl) /\ OnlyFs(u)
  BY Zenon, InvParts DEF OnlyFs
<1>2. ASSUME "hb_ctl" \notin Faults PROVE Mounted' /\ Unmounting'
  <2>1. daemon = "up" /\ kern[u].count > 0 =>
          fs[u].registered /\ fs[u].notified /\ "ocfs2" \in fs[u].services
    BY Zenon, <1>2, MountedNow
  <2> QED BY Zenon, <1>1, <1>2, <2>1, KernelStep
<1> QED BY Zenon, <1>2 DEF KernelOK

\* A client that has not been told to go ahead, has nothing to say and does not
\* run for the kernel.
LEMMA QuietMoved ==
    ASSUME NEW c \in Clients, ~Granted(cl'[c]), ~HbCtl(cl'[c]),
           cl'[c].up = "UNMOUNT" => cl'[c].s # "ocfs2"
    PROVE  KernelMoved(c)
  BY Zenon DEF KernelMoved

\* A client that closes its connection.
LEMMA ClosedOK ==
    ASSUME NEW c \in Clients, cl[c] \in ClType, ClientOK(cl[c]), cl[c].up # None => Mortal
    PROVE  /\ ClientOK(Closed(c)) /\ Closed(c).ci = cl[c].ci /\ ~HbCtl(Closed(c))
           /\ cl[c].ci = NoCi => Closed(c) = IdleClient
           /\ cl[c].ci # NoCi => /\ Closed(c).pc = "gone" /\ Closed(c).u = cl[c].u
                                 /\ Closed(c).s = cl[c].s /\ Closed(c).up = cl[c].up
                                 /\ Closed(c).down = <<>>
<1>1. CASE cl[c].ci = NoCi
  BY Zenon, <1>1, IdleOK DEF Closed, HbCtl
<1>2. CASE cl[c].ci # NoCi
  <2> DEFINE r == cl[c]
             q == Closed(c)
  <2>1. q = [r EXCEPT !.pc = "gone", !.down = <<>>]
    BY Zenon, <1>2 DEF Closed
  <2>2. r \in ClType /\ r.ci # NoCi /\ (r.up # None => Mortal)
    BY Zenon, <1>2
  <2> HIDE DEF r, q
  <2>3. q.pc = "gone" /\ q.u = r.u /\ q.s = r.s /\ q.up = r.up /\ q.down = <<>> /\ q.ci = r.ci
    BY Zenon, <2>1, <2>2 DEF ClType
  <2>4. ClientOK(q) /\ ~HbCtl(q)
    BY Zenon, <2>2, <2>3 DEF ClientOK, HbCtl
  <2> QED BY Zenon, <1>2, <2>3, <2>4 DEF q, r
<1> QED BY Zenon, <1>1, <1>2

\* A client with nothing on its way to the daemon closes its connection.
LEMMA CloseSafe ==
    ASSUME Inv, Safe, NEW c \in Clients, fs' = fs, daemon' = daemon, cl[c].up = None,
           cl[c].down # <<>>, cl' = [cl EXCEPT ![c] = Closed(c)], cl[c].u \in Uuids,
           kern' = kern \/ KernelOK'
    PROVE  Safe'
<1>1. cl \in [Clients -> ClType] /\ ClientOK(cl[c]) /\ Conns
  BY Zenon, InvParts DEF ClOK, Safe, Conns
<1>2. cl'[c] = Closed(c) /\ OnlyClients({c})
  BY Zenon, <1>1 DEF OnlyClients
<1>3. ClientOK(cl'[c]) /\ cl'[c].ci = cl[c].ci /\ ~HbCtl(cl'[c])
  BY Zenon, <1>1, <1>2, ClosedOK
<1>4. cl'[c].up # "UNMOUNT" /\ ~Granted(cl'[c])
  BY <1>1, <1>2, ClosedOK, IdleOK DEF Granted, None, IdleClient
<1>5. Distinct(cl')
  BY Zenon, <1>1, <1>2, <1>3, DistinctStep DEF OnlyClients
<1>6. KernelOK'
  BY Zenon, <1>2, <1>3, <1>4, QuietMoved, KernelStays
<1>7. \A v \in Uuids : ~Owner(v, fs[v], cl[c])
  BY Zenon DEF Owner
<1> QED BY Zenon, <1>2, <1>3, <1>4, <1>5, <1>6, <1>7, ClientChange

\* The kernel's umount ends with its ocfs2_hb_ctl, and that was the only one.
LEMMA UmountEnds ==
    ASSUME Inv, Safe, NEW c \in Clients, HbCtl(cl[c]), OnlyClients({c}), fs' = fs,
           daemon' = daemon, kern' = Finished(c), ~Granted(cl'[c]), ~HbCtl(cl'[c]),
           cl'[c].up # "UNMOUNT"
    PROVE  KernelOK'
<1> SUFFICES ASSUME "hb_ctl" \notin Faults PROVE Mounted' /\ Unmounting'
  BY Zenon DEF KernelOK
<1> DEFINE u == cl[c].u
<1>1. kern \in [Uuids -> [count : 0..MaxMounts, umounting : BOOLEAN]] /\ u \in Uuids /\ ClOK(cl)
  BY Zenon, InvParts DEF ClOK, HbCtl
<1>2. Mounted /\ Unmounting
  BY Zenon DEF Safe, KernelOK
<1>3. \A v \in Uuids : /\ kern'[v].count = kern[v].count
                       /\ v # u => kern'[v] = kern[v]
  BY Zenon, <1>1 DEF Finished
<1>4. \A d \in Clients : Granted(cl[d]) \/ HbCtl(cl[d]) => cl[d].u \in Uuids
  BY Zenon, <1>1 DEF ClOK, Granted, HbCtl, None
<1>5. Mounted'
  BY <1>2, <1>3, <1>4 DEF Mounted, OnlyClients
<1>6. Unmounting'
  BY <1>2, <1>3, <1>4 DEF Unmounting, OnlyClients
<1> QED BY Zenon, <1>5, <1>6

\* join_status() keeps the invariant.
LEMMA JoinStatusSafe ==
    ASSUME Inv, Safe, NEW c \in Clients, join_status(c)
    PROVE  Safe'
<1> DEFINE r == cl[c]
           q == [r EXCEPT !.pc = "mounting", !.down = Tail(r.down)]
<1>1. /\ cl \in [Clients -> ClType] /\ r \in ClType /\ ClientOK(r) /\ Conns
      /\ r.pc = "joining" /\ r.down # <<>> /\ r.up = None /\ r.u \in Uuids
      /\ fs' = fs /\ kern' = kern /\ daemon' = daemon
  BY Zenon, InvParts DEF ClOK, Safe, Conns, ClientOK, join_status
<1>2. CASE Head(r.down) = "error"
  <2>1. cl' = [cl EXCEPT ![c] = Closed(c)]
    BY Zenon, <1>2 DEF join_status
  <2> QED BY Zenon, <1>1, <2>1, CloseSafe
<1>3. CASE Head(r.down) # "error"
  <2>1. cl' = [cl EXCEPT ![c] = q]
    BY Zenon, <1>3 DEF join_status
  <2>2. OnlyClients({c}) /\ cl'[c] = q
    BY Zenon, <1>1, <2>1 DEF OnlyClients
  <2>3. Tail(r.down) = <<>>
    <3>1. r.down \in Seq(Status) /\ Len(r.down) = 1 /\ r.down # <<>>
      BY Zenon, <1>1 DEF ClType, ClientOK
    <3> HIDE DEF r
    <3>2. Tail(r.down) \in Seq(Status) /\ Len(Tail(r.down)) = 0
      BY <3>1
    <3> QED BY Zenon, <3>2, NoneLeft
  <2>4. Granted(r)
    BY Zenon, <1>1, <1>3 DEF Granted
  <2>5. daemon = "up" => Kept(fs[r.u], r)
    BY Zenon, <2>4 DEF Safe, Grants
  <2>6. q = [r EXCEPT !.pc = "mounting", !.down = <<>>]
    BY Zenon, <2>3
  <2>7. ASSUME "hb_ctl" \notin Faults, daemon = "up", r.s = "ocfs2", kern[r.u].count > 0
        PROVE  fs[r.u].additional
    BY Zenon, <1>1, <2>4, <2>7 DEF Safe, KernelOK, Mounted, None
  <2> HIDE DEF r, q
  <2>8. q.pc = "mounting" /\ q.u = r.u /\ q.s = r.s /\ q.ci = r.ci /\ q.up = None /\ q.down = <<>>
    BY Zenon, <1>1, <2>6 DEF ClType
  <2>9. ClientOK(q) /\ ~HbCtl(q)
    BY Zenon, <2>8 DEF ClientOK, HbCtl, None
  <2>10. Distinct(cl')
    BY Zenon, <1>1, <2>2, <2>8, DistinctStep DEF OnlyClients, r
  <2>11. "hb_ctl" \notin Faults => KernelMoved(c)
    BY Zenon, <1>1, <2>2, <2>7, <2>8, <2>9 DEF KernelMoved, None
  <2>12. KernelOK'
    BY Zenon, <1>1, <2>2, <2>11, KernelStays
  <2>13. \A v \in Uuids : ~Owner(v, fs[v], cl[c])
    BY Zenon, <1>1 DEF Owner, r
  <2>14. daemon = "up" /\ Granted(cl'[c]) => Kept(fs[cl'[c].u], cl'[c])
    BY Zenon, <2>2, <2>5, <2>8 DEF Kept
  <2> QED BY Zenon, <1>1, <2>2, <2>9, <2>10, <2>12, <2>13, <2>14, ClientChange
<1> QED BY Zenon, <1>2, <1>3

\* mount(2) keeps the invariant: a mount that was granted has what it needs, and
\* nobody else was granted one.
LEMMA MountSafe ==
    ASSUME Inv, Safe, NEW c \in Clients, NEW ok \in BOOLEAN, mount(c, ok)
    PROVE  Safe'
<1> DEFINE r == cl[c]
           u == r.u
           m == IF r.ci = NoCi THEN None ELSE IF ok THEN "MRESULT0" ELSE "MRESULT1"
           q == [r EXCEPT !.pc = "result", !.ok = ok, !.up = m]
<1>1. /\ cl \in [Clients -> ClType] /\ r \in ClType /\ ClientOK(r) /\ Conns /\ ClOK(cl)
      /\ r.pc = "mounting" /\ u \in Uuids /\ fs' = fs /\ daemon' = daemon
      /\ kern \in [Uuids -> [count : 0..MaxMounts, umounting : BOOLEAN]]
  BY Zenon, InvParts DEF ClOK, Safe, Conns, mount
<1>2. cl' = [cl EXCEPT ![c] = q]
  BY Zenon, <1>1 DEF mount
<1>3. OnlyClients({c}) /\ cl'[c] = q
  BY Zenon, <1>1, <1>2 DEF OnlyClients
<1>4. Granted(r) /\ (daemon = "up" => Kept(fs[u], r))
  BY Zenon, <1>1 DEF Granted, Safe, Grants
<1>5. m \in {None, "MRESULT0", "MRESULT1"} /\ (m # None => r.ci # NoCi)
      /\ (r.ci # NoCi /\ ok => m = "MRESULT0") /\ (~ok => m # "MRESULT0")
  BY Zenon DEF None
<1>6. ASSUME "hb_ctl" \notin Faults, daemon = "up", r.s = "ocfs2", kern[u].count > 0
      PROVE  fs[u].additional
  <2>1. r.up = None
    BY Zenon, <1>1 DEF ClientOK
  <2> QED BY Zenon, <1>4, <1>6, <2>1 DEF Safe, KernelOK, Mounted, None
<1>7. /\ r.s = "ocfs2" => ~kern[u].umounting
      /\ kern' = IF ok /\ r.s = "ocfs2" THEN [kern EXCEPT ![u].count = @ + 1] ELSE kern
  BY Zenon DEF mount
<1> HIDE DEF m
<1>8. q.pc = "result" /\ q.u = u /\ q.s = r.s /\ q.ci = r.ci /\ q.up = m /\ q.down = <<>>
  <2>1. r.down = <<>>
    BY Zenon, <1>1 DEF ClientOK
  <2>2. r \in ClType
    BY Zenon, <1>1
  <2> HIDE DEF r
  <2> QED BY Zenon, <2>1, <2>2 DEF ClType
<1> HIDE DEF q
<1>9. ClientOK(q) /\ ~HbCtl(q)
  BY Zenon, <1>5, <1>8 DEF ClientOK, HbCtl, None
<1>10. Distinct(cl')
  BY Zenon, <1>1, <1>3, <1>8, DistinctStep DEF OnlyClients
<1>11. \A v \in Uuids : ~Owner(v, fs[v], cl[c])
  BY Zenon, <1>1 DEF Owner
<1>12. daemon = "up" /\ Granted(cl'[c]) => Kept(fs[cl'[c].u], cl'[c])
  BY Zenon, <1>3, <1>4, <1>8 DEF Kept
<1>13. CASE ok /\ r.s = "ocfs2"
  <2>1. /\ \A v \in Uuids : v # u => kern'[v] = kern[v]
        /\ kern[u].count >= 0
    BY <1>1, <1>7, <1>13
  <2>2. ASSUME "hb_ctl" \notin Faults PROVE Mounted'
    <3> SUFFICES ASSUME daemon = "up"
                 PROVE  Mounted'
      <4>1. daemon # "up" => Mounted'
        BY Zenon, <1>1 DEF Mounted
      <4> QED BY Zenon, <4>1
    <3>1. Mounted
      BY Zenon, <2>2 DEF Safe, KernelOK
    <3>2. fs[u].registered /\ fs[u].notified /\ "ocfs2" \in fs[u].services
      BY Zenon, <1>4, <1>13 DEF Kept, Busy
    <3>3. \A v \in Uuids : kern'[v].count > 0 =>
            fs[v].registered /\ fs[v].notified /\ "ocfs2" \in fs[v].services
      BY Zenon, <2>1, <3>1, <3>2 DEF Mounted
    <3>4. ASSUME NEW d \in Clients, Granted(cl'[d]), cl'[d].up # "MRESULT0", cl'[d].s = "ocfs2",
                 kern'[cl'[d].u].count > 0
          PROVE  fs[cl'[d].u].additional
      <4>1. d # c
        BY Zenon, <1>3, <1>4, <1>5, <1>8, <1>13, <3>4 DEF Kept
      <4>2. cl'[d] = cl[d] /\ Kept(fs[cl[d].u], cl[d]) /\ cl[d].u \in Uuids
        BY Zenon, <1>1, <1>3, <3>4, <4>1 DEF OnlyClients, Safe, Grants, ClOK, Granted, None
      <4>3. cl[d].u # u
        <5>1. cl[d].u = u => cl[d].ci = r.ci /\ r.ci # NoCi
          BY Zenon, <1>4, <4>2 DEF Kept
        <5> QED BY Zenon, <1>1, <4>1, <5>1 DEF Conns, Distinct
      <4> QED BY Zenon, <2>1, <3>1, <3>4, <4>2, <4>3 DEF Mounted
    <3> QED BY Zenon, <1>1, <3>3, <3>4 DEF Mounted
  <2>3. ASSUME "hb_ctl" \notin Faults PROVE Unmounting'
    <3>1. Unmounting
      BY Zenon, <2>3 DEF Safe, KernelOK
    <3>2. \A d \in Clients : HbCtl(cl'[d]) => HbCtl(cl[d]) /\ cl'[d].u = cl[d].u /\ cl[d].u \in Uuids
      BY Zenon, <1>1, <1>3, <1>9 DEF OnlyClients, HbCtl, ClOK
    <3>3. \A d \in Clients : HbCtl(cl'[d]) => kern'[cl'[d].u].umounting /\ kern'[cl'[d].u].count = 0
      BY <1>7, <1>13, <2>1, <3>1, <3>2 DEF Unmounting
    <3>4. cl'[c].up # "UNMOUNT"
      BY Zenon, <1>3, <1>5, <1>8 DEF None
    <3> QED BY ZenonT(30), <1>3, <3>1, <3>2, <3>3, <3>4 DEF Unmounting, OnlyClients
  <2>4. KernelOK'
    BY Zenon, <2>2, <2>3 DEF KernelOK
  <2> QED BY Zenon, <1>1, <1>3, <1>9, <1>10, <1>11, <1>12, <2>4, ClientChange
<1>14. CASE ~(ok /\ r.s = "ocfs2")
  <2>1. kern' = kern
    BY Zenon, <1>7, <1>14
  <2>2. "hb_ctl" \notin Faults => KernelMoved(c)
    BY Zenon, <1>1, <1>3, <1>5, <1>6, <1>8, <1>9, <2>1 DEF KernelMoved, None
  <2>3. KernelOK'
    BY Zenon, <1>1, <1>3, <2>1, <2>2, KernelStays
  <2> QED BY Zenon, <1>1, <1>3, <1>9, <1>10, <1>11, <1>12, <2>3, ClientChange
<1> QED BY Zenon, <1>13, <1>14

\* A client that has its answer closes its connection, and with it the kernel's
\* umount ends.
LEMMA AnsweredSafe ==
    ASSUME Inv, Safe, NEW c \in Clients, complete_group_join(c) \/ leave_status(c)
    PROVE  Safe'
<1>1. /\ cl \in [Clients -> ClType] /\ cl[c] \in ClType /\ ClientOK(cl[c]) /\ cl[c].u \in Uuids
      /\ cl[c].down # <<>> /\ cl[c].up = None /\ fs' = fs /\ daemon' = daemon
      /\ cl' = [cl EXCEPT ![c] = Closed(c)]
  BY Zenon, InvParts DEF ClOK, Safe, Conns, ClientOK, complete_group_join, leave_status
<1>2. kern' = kern \/ (HbCtl(cl[c]) /\ kern' = Finished(c))
  BY Zenon DEF complete_group_join, leave_status, Finished, HbCtl
<1>3. ASSUME HbCtl(cl[c]), kern' = Finished(c) PROVE KernelOK'
  <2>1. OnlyClients({c}) /\ cl'[c] = Closed(c)
    BY Zenon, <1>1 DEF OnlyClients
  <2>2. ~Granted(cl'[c]) /\ ~HbCtl(cl'[c]) /\ cl'[c].up # "UNMOUNT"
    BY <1>1, <2>1, ClosedOK, IdleOK DEF Granted, None, IdleClient
  <2> QED BY Zenon, <1>1, <1>3, <2>1, <2>2, UmountEnds
<1> QED BY Zenon, <1>1, <1>2, <1>3, CloseSafe

\* A client whose connection the daemon closed ends, and the kernel's umount with
\* it.
LEMMA LostSafe ==
    ASSUME Inv, Safe, NEW c \in Clients, connection_lost(c)
    PROVE  Safe'
<1>1. /\ cl \in [Clients -> ClType] /\ cl[c].u \in Uuids /\ cl[c].ci = NoCi
      /\ fs' = fs /\ daemon' = daemon /\ cl' = [cl EXCEPT ![c] = IdleClient]
  BY Zenon, InvParts DEF ClOK, connection_lost
<1>2. OnlyClients({c}) /\ cl'[c] = IdleClient
  BY Zenon, <1>1 DEF OnlyClients
<1>3. ClientOK(cl'[c]) /\ ~Granted(cl'[c]) /\ ~HbCtl(cl'[c]) /\ cl'[c].up # "UNMOUNT"
  BY <1>2, IdleOK DEF HbCtl, IdleClient, None
<1>4. Distinct(cl')
  BY Zenon, <1>2, IdleOK, DistinctStep DEF OnlyClients, Safe
<1>5. KernelOK'
  <2>1. CASE HbCtl(cl[c])
    BY Zenon, <1>1, <1>2, <1>3, <2>1, UmountEnds DEF connection_lost
  <2>2. CASE ~HbCtl(cl[c])
    <3>1. kern' = kern
      BY Zenon, <2>2 DEF connection_lost, Finished, HbCtl
    <3> QED BY Zenon, <1>1, <1>2, <1>3, <3>1, QuietMoved, KernelStays
  <2> QED BY Zenon, <2>1, <2>2
<1>6. \A v \in Uuids : ~(Owner(v, fs[v], cl[c]) /\ fs[v].ci # NoCi)
  BY Zenon, <1>1 DEF Owner
<1> QED BY Zenon, <1>1, <1>2, <1>3, <1>4, <1>5, <1>6, ClientChange

\* The death of a client keeps the invariant: an owner stays one, and what it has
\* sent is still to be read.
LEMMA DieSafe ==
    ASSUME Inv, Safe, NEW c \in Clients, die(c)
    PROVE  Safe'
<1>1. /\ cl \in [Clients -> ClType] /\ cl[c] \in ClType /\ ClientOK(cl[c]) /\ Conns /\ Mortal
      /\ cl[c].u \in Uuids /\ fs' = fs /\ daemon' = daemon /\ cl' = [cl EXCEPT ![c] = Closed(c)]
  BY Zenon, InvParts DEF ClOK, Safe, Conns, die, Mortal
<1>2. OnlyClients({c}) /\ cl'[c] = Closed(c)
  BY Zenon, <1>1 DEF OnlyClients
<1>3. /\ ClientOK(cl'[c]) /\ cl'[c].ci = cl[c].ci /\ ~HbCtl(cl'[c])
      /\ cl[c].ci = NoCi => cl'[c] = IdleClient
      /\ cl[c].ci # NoCi => /\ cl'[c].pc = "gone" /\ cl'[c].u = cl[c].u /\ cl'[c].s = cl[c].s
                            /\ cl'[c].up = cl[c].up /\ cl'[c].down = <<>>
  BY Zenon, <1>1, <1>2, ClosedOK
<1>4. Distinct(cl')
  BY Zenon, <1>1, <1>2, <1>3, DistinctStep DEF OnlyClients
<1>5. Granted(cl'[c]) => /\ cl[c].ci # NoCi /\ Granted(cl[c]) /\ cl'[c].u = cl[c].u
                         /\ cl'[c].s = cl[c].s /\ cl'[c].up = cl[c].up
  BY Zenon, <1>3, IdleOK DEF Granted
<1>6. daemon = "up" /\ Granted(cl'[c]) => Kept(fs[cl'[c].u], cl'[c])
  BY Zenon, <1>3, <1>5 DEF Safe, Grants, Kept
<1>7. \A v \in Uuids : Owner(v, fs[v], cl[c]) /\ fs[v].ci # NoCi => Owner(v, fs[v], cl'[c])
  BY Zenon, <1>1, <1>3 DEF Owner
<1>8. KernelOK'
  <2>1. CASE "hb_ctl" \in Faults
    BY Zenon, <2>1 DEF KernelOK
  <2>2. CASE "hb_ctl" \notin Faults
    <3>1. kern' = kern /\ ~HbCtl(cl[c])
      BY Zenon, <2>2 DEF die, Finished, HbCtl
    <3>2. cl'[c].up = "UNMOUNT" => cl'[c].s # "ocfs2"
      <4>1. cl[c].up = "UNMOUNT" => cl[c].s # "ocfs2"
        BY Zenon, <2>2, <3>1 DEF Safe, KernelOK, Unmounting, HbCtl
      <4> QED BY <1>3, <4>1 DEF IdleClient, None
    <3>3. KernelMoved(c)
      BY Zenon, <1>1, <1>3, <1>5, <2>2, <3>1, <3>2 DEF KernelMoved, Safe, KernelOK, Mounted
    <3> QED BY Zenon, <1>1, <1>2, <3>1, <3>3, KernelStays
  <2> QED BY Zenon, <2>1, <2>2
<1> QED BY Zenon, <1>1, <1>2, <1>3, <1>4, <1>6, <1>7, <1>8, ClientChange

\* Every step of a client keeps the invariant.
LEMMA ClientSafe ==
    ASSUME Inv, Safe, NEW c \in Clients, ClientStep(c) \/ die(c)
    PROVE  Safe'
  BY Zenon, JoinStatusSafe, MountSafe, AnsweredSafe, LostSafe, DieSafe DEF ClientStep

\* A new connection has an entry of its own.
LEMMA ConnectOK ==
    ASSUME Inv, Safe, NEW c \in Clients, NEW u \in Uuids, NEW s \in Services,
           NEW pc \in {"joining", "leaving"}, NEW msg \in {"MOUNT", "UNMOUNT"},
           pc = "joining" <=> msg = "MOUNT", Connected(c, u, s, pc, msg)
    PROVE  /\ OnlyClients({c}) /\ Distinct(cl') /\ ClientOK(cl'[c]) /\ ~Granted(cl'[c])
           /\ cl'[c].u = u /\ cl'[c].s = s /\ cl'[c].pc = pc /\ cl'[c].up = msg
<1>1. PICK i \in Slots :
        /\ connection_add(cl, i)
        /\ cl' = [cl EXCEPT ![c] = [pc |-> pc, u |-> u, s |-> s, ci |-> i, up |-> msg,
                                    down |-> <<>>, ok |-> FALSE]]
  BY Zenon DEF Connected
<1> DEFINE r == [pc |-> pc, u |-> u, s |-> s, ci |-> i, up |-> msg, down |-> <<>>, ok |-> FALSE]
<1>2. cl \in [Clients -> ClType]
  BY Zenon, InvParts DEF ClOK
<1>3. OnlyClients({c}) /\ cl'[c] = r
  BY Zenon, <1>1, <1>2 DEF OnlyClients
<1>4. r.pc = pc /\ r.u = u /\ r.s = s /\ r.ci = i /\ r.up = msg /\ r.down = <<>>
  BY Zenon
<1> HIDE DEF r
<1>5. i # NoCi /\ \A d \in Clients : cl[d].ci # i
  BY <1>1, ConstAssumption DEF connection_add, FreeSlots, NoCi
<1>6. Distinct(cl')
  BY <1>3, <1>4, <1>5 DEF OnlyClients, Distinct, Safe, Conns
<1>7. ClientOK(r) /\ ~Granted(r)
  BY Zenon, <1>4, <1>5 DEF ClientOK, Granted, None
<1> QED BY Zenon, <1>3, <1>4, <1>6, <1>7

\* Every step of the users keeps the invariant: new clients, and umounts that
\* leave the kernel with a mount or start its ocfs2_hb_ctl.
LEMMA UserSafe ==
    ASSUME Inv, Safe, UserStep
    PROVE  Safe'
<1>1. kern \in [Uuids -> [count : 0..MaxMounts, umounting : BOOLEAN]] /\ ClOK(cl)
  BY Zenon, InvParts
<1>2. \A d \in Clients : Granted(cl[d]) \/ HbCtl(cl[d]) => cl[d].u \in Uuids
  BY Zenon, <1>1 DEF ClOK, Granted, HbCtl, None
<1>3. "ocfs2" \in Services
  BY Zenon, ConstAssumption
<1>4. ASSUME NEW c \in Clients, NEW u \in Uuids, NEW s \in Services,
             begin_group_join(c, u, s) \/ tool_leave(u, s, c)
      PROVE  Safe'
  <2>1. cl[c].pc = "idle" /\ fs' = fs /\ daemon' = daemon /\ kern' = kern
    BY Zenon, <1>4 DEF begin_group_join, tool_leave
  <2>2. /\ OnlyClients({c}) /\ Distinct(cl') /\ ClientOK(cl'[c]) /\ ~Granted(cl'[c])
        /\ cl'[c].s = s /\ \/ cl'[c].pc = "joining" /\ cl'[c].up = "MOUNT"
                           \/ s # "ocfs2"
    BY ZenonT(30), <1>4, ConnectOK DEF begin_group_join, tool_leave
  <2>3. KernelMoved(c)
    BY Zenon, <2>2, QuietMoved DEF HbCtl
  <2>4. KernelOK'
    BY Zenon, <2>1, <2>2, <2>3, KernelStays
  <2>5. \A v \in Uuids : ~Owner(v, fs[v], cl[c])
    BY Zenon, <2>1 DEF Owner
  <2> QED BY Zenon, <2>1, <2>2, <2>4, <2>5, ClientChange
<1>5. ASSUME NEW u \in Uuids, umount(u) PROVE Safe'
  <2>1. fs' = fs /\ cl' = cl /\ daemon' = daemon /\ kern[u].count > 1
        /\ kern' = [kern EXCEPT ![u].count = @ - 1]
    BY Zenon, <1>5 DEF umount
  <2>2. \A v \in Uuids : /\ v # u => kern'[v] = kern[v]
                         /\ kern'[v].count > 0 => kern[v].count > 0
    BY <1>1, <2>1
  <2>3. ASSUME "hb_ctl" \notin Faults PROVE Mounted' /\ Unmounting'
    <3>1. Mounted /\ Unmounting
      BY Zenon, <2>3 DEF Safe, KernelOK
    <3>2. Mounted'
      BY Zenon, <1>2, <2>1, <2>2, <3>1 DEF Mounted
    <3>3. \A d \in Clients : HbCtl(cl[d]) => cl[d].u # u
      BY <2>1, <3>1 DEF Unmounting
    <3>4. Unmounting'
      BY <1>2, <2>1, <2>2, <3>1, <3>3 DEF Unmounting
    <3> QED BY Zenon, <3>2, <3>4
  <2>4. KernelOK'
    BY Zenon, <2>3 DEF KernelOK
  <2> QED BY Zenon, <2>1, <2>4 DEF Safe, Phases, Conns, Owned, Grants
<1>6. ASSUME NEW u \in Uuids, NEW c \in Clients, last_umount(u, c) PROVE Safe'
  <2>1. fs' = fs /\ daemon' = daemon /\ kern[u].count = 1 /\ cl[c].pc = "idle"
        /\ kern' = [kern EXCEPT ![u] = [count |-> 0, umounting |-> TRUE]]
    BY Zenon, <1>6 DEF last_umount
  <2>2. /\ OnlyClients({c}) /\ Distinct(cl') /\ ClientOK(cl'[c]) /\ ~Granted(cl'[c])
        /\ cl'[c].u = u /\ cl'[c].pc = "leaving"
    BY Zenon, <1>3, <1>6, ConnectOK DEF last_umount
  <2>3. /\ \A v \in Uuids : v # u => kern'[v] = kern[v]
        /\ kern'[u].count = 0 /\ kern'[u].umounting
    BY Zenon, <1>1, <2>1
  <2>4. ASSUME "hb_ctl" \notin Faults PROVE Mounted' /\ Unmounting'
    <3>1. Mounted /\ Unmounting
      BY Zenon, <2>4 DEF Safe, KernelOK
    <3>2. \A v \in Uuids : kern'[v].count > 0 => kern[v].count > 0
      BY <2>1, <2>3
    <3>3. Mounted'
      BY Zenon, <1>2, <2>1, <2>2, <3>1, <3>2 DEF Mounted, OnlyClients
    <3>4. \A d \in Clients : d # c /\ HbCtl(cl[d]) => cl[d].u # u
      BY <2>1, <3>1 DEF Unmounting
    <3>5. Unmounting'
      BY <1>2, <2>2, <2>3, <3>1, <3>4 DEF Unmounting, OnlyClients
    <3> QED BY Zenon, <3>3, <3>5
  <2>5. KernelOK'
    BY Zenon, <2>4 DEF KernelOK
  <2>6. \A v \in Uuids : ~Owner(v, fs[v], cl[c])
    BY Zenon, <2>1 DEF Owner
  <2> QED BY Zenon, <2>1, <2>2, <2>5, <2>6, ClientChange
<1> QED BY Zenon, <1>4, <1>5, <1>6 DEF UserStep

-----------------------------------------------------------------------------
(* The invariant holds, and what it says.                                  *)

\* At the start there is nothing.
LEMMA InitSafe == Init => Safe
<1> SUFFICES ASSUME Init PROVE Safe
  BY Zenon
<1>1. \A c \in Clients : cl[c] = IdleClient
  BY Zenon DEF Init
<1>2. \A u \in Uuids : /\ Absent(fs[u]) /\ fs[u].err = "ok" /\ ~fs[u].mg
                       /\ kern[u].count = 0
  BY Zenon DEF Init, Absent
<1>3. Phases /\ Owned
  BY Zenon, <1>2 DEF Phases, Phase, Owned, WillAnswer
<1>4. Conns /\ Grants
  BY Zenon, <1>1, IdleOK DEF Conns, Distinct, Grants
<1>5. Mounted
  BY <1>1, <1>2, IdleOK DEF Mounted
<1>6. Unmounting
  BY Zenon, <1>1, IdleOK DEF Unmounting, HbCtl
<1>7. daemon # "wild"
  BY Zenon DEF Init
<1> QED BY Zenon, <1>3, <1>4, <1>5, <1>6, <1>7 DEF Safe, KernelOK

\* Every step keeps it.
LEMMA NextSafe == Tame /\ Inv /\ Safe /\ [Next]_vars => Safe'
<1> SUFFICES ASSUME Tame, Inv, Safe, [Next]_vars PROVE Safe'
  BY Zenon
<1>1. CASE UNCHANGED vars
  BY Zenon, <1>1 DEF vars, Safe, Phases, Conns, Distinct, Owned, Grants, KernelOK, Mounted, Unmounting
<1>2. CASE Next
  BY Zenon, <1>2, DaemonSafe, UserSafe, ClientSafe DEF Next
<1> QED BY Zenon, <1>1, <1>2

\* The invariant holds in every state.
LEMMA SafeHolds ==
    ASSUME Tame
    PROVE  Spec => []Safe
  BY InitSafe, InvHolds, NextSafe, PTL DEF Spec

\* A mountgroup is in one of the states mount_set_group() expects when corosync
\* reports that its group was joined or left, whatever fails.
THEOREM GroupStates ==
    ASSUME Tame
    PROVE  Spec => []SetGroupStates
<1>1. Inv /\ Safe => SetGroupStates
  <2> SUFFICES ASSUME Inv, Safe, NEW u \in Uuids
               PROVE  LET f == fs[u]
                      IN  /\ f.mg /\ f.cg = "joining" =>
                               /\ f.in_progress # None /\ ~f.group
                               /\ \/ f.services = {f.in_progress}
                                  \/ f.services = {} /\ f.leave_on_join
                          /\ f.mg /\ f.cg = "leaving" =>
                               f.in_progress # None /\ f.services = {} /\ (~f.group => f.leave_on_join)
                          /\ leaving(f) => f.services = {}
    BY Zenon DEF SetGroupStates
  <2> DEFINE f == fs[u]
  <2>1. Phase(f) /\ f \in FsType
    BY Zenon, InvParts DEF Safe, Phases, FsOK
  <2> HIDE DEF f
  <2>2. leaving(f) => f.services = {}
    BY Zenon, <2>1, PhaseFacts
  <2>3. CASE f.mg /\ f.cg = "joining"
    <3>1. Joining(f) \/ Abandoned(f)
      BY Zenon, <2>1, <2>3 DEF Phase, Absent, Registering, Live, Busy, Leaving
    <3> QED BY Zenon, <2>1, <2>2, <2>3, <3>1, PhaseFacts DEF Joining, Abandoned, f
  <2>4. CASE f.mg /\ f.cg = "leaving"
    <3>1. Leaving(f)
      BY Zenon, <2>1, <2>4 DEF Phase, Absent, Joining, Abandoned, Registering, Live, Busy
    <3> QED BY Zenon, <2>2, <2>4, <3>1 DEF Leaving, f
  <2> QED BY Zenon, <2>2, <2>3, <2>4 DEF f
<1> QED BY <1>1, InvHolds, SafeHolds, PTL

\* A client of the daemon finds an answer on its socket only when it waits for
\* one, and one answer per question.
THEOREM AnswersOnce ==
    ASSUME Tame
    PROVE  Spec => []OneAnswer
<1>1. Safe => OneAnswer
  BY Zenon DEF Safe, Conns, ClientOK, OneAnswer
<1> QED BY <1>1, SafeHolds, PTL

\* While the kernel has a filesystem mounted, and ocfs2_hb_ctl is not killed, the
\* daemon is in its group, is registered with dlm_controld and holds its service.
THEOREM KernelCovered ==
    ASSUME Tame, "hb_ctl" \notin Faults
    PROVE  Spec => []KernelNeedsGroup
<1>1. Inv /\ Safe => KernelNeedsGroup
  <2> SUFFICES ASSUME Inv, Safe, daemon = "up", NEW u \in Uuids, kern[u].count > 0
               PROVE  /\ fs[u].mg /\ fs[u].group /\ fs[u].registered /\ fs[u].dlmc
                      /\ "ocfs2" \in fs[u].services
                      /\ fs[u].cg = "joined" /\ fs[u].cg_live
    BY Zenon DEF KernelNeedsGroup
  <2>1. "ocfs2" \in fs[u].services /\ fs[u].mg /\ (Live(fs[u]) \/ Busy(fs[u]))
    BY Zenon, MountedNow
  <2>2. fs[u].cg_live
    BY Zenon, <2>1, InvParts DEF FsOK, GroupOK, Tame
  <2> QED BY Zenon, <2>1, <2>2 DEF Live, Busy
<1> QED BY <1>1, InvHolds, SafeHolds, PTL

\* No callback of corosync or dlm_controld ever reaches a mountgroup that was
\* freed.
THEOREM NeverWild ==
    ASSUME Tame
    PROVE  Spec => [](daemon # "wild")
<1>1. Safe => daemon # "wild"
  BY Zenon DEF Safe
<1> QED BY <1>1, SafeHolds, PTL

=============================================================================
