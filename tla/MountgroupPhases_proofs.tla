----------------------- MODULE MountgroupPhases_proofs -----------------------
(***************************************************************************)
(* The handlers of the clients' messages keep the phases of the            *)
(* mountgroups, the owners of the answers and what the kernel's mounts     *)
(* need: the invariant Safe of Mountgroup_proofs.                          *)
(***************************************************************************)
EXTENDS Mountgroup_proofs

\* A client whose message was read and that was not told to go ahead.
LEMMA HeardMoved ==
    ASSUME Safe, NEW c \in Clients, NEW u \in Uuids, cl[c].up # None,
           Heard(cl[c], cl'[c]), ClientOK(cl'[c]), ~Granted(cl'[c]), kern' = kern
    PROVE  ClientMoved(c, u) /\ ("hb_ctl" \notin Faults => KernelMoved(c))
<1>1. ClientMoved(c, u)
  BY Zenon DEF ClientMoved, Owner
<1>2. ASSUME "hb_ctl" \notin Faults PROVE KernelMoved(c)
  <2>1. Unmounting
    BY Zenon, <1>2 DEF Safe, KernelOK
  <2> QED BY Zenon, <2>1 DEF KernelMoved, Heard, HbCtl, None
<1> QED BY Zenon, <1>1, <1>2

\* A client with a message to read is nobody's owner, so the owner stays.
LEMMA OwnerStays ==
    ASSUME Safe, daemon = "up", NEW u \in Uuids, WillAnswer(fs[u]), fs[u].ci # NoCi,
           NEW c \in Clients, cl[c].up # None, OnlyClients({c})
    PROVE  \E d \in Clients : Owner(u, fs[u], cl'[d])
<1>1. PICK d \in Clients : Owner(u, fs[u], cl[d])
  BY Zenon DEF Safe, Owned
<1>2. d # c
  BY Zenon, <1>1 DEF Owner
<1> QED BY Zenon, <1>1, <1>2 DEF OnlyClients

\* What the phases say of mg_ms_in_progress and of the services.
LEMMA PhaseFacts ==
    ASSUME NEW f \in FsType, Phase(f)
    PROVE  /\ Busy(f) => f.in_progress \in Services /\ f.in_progress # None /\ f.services # {}
           /\ Joining(f) \/ Registering(f) => f.in_progress \in Services /\ f.in_progress # None
           /\ f.mg /\ f.in_progress = None => Live(f)
           /\ f.mg /\ f.in_progress # None /\ f.services # {} =>
                Joining(f) \/ Registering(f) \/ Busy(f)
           /\ f.registered => f.mg /\ (Live(f) \/ Busy(f))
           /\ f.results # <<>> => f.mg /\ Registering(f)
           /\ leaving(f) => f.services = {} /\ f.mg /\ (Abandoned(f) \/ Leaving(f))
<1>1. f.services \subseteq Services /\ None \notin Services
  BY Zenon, ConstAssumption DEF FsType, None
<1>2. f.in_progress \in f.services => f.in_progress \in Services /\ f.in_progress # None
  BY Zenon, <1>1
<1> QED BY Zenon, <1>2 DEF Phase, Absent, Joining, Abandoned, Registering, Live, Busy, Leaving, leaving

\* Who was told to go ahead has a mountgroup that is busy with it.
LEMMA NoneGranted ==
    ASSUME Safe, daemon = "up", NEW u \in Uuids, ~Busy(fs[u]), NEW d \in Clients, Granted(cl[d])
    PROVE  cl[d].u # u
  BY Zenon DEF Safe, Grants, Kept

\* A phase with a mountgroup in the state of Leaving.
LEMMA IntoLeaving ==
    ASSUME NEW f, f.mg, Leaving(f), f.err # "EALREADY"
    PROVE  Phase(f) /\ WillAnswer(f)
  BY Zenon DEF Phase, WillAnswer

\* remove_mount() keeps the invariant.
LEMMA RemoveMountSafe ==
    ASSUME Inv, Safe, daemon = "up", NEW c \in Clients, NEW left \in BOOLEAN, remove_mount(c, left)
    PROVE  Safe'
<1> DEFINE ci == cl[c].ci
           u == cl[c].u
           s == cl[c].s
           f == fs[u]
           f1 == remove_service(f, s, left)
           a == [f EXCEPT !.additional = @ /\ s # "ocfs2"]
<1>1. FsOK(mounts, fs) /\ ClOK(cl)
  BY Zenon, InvParts
<1>2. u \in Uuids /\ s \in Services /\ f \in FsType /\ fs \in [Uuids -> FsType] /\ Phase(f)
  BY Zenon, <1>1 DEF remove_mount, ClOK, ClType, None, FsOK, Safe, Phases
<1>3. /\ cl[c].up = "UNMOUNT" /\ cl[c].up # None /\ cl[c].pc \in {"leaving", "gone"}
      /\ ClientOK(cl[c]) /\ Conns /\ ci # NoCi
  BY Zenon DEF remove_mount, Safe, Conns, ClientOK, None
<1>4. kern' = kern /\ daemon' = daemon
  BY Zenon DEF remove_mount
<1>5. \/ cl' = Read(c)
      \/ \E st \in Status : cl' = send_message(Read(c), ci, st)
  <2>1. f1.err \in Status
    <3> HIDE DEF f, s
    <3> QED BY Zenon, <1>2, RemoveService DEF FsType
  <2> QED BY Zenon, <2>1 DEF remove_mount, Status
<1>6. Heard(cl[c], cl'[c]) /\ ClientOK(cl'[c]) /\ \A d \in Clients : d # c => cl'[d] = cl[d]
  BY <1>1, <1>3, <1>5, ReadStep, ReplyStep DEF Told
<1>7. OnlyClients({c}) /\ Distinct(cl')
  BY <1>6 DEF OnlyClients, Heard, Safe, Conns, Distinct
<1>8. ~Granted(cl'[c])
  BY Zenon, <1>3, <1>6 DEF Granted, Heard, None
<1>9. ClientMoved(c, u) /\ ("hb_ctl" \notin Faults => KernelMoved(c))
  BY Zenon, <1>2, <1>3, <1>4, <1>6, <1>8, HeardMoved
<1>10. "hb_ctl" \notin Faults /\ s = "ocfs2" => kern[u].count = 0
  BY Zenon, <1>3 DEF Safe, KernelOK, Unmounting, HbCtl
<1>11. CASE ~f.mg \/ s \notin f.services
  <2>1. fs' = fs
    BY Zenon, <1>11 DEF remove_mount
  <2>2. OnlyFs(u) /\ Phase(fs'[u])
    BY Zenon, <1>2, <2>1 DEF OnlyFs
  <2>3. daemon = "up" /\ WillAnswer(fs'[u]) /\ fs'[u].ci # NoCi =>
          \E d \in Clients : Owner(u, fs'[u], cl'[d])
    BY Zenon, <1>2, <1>3, <1>7, <2>1, OwnerStays
  <2>4. \A d \in Clients \ {c} : Granted(cl[d]) /\ cl[d].u = u => Kept(fs'[u], cl[d])
    BY Zenon, <2>1 DEF Safe, Grants
  <2>5. "hb_ctl" \notin Faults /\ kern[u].count > 0 =>
          fs'[u].registered /\ fs'[u].notified /\ "ocfs2" \in fs'[u].services
    BY Zenon, <1>2, <2>1, MountedNow
  <2> QED BY Zenon, <1>1, <1>2, <1>4, <1>7, <1>9, <2>1, <2>2, <2>3, <2>4, <2>5, DaemonStep
<1> HIDE DEF s
<1>12. CASE f.mg /\ s \in f.services /\ f.in_progress # None
  <2>1. fs' = [fs EXCEPT ![u] = a]
    <3>1. [fs EXCEPT ![u].additional = @ /\ s # "ocfs2"] = [fs EXCEPT ![u] = a]
      BY Zenon, <1>2 DEF FsType
    <3> HIDE DEF a
    <3> QED BY Zenon, <1>12, <3>1 DEF remove_mount, s
  <2>2. OnlyFs(u) /\ fs'[u] = a
    BY Zenon, <1>2, <2>1 DEF OnlyFs
  <2>3. /\ a.mg = f.mg /\ a.group = f.group /\ a.leave_on_join = f.leave_on_join
        /\ a.registered = f.registered /\ a.services = f.services
        /\ a.in_progress = f.in_progress /\ a.additional = (f.additional /\ s # "ocfs2")
        /\ a.ci = f.ci /\ a.notified = f.notified /\ a.err = f.err /\ a.cg = f.cg
        /\ a.dfs = f.dfs /\ a.dlmc = f.dlmc /\ a.results = f.results
    <3> HIDE DEF u
    <3> QED BY ZenonT(60), <1>2 DEF FsType
  <2>4. f.mg /\ (Joining(f) \/ Registering(f) \/ Busy(f))
    BY Zenon, <1>2, <1>12, PhaseFacts
  <2> HIDE DEF a
  <2>5. /\ Joining(f) => Joining(a)
        /\ Registering(f) => Registering(a)
        /\ Busy(f) => Busy(a)
    BY Zenon, <2>3 DEF Joining, Registering, Busy
  <2>6. Phase(a)
    BY Zenon, <1>2, <2>3, <2>4, <2>5 DEF Phase
  <2>7. WillAnswer(a) /\ a.ci # NoCi => \E d \in Clients : Owner(u, a, cl'[d])
    <3> SUFFICES ASSUME WillAnswer(a), a.ci # NoCi PROVE \E d \in Clients : Owner(u, a, cl'[d])
      BY Zenon
    <3>1. WillAnswer(f) /\ ~Leaving(a) /\ f.ci # NoCi
      BY Zenon, <1>12, <2>3, <2>4 DEF WillAnswer, Leaving, Busy, Joining, Registering
    <3>2. PICK d \in Clients : Owner(u, f, cl'[d])
      BY Zenon, <1>2, <1>3, <1>7, <3>1, OwnerStays
    <3>3. ~Leaving(f)
      BY Zenon, <1>12 DEF Leaving
    <3> QED BY Zenon, <2>3, <3>1, <3>2, <3>3 DEF Owner
  <2>8. \A d \in Clients \ {c} : Granted(cl[d]) /\ cl[d].u = u => Kept(a, cl[d])
    <3> SUFFICES ASSUME NEW d \in Clients \ {c}, Granted(cl[d]), cl[d].u = u PROVE Kept(a, cl[d])
      BY Zenon
    <3>1. Kept(f, cl[d])
      BY Zenon DEF Safe, Grants
    <3> QED BY Zenon, <2>3, <2>5, <3>1 DEF Kept
  <2>9. "hb_ctl" \notin Faults /\ kern[u].count > 0 =>
          /\ a.registered /\ a.notified /\ "ocfs2" \in a.services
          /\ f.additional => a.additional
    <3>1. kern[u].count > 0 => kern[u].count # 0
      OBVIOUS
    <3> QED BY Zenon, <1>2, <1>10, <2>3, <3>1, MountedNow DEF s
  <2> QED BY Zenon, <1>1, <1>2, <1>4, <1>7, <1>9, <2>2, <2>6, <2>7, <2>8, <2>9, DaemonStep
<1>13. CASE f.mg /\ s \in f.services /\ f.in_progress = None
  <2>1. Live(f) /\ ~Busy(f)
    BY Zenon, <1>2, <1>13, PhaseFacts
  <2>2. \A d \in Clients \ {c} : Granted(cl[d]) /\ cl[d].u = u => Kept(fs'[u], cl[d])
    BY Zenon, <1>2, <2>1, NoneGranted
  <2>3. CASE f.services = {s}
    <3>1. /\ f1 \in FsType /\ f1.mg /\ f1.services = {} /\ f1.in_progress = s /\ ~f1.registered
          /\ ~f1.additional /\ f1.err = f.err /\ f1.results = <<>> /\ f1.group
          /\ f1.cg \in {"joined", "leaving"}
      <4> HIDE DEF f
      <4> QED BY <1>2, <1>13, <2>1, <2>3, RemoveLast DEF Live
    <3> DEFINE g == [f1 EXCEPT !.ci = ci]
    <3>2. s # None
      BY Zenon, <1>2, ConstAssumption DEF None
    <3>3. fs' = [fs EXCEPT ![u] = g] /\ cl' = Read(c)
      <4> HIDE DEF f1
      <4> QED BY Zenon, <1>13, <3>1, <3>2 DEF remove_mount, s, f1
    <3> HIDE DEF f1, ci
    <3>4. Leaving(g) /\ g.mg /\ g.err = f.err /\ g.ci = ci /\ g.services = {}
      BY Zenon, <3>1, <3>2 DEF FsType, Leaving
    <3> HIDE DEF g
    <3>5. OnlyFs(u) /\ fs'[u] = g
      BY Zenon, <1>2, <3>3 DEF OnlyFs
    <3>6. Phase(g)
      BY Zenon, <1>2, <3>4, IntoLeaving DEF Phase
    <3>7. cl'[c].down = <<>>
      BY Zenon, <1>1, <1>3, <3>3, ReadStep
    <3>8. Owner(u, g, cl'[c])
      <4>1. cl[c].pc = "gone" => Mortal
        BY Zenon, <1>3 DEF ClientOK
      <4> QED BY Zenon, <1>3, <1>6, <3>4, <3>7, <4>1 DEF Owner, Heard, ci, u
    <3>9. ~("hb_ctl" \notin Faults /\ kern[u].count > 0)
      <4>1. kern[u].count > 0 => kern[u].count # 0
        OBVIOUS
      <4> QED BY Zenon, <1>2, <1>10, <2>3, <4>1, MountedNow DEF s
    <3> QED BY Zenon, <1>1, <1>2, <1>4, <1>7, <1>9, <2>2, <3>5, <3>6, <3>8, <3>9, DaemonStep
  <2>4. CASE f.services # {s}
    <3>1. /\ f1.services = f.services \ {s} /\ f1.services # {}
          /\ f1.mg = f.mg /\ f1.group = f.group /\ f1.registered = f.registered
          /\ f1.in_progress = f.in_progress /\ f1.notified = f.notified
          /\ f1.err = f.err /\ f1.cg = f.cg /\ f1.dlmc = f.dlmc /\ f1.results = f.results
          /\ ~f.additional => ~f1.additional
      <4> HIDE DEF f
      <4>1. f \in FsType /\ s \in Services /\ s \in f.services /\ f.services # {s}
        BY Zenon, <1>2, <1>13, <2>4
      <4> HIDE DEF s, u
      <4>2. f1.services = f.services \ {s} /\ f1.services # {}
        BY <4>1, RemoveOne
      <4>3. f1.mg = f.mg /\ f1.group = f.group /\ f1.registered = f.registered
        BY <4>1, RemoveOne
      <4>4. /\ f1.in_progress = f.in_progress /\ f1.notified = f.notified
          /\ f1.err = f.err /\ f1.cg = f.cg /\ f1.dlmc = f.dlmc /\ f1.results = f.results
        BY <4>1, RemoveOne
      <4>5. ~f.additional => ~f1.additional
        BY Zenon, <4>1, RemoveOne
      <4> QED BY Zenon, <4>2, <4>3, <4>4, <4>5
    <3>2. fs' = [fs EXCEPT ![u] = f1]
      <4> HIDE DEF f1
      <4> QED BY Zenon, <1>13, <3>1 DEF remove_mount, s, f1
    <3> HIDE DEF f1
    <3>3. OnlyFs(u) /\ fs'[u] = f1
      BY Zenon, <1>2, <3>2 DEF OnlyFs
    <3>4. Live(f1)
      BY Zenon, <1>13, <2>1, <3>1 DEF Live
    <3>5. Phase(f1) /\ ~WillAnswer(f1)
      BY Zenon, <1>2, <1>13, <3>1, <3>4 DEF Phase, WillAnswer, Live, Joining, Registering, Leaving, None
    <3>6. "hb_ctl" \notin Faults /\ kern[u].count > 0 =>
            f1.registered /\ f1.notified /\ "ocfs2" \in f1.services
      <4>1. kern[u].count > 0 => kern[u].count # 0
        OBVIOUS
      <4> QED BY Zenon, <1>2, <1>10, <3>1, <4>1, MountedNow DEF s
    <3>7. ~f.additional
      BY Zenon, <2>1 DEF Live
    <3> QED BY ZenonT(30), <1>1, <1>2, <1>4, <1>7, <1>9, <2>2, <3>3, <3>5, <3>6, <3>7, DaemonStep
  <2> QED BY Zenon, <2>3, <2>4
<1> QED BY Zenon, <1>11, <1>12, <1>13

\* complete_mount() keeps the invariant.  The mountgroup it finds is the client's
\* own or one with a stale mg_mount_ci, which owes nobody an answer.
LEMMA CompleteMountSafe ==
    ASSUME Inv, Safe, daemon = "up", NEW c \in Clients, NEW left \in BOOLEAN,
           complete_mount(c, left)
    PROVE  Safe'
<1> DEFINE ci == cl[c].ci
           w == cl[c].u
           u == find_mg_by_client(ci)
           s == cl[c].s
           f == fs[u]
           refused == \/ cl[c].u # u \/ f.in_progress = None
                      \/ s \notin f.services \/ s # f.in_progress
           err == cl[c].up = "MRESULT1" /\ ~(s = "ocfs2" /\ f.additional)
           f1 == [f EXCEPT !.in_progress = None, !.additional = @ /\ s # "ocfs2"]
           f2 == IF refused THEN fill_error(f, "error")
                 ELSE IF err THEN remove_service(f1, s, left) ELSE [f1 EXCEPT !.ci = NoCi]
<1>1. FsOK(mounts, fs) /\ ClOK(cl) /\ fs \in [Uuids -> FsType]
  BY Zenon, InvParts DEF FsOK
<1>2. /\ cl[c].up \in {"MRESULT0", "MRESULT1"} /\ cl[c].up # None /\ cl[c].pc \in {"result", "gone"}
      /\ ClientOK(cl[c]) /\ Conns /\ ci # NoCi
      /\ kern' = kern /\ daemon' = daemon
  BY Zenon DEF complete_mount, Safe, Conns, ClientOK, None
<1>3. w \in Uuids /\ s \in Services /\ s # None /\ Kept(fs[w], cl[c])
  BY Zenon, <1>1, <1>2, ConstAssumption DEF ClOK, ClType, None, Safe, Grants, Granted
<1>4. u # None /\ u \in Uuids /\ f.mg /\ f.ci = ci /\ f \in FsType /\ Phase(f)
  <2>1. u # None
    BY Zenon, <1>1, <1>3, FoundMg DEF Kept
  <2>2. u \in Uuids /\ f.mg /\ f.ci = ci
    BY Zenon, <1>1, <2>1, FoundMg
  <2> QED BY Zenon, <1>1, <2>1, <2>2 DEF Safe, Phases
<1>5. /\ fs' = [fs EXCEPT ![u] = f2]
      /\ cl' = IF refused \/ f2.in_progress = None
               THEN send_message(Read(c), ci, f2.err) ELSE Read(c)
  BY Zenon, <1>4 DEF complete_mount
<1>6. ~WillAnswer(f)
  <2> SUFFICES ASSUME WillAnswer(f) PROVE FALSE
    BY Zenon
  <2>1. PICK d \in Clients : Owner(u, f, cl[d])
    BY Zenon, <1>2, <1>4 DEF Safe, Owned
  <2>2. d = c
    BY Zenon, <1>2, <1>4, <2>1 DEF Owner, Conns, Distinct
  <2> QED BY Zenon, <1>2, <2>1, <2>2 DEF Owner
<1>7. Live(f) \/ Busy(f)
  BY Zenon, <1>2, <1>4, <1>6 DEF Phase, WillAnswer, Absent, Abandoned
<1> HIDE DEF u, f
<1>8. \A d \in Clients \ {c} : Granted(cl[d]) => cl[d].u # u
  <2> SUFFICES ASSUME NEW d \in Clients, d # c, Granted(cl[d]), cl[d].u = u PROVE FALSE
    BY Zenon
  <2>1. Kept(fs[cl[d].u], cl[d])
    BY Zenon DEF Safe, Grants
  <2>2. cl[d].ci = cl[c].ci
    BY Zenon, <1>4, <2>1 DEF Kept, f
  <2> QED BY Zenon, <1>2, <2>2 DEF Conns, Distinct
<1>9. ASSUME f2 \in FsType, Phase(f2),
             WillAnswer(f2) /\ f2.ci # NoCi => f2.in_progress # None /\ u = w /\ Leaving(f2) /\ f2.ci = ci,
             "hb_ctl" \notin Faults /\ kern[u].count > 0 =>
               f2.registered /\ f2.notified /\ "ocfs2" \in f2.services
      PROVE  Safe'
  <2> HIDE DEF f2
  <2>1. f2.err \in Status
    BY Zenon, <1>9 DEF FsType
  <2>2. Heard(cl[c], cl'[c]) /\ ClientOK(cl'[c]) /\ \A d \in Clients : d # c => cl'[d] = cl[d]
    BY Zenon, <1>1, <1>2, <1>5, <2>1, ReadStep, ReplyStep DEF Told
  <2>3. OnlyClients({c}) /\ Distinct(cl')
    BY <2>2 DEF OnlyClients, Heard, Safe, Conns, Distinct
  <2>4. ~Granted(cl'[c])
    BY Zenon, <1>2, <2>2 DEF Granted, Heard, None
  <2>5. ClientMoved(c, u) /\ ("hb_ctl" \notin Faults => KernelMoved(c))
    BY Zenon, <1>2, <1>4, <2>2, <2>4, HeardMoved
  <2>6. OnlyFs(u) /\ fs'[u] = f2
    BY Zenon, <1>1, <1>4, <1>5 DEF OnlyFs
  <2>7. WillAnswer(f2) /\ f2.ci # NoCi => \E d \in Clients : Owner(u, f2, cl'[d])
    <3> SUFFICES ASSUME WillAnswer(f2), f2.ci # NoCi PROVE Owner(u, f2, cl'[c])
      BY Zenon
    <3>1. f2.in_progress # None /\ u = w /\ Leaving(f2) /\ f2.ci = ci
      BY Zenon, <1>9
    <3>2. CASE refused
      <4>1. f2 = fill_error(f, "error")
        BY Zenon, <3>2 DEF f2
      <4>2. f2.services = f.services
        BY Zenon, <1>4, <4>1 DEF fill_error, FsType
      <4> QED BY Zenon, <1>4, <1>7, <3>1, <4>2, PhaseFacts DEF Leaving, Live
    <3>3. CASE ~refused
      <4>1. cl' = Read(c)
        BY Zenon, <1>5, <3>1, <3>3
      <4>2. cl'[c].down = <<>>
        BY Zenon, <1>1, <1>2, <4>1, ReadStep
      <4>3. cl[c].pc = "gone" => Mortal
        BY Zenon, <1>2 DEF ClientOK
      <4> QED BY Zenon, <1>2, <2>2, <3>1, <4>2, <4>3 DEF Owner, Heard
    <3> QED BY Zenon, <3>2, <3>3
  <2> QED BY Zenon, <1>1, <1>2, <1>4, <1>8, <1>9, <2>3, <2>5, <2>6, <2>7, DaemonStep
<1>10. CASE refused
  <2>1. f2 = f \/ f2 = [f EXCEPT !.err = "error"]
    BY Zenon, <1>10 DEF fill_error
  <2>2. f2 \in FsType /\ Phase(f2) /\ (Live(f) => Live(f2)) /\ (Busy(f) => Busy(f2))
    <3>1. f2 = f => f2 \in FsType /\ Phase(f2) /\ (Live(f) => Live(f2)) /\ (Busy(f) => Busy(f2))
      BY Zenon, <1>4
    <3>2. [f EXCEPT !.err = "error"] \in FsType
      BY Zenon, <1>4 DEF FsType, Status
    <3> QED BY Zenon, <1>4, <1>7, <2>1, <3>1, <3>2, ErrPhase
  <2>3. f2.registered = f.registered /\ f2.notified = f.notified /\ f2.services = f.services
    BY <1>4, <2>1 DEF FsType
  <2> HIDE DEF f2
  <2>4. ~WillAnswer(f2)
    BY Zenon, <1>7, <2>2, PhaseFacts DEF WillAnswer, Live, Busy, Joining, Registering, Leaving
  <2>5. "hb_ctl" \notin Faults /\ kern[u].count > 0 =>
          f2.registered /\ f2.notified /\ "ocfs2" \in f2.services
    BY Zenon, <1>4, <2>3, MountedNow DEF f
  <2> QED BY Zenon, <1>9, <2>2, <2>4, <2>5
<1>11. CASE ~refused
  <2>1. u = w /\ Busy(f) /\ f.notified /\ f.in_progress = s /\ s \in f.services
    BY Zenon, <1>3, <1>4, <1>11 DEF Kept, f
  <2> HIDE DEF s
  <2>2. /\ f1 \in FsType /\ f1.mg = f.mg /\ f1.group = f.group /\ f1.registered = f.registered
        /\ f1.services = f.services /\ f1.in_progress = None /\ f1.ci = f.ci
        /\ f1.notified = f.notified /\ f1.err = f.err /\ f1.cg = f.cg /\ f1.dlmc = f.dlmc
        /\ f1.results = f.results
    BY ZenonT(30), <1>4 DEF FsType, None
  <2>3. ~f1.additional
    <3>1. f1.additional <=> f.additional /\ s # "ocfs2"
      BY ZenonT(60), <1>4 DEF FsType
    <3> QED BY Zenon, <2>1, <3>1 DEF Busy
  <2> HIDE DEF f1
  <2>4. CASE ~err
    <3>1. f2 = [f1 EXCEPT !.ci = NoCi]
      BY Zenon, <1>11, <2>4 DEF s
    <3> HIDE DEF f2
    <3>2. f2 \in FsType /\ Live(f2) /\ f2.mg /\ f2.err = f.err /\ f2.services = f.services
      <4>1. /\ f2 \in FsType /\ f2.mg = f1.mg /\ f2.group = f1.group
            /\ f2.registered = f1.registered /\ f2.services = f1.services
            /\ f2.in_progress = f1.in_progress /\ f2.additional = f1.additional
            /\ f2.notified = f1.notified /\ f2.err = f1.err /\ f2.cg = f1.cg
            /\ f2.dlmc = f1.dlmc /\ f2.results = f1.results
        BY Zenon, <2>2, <3>1 DEF FsType, NoCi
      <4> QED BY Zenon, <1>4, <2>1, <2>2, <2>3, <4>1 DEF Live, Busy
    <3>3. Phase(f2) /\ ~WillAnswer(f2)
      BY Zenon, <1>4, <3>2, PhaseFacts DEF Phase, WillAnswer, Live, Joining, Registering, Leaving
    <3>4. "hb_ctl" \notin Faults /\ kern[u].count > 0 =>
            f2.registered /\ f2.notified /\ "ocfs2" \in f2.services
      BY Zenon, <1>4, <3>2, MountedNow DEF f, Live
    <3> QED BY Zenon, <1>9, <3>2, <3>3, <3>4
  <2>5. CASE err
    <3>1. f2 = remove_service(f1, s, left)
      BY Zenon, <1>11, <2>5 DEF s
    <3>2. "hb_ctl" \notin Faults /\ s = "ocfs2" => ~(kern[u].count > 0)
      <4> SUFFICES ASSUME "hb_ctl" \notin Faults, s = "ocfs2", kern[u].count > 0 PROVE FALSE
        BY Zenon
      <4>1. fs[cl[c].u].additional
        BY Zenon, <1>2, <2>1, <2>5 DEF Safe, KernelOK, Mounted, Granted, s
      <4> QED BY Zenon, <2>1, <2>5, <4>1 DEF f
    <3> HIDE DEF f2
    <3>3. CASE f.services = {s}
      <4>1. /\ f2 \in FsType /\ f2.mg /\ f2.services = {} /\ f2.in_progress = s /\ ~f2.registered
            /\ ~f2.additional /\ f2.ci = ci /\ f2.err = f.err /\ f2.results = <<>> /\ f2.group
            /\ f2.cg \in {"joined", "leaving"}
        <5>1. f1.services = {s} /\ f1.group /\ f1.cg = "joined" /\ f1.results = <<>> /\ f1.mg
              /\ f1.err = f.err /\ f1.ci = ci
          BY Zenon, <1>4, <2>1, <2>2, <3>3 DEF Busy
        <5> QED BY <1>3, <2>2, <2>3, <3>1, <5>1, RemoveLast DEF s
      <4>2. Leaving(f2) /\ f2.err # "EALREADY"
        BY Zenon, <1>3, <1>4, <4>1 DEF Leaving, Phase, s
      <4>3. ~("hb_ctl" \notin Faults /\ kern[u].count > 0)
        BY Zenon, <1>4, <3>2, <3>3, MountedNow DEF f
      <4> QED BY Zenon, <1>3, <1>9, <2>1, <4>1, <4>2, <4>3, IntoLeaving DEF s
    <3>4. CASE f.services # {s}
      <4>1. s \in Services /\ s \in f1.services /\ f1.services # {s}
        BY Zenon, <1>3, <2>1, <2>2, <3>4 DEF s
      <4>2. f2.services = f1.services \ {s} /\ f2.services # {}
        BY <2>2, <3>1, <4>1, RemoveOne
      <4>3. f2.mg = f1.mg /\ f2.group = f1.group /\ f2.registered = f1.registered
        BY <2>2, <3>1, <4>1, RemoveOne
      <4>4. /\ f2.in_progress = f1.in_progress /\ f2.notified = f1.notified
            /\ f2.err = f1.err /\ f2.cg = f1.cg /\ f2.dlmc = f1.dlmc /\ f2.results = f1.results
        BY <2>2, <3>1, <4>1, RemoveOne
      <4>5. ~f2.additional
        BY Zenon, <2>2, <2>3, <3>1, <4>1, RemoveOne
      <4>6. f2 \in FsType
        BY Zenon, <2>2, <3>1, <4>1, RemoveService
      <4>7. Live(f2) /\ f2.mg
        BY ZenonT(30), <1>4, <2>1, <2>2, <4>2, <4>3, <4>4, <4>5 DEF Live, Busy
      <4>8. Phase(f2) /\ ~WillAnswer(f2)
        BY Zenon, <1>4, <2>2, <4>4, <4>7 DEF Phase, WillAnswer, Live, Joining, Registering, Leaving, None
      <4>9. "hb_ctl" \notin Faults /\ kern[u].count > 0 =>
              f2.registered /\ f2.notified /\ "ocfs2" \in f2.services
        BY Zenon, <1>4, <2>2, <3>2, <4>2, <4>7, MountedNow DEF f, Live
      <4> QED BY Zenon, <1>9, <4>6, <4>8, <4>9
    <3> QED BY Zenon, <3>3, <3>4
  <2> QED BY Zenon, <2>4, <2>5
<1> QED BY Zenon, <1>10, <1>11

\* A client that has closed its connection while an answer was due is the owner of
\* at most the filesystem that dead_mounter() finds: there is only one.
LEMMA DeadOwner ==
    ASSUME Tame, NEW u \in Uuids, NEW v \in Uuids, v # u, NEW c \in Clients, cl[c].pc = "gone"
    PROVE  ~Owner(v, fs[v], cl[c])
  BY Zenon DEF Owner, Tame

\* dead_client() keeps the invariant.
LEMMA DeadClientSafe ==
    ASSUME Tame, Inv, Safe, daemon = "up", NEW c \in Clients, NEW left \in BOOLEAN,
           dead_client(c, left)
    PROVE  Safe'
<1> DEFINE ci == cl[c].ci
           u == find_mg_by_client(ci)
           f == fs[u]
           p == f.in_progress
           f1 == [f EXCEPT !.ci = NoCi]
           fa == [f1 EXCEPT !.additional = FALSE, !.in_progress = None]
           fn == [f1 EXCEPT !.in_progress = None]
           fr == remove_service(f1, f.in_progress, left)
           g == IF f.in_progress = None THEN f
                ELSE IF f.in_progress \notin f.services THEN f1
                ELSE IF f.in_progress = "ocfs2" /\ f.additional THEN fa
                ELSE IF ~f.notified THEN fr ELSE fn
<1>1. FsOK(mounts, fs) /\ ClOK(cl) /\ fs \in [Uuids -> FsType]
  BY Zenon, InvParts DEF FsOK
<1>2. /\ cl[c].pc = "gone" /\ cl[c].up = None /\ ClientOK(cl[c]) /\ Conns /\ Distinct(cl) /\ ci # NoCi
      /\ kern' = kern /\ daemon' = daemon /\ cl' = connection_dead(cl, ci)
  BY Zenon DEF dead_client, Safe, Conns, ClientOK
<1>3. cl'[c] = IdleClient /\ \A d \in Clients : d # c => cl'[d] = cl[d]
  BY Zenon, <1>1, <1>2, DeadStep
<1>4. OnlyClients({c}) /\ Distinct(cl')
  <2>1. \A d \in Clients : cl'[d].ci \in {cl[d].ci, NoCi}
    BY Zenon, <1>3, IdleOK
  <2> QED BY Zenon, <1>2, <1>3, <2>1, DistinctStep DEF OnlyClients
<1>5. KernelMoved(c)
  BY Zenon, <1>3, IdleOK DEF KernelMoved, HbCtl
<1>6. \A w \in Uuids : ClientMoved(c, w)
  BY Zenon, <1>2, <1>3, IdleOK, DeadOwner DEF ClientMoved
<1>7. CASE u = None
  <2> DEFINE w == cl[c].u
  <2>1. w \in Uuids /\ Phase(fs[w])
    BY Zenon, <1>1, <1>2 DEF ClOK, Safe, Phases
  <2>2. fs' = fs
    BY Zenon, <1>7 DEF dead_client
  <2>3. OnlyFs(w)
    BY Zenon, <2>2 DEF OnlyFs
  <2>4. WillAnswer(fs[w]) /\ fs[w].ci # NoCi => \E d \in Clients : Owner(w, fs[w], cl'[d])
    <3> SUFFICES ASSUME WillAnswer(fs[w]), fs[w].ci # NoCi
                 PROVE  \E d \in Clients : Owner(w, fs[w], cl'[d])
      BY Zenon
    <3>1. PICK d \in Clients : Owner(w, fs[w], cl[d])
      BY Zenon, <2>1 DEF Safe, Owned
    <3>2. fs[w].ci # ci
      BY Zenon, <1>1, <1>7, <2>1, FoundMg DEF WillAnswer
    <3>3. d # c
      BY Zenon, <3>1, <3>2 DEF Owner
    <3> QED BY Zenon, <1>3, <3>1, <3>3
  <2>5. \A d \in Clients \ {c} : Granted(cl[d]) /\ cl[d].u = w => Kept(fs[w], cl[d])
    BY Zenon DEF Safe, Grants
  <2>6. "hb_ctl" \notin Faults /\ kern[w].count > 0 =>
          fs[w].registered /\ fs[w].notified /\ "ocfs2" \in fs[w].services
    BY Zenon, <2>1, MountedNow
  <2> HIDE DEF w
  <2> QED BY ZenonT(30), <1>1, <1>2, <1>4, <1>5, <1>6, <2>1, <2>2, <2>3, <2>4, <2>5, <2>6, DaemonStep
<1>8. CASE u # None
  <2>1. u \in Uuids /\ f.mg /\ f.ci = ci /\ f \in FsType /\ Phase(f)
    <3>1. u \in Uuids /\ f.mg /\ f.ci = ci
      BY Zenon, <1>1, <1>8, FoundMg
    <3> QED BY Zenon, <1>1, <3>1 DEF Safe, Phases
  <2>2. fs' = [fs EXCEPT ![u] = g] /\ ("late" \notin Faults => f.results = <<>>)
    BY Zenon, <1>8 DEF dead_client
  <2> HIDE DEF u, f
  <2>3. \A d \in Clients \ {c} : Granted(cl[d]) => cl[d].u # u
    <3> SUFFICES ASSUME NEW d \in Clients, d # c, Granted(cl[d]), cl[d].u = u PROVE FALSE
      BY Zenon
    <3>1. Kept(fs[cl[d].u], cl[d])
      BY Zenon DEF Safe, Grants
    <3>2. cl[d].ci = cl[c].ci
      BY Zenon, <2>1, <3>1 DEF Kept, f
    <3> QED BY Zenon, <1>2, <3>2 DEF Distinct
  <2>4. OnlyFs(u) /\ fs'[u] = g
    BY Zenon, <1>1, <2>1, <2>2 DEF OnlyFs
  <2>5. ASSUME Phase(g), g.ci = NoCi \/ ~WillAnswer(g),
               "hb_ctl" \notin Faults /\ kern[u].count > 0 =>
                 g.registered /\ g.notified /\ "ocfs2" \in g.services
        PROVE  Safe'
    <3> HIDE DEF g
    <3> QED BY Zenon, <1>1, <1>2, <1>4, <1>5, <1>6, <2>1, <2>3, <2>4, <2>5, DaemonStep
  <2>6. "hb_ctl" \notin Faults /\ kern[u].count > 0 =>
          f.registered /\ f.notified /\ "ocfs2" \in f.services
    BY Zenon, <2>1, MountedNow DEF f
  <2>7. /\ f1 \in FsType /\ f1.mg = f.mg /\ f1.group = f.group /\ f1.registered = f.registered
        /\ f1.services = f.services /\ f1.in_progress = f.in_progress /\ f1.ci = NoCi
        /\ f1.notified = f.notified /\ f1.err = f.err /\ f1.cg = f.cg /\ f1.dlmc = f.dlmc
        /\ f1.results = f.results /\ f1.additional = f.additional
        /\ f1.leave_on_join = f.leave_on_join
    BY Zenon, <2>1 DEF FsType, NoCi
  <2> HIDE DEF f1
  <2>8. CASE Live(f)
    <3>1. g = f
      BY Zenon, <2>8 DEF Live
    <3>2. ~WillAnswer(f)
      BY Zenon, <2>8, PhaseFacts, <2>1 DEF WillAnswer, Live, Leaving
    <3> QED BY Zenon, <2>1, <2>5, <2>6, <3>1, <3>2
  <2>9. CASE Leaving(f)
    <3>1. g = f1
      BY Zenon, <2>9 DEF Leaving
    <3>2. Leaving(f1)
      BY Zenon, <2>7, <2>9 DEF Leaving
    <3>3. Phase(f1)
      BY Zenon, <2>1, <2>7, <3>2 DEF Phase
    <3> QED BY Zenon, <2>5, <2>6, <2>7, <3>1, <3>3
  <2>10. CASE Joining(f)
    <3>1. p \in Services /\ p # None /\ f1.services = {p} /\ ~f1.additional /\ ~f1.group
          /\ f1.cg = "joining" /\ f1.results = <<>>
      BY Zenon, <2>1, <2>7, <2>10, PhaseFacts DEF Joining
    <3>2. g = remove_service(f1, p, left)
      BY Zenon, <2>1, <2>10, PhaseFacts DEF Joining
    <3> HIDE DEF p, g
    <3>3. /\ g.mg = f1.mg /\ g.services = {} /\ g.in_progress = p /\ ~g.registered
          /\ ~g.additional /\ g.ci = NoCi /\ g.err = f1.err /\ g.results = <<>>
          /\ g.leave_on_join /\ ~g.group /\ g.cg = "joining"
      BY <2>7, <3>1, <3>2, RemoveLast
    <3>4. Abandoned(g)
      BY Zenon, <3>1, <3>3 DEF Abandoned
    <3>5. Phase(g)
      BY Zenon, <2>1, <2>7, <3>3, <3>4 DEF Phase
    <3> QED BY Zenon, <2>5, <2>6, <2>10, <3>3, <3>5 DEF Joining
  <2>11. CASE Registering(f)
    <3>1. PICK d \in Clients : Owner(u, f, cl[d])
      BY Zenon, <1>2, <2>1, <2>11 DEF Safe, Owned, WillAnswer, f
    <3>2. d = c
      BY Zenon, <1>2, <2>1, <3>1 DEF Owner, Distinct
    <3>3. Mortal
      BY Zenon, <1>2, <3>1, <3>2 DEF Owner
    <3>4. f.results = <<>>
      BY Zenon, <2>2, <3>3 DEF Tame
    <3>5. Len(f.results) = 0
      BY <3>4
    <3>6. Len(f.results) = 1
      BY Zenon, <2>11 DEF Registering
    <3> QED BY <3>5, <3>6
  <2>12. CASE Busy(f)
    <3>1. p \in Services /\ p # None /\ p \in f.services
      BY Zenon, <2>1, <2>12, PhaseFacts DEF Busy
    <3>2. CASE f.in_progress = "ocfs2" /\ f.additional
      <4>1. g = fa /\ f.notified
        BY Zenon, <2>12, <3>1, <3>2 DEF Busy
      <4>2. /\ fa.mg = f1.mg /\ fa.group = f1.group /\ fa.registered = f1.registered
            /\ fa.services = f1.services /\ fa.in_progress = None /\ fa.ci = f1.ci
            /\ fa.notified = f1.notified /\ fa.err = f1.err /\ fa.cg = f1.cg /\ fa.dlmc = f1.dlmc
            /\ fa.results = f1.results /\ ~fa.additional
        BY Zenon, <2>7 DEF FsType, None
      <4> HIDE DEF fa
      <4>3. Live(fa)
        BY Zenon, <2>7, <2>12, <3>1, <4>1, <4>2 DEF Live, Busy
      <4>4. Phase(fa)
        BY Zenon, <2>1, <2>7, <4>2, <4>3 DEF Phase
      <4> QED BY Zenon, <2>5, <2>6, <2>7, <4>1, <4>2, <4>4
    <3>3. CASE ~(f.in_progress = "ocfs2" /\ f.additional) /\ f.notified
      <4>1. g = fn /\ ~f.additional
        BY Zenon, <2>12, <3>1, <3>3 DEF Busy
      <4>2. /\ fn.mg = f1.mg /\ fn.group = f1.group /\ fn.registered = f1.registered
            /\ fn.services = f1.services /\ fn.in_progress = None /\ fn.ci = f1.ci
            /\ fn.notified = f1.notified /\ fn.err = f1.err /\ fn.cg = f1.cg /\ fn.dlmc = f1.dlmc
            /\ fn.results = f1.results /\ fn.additional = f1.additional
        BY Zenon, <2>7 DEF FsType, None
      <4> HIDE DEF fn
      <4>3. Live(fn)
        BY Zenon, <2>7, <2>12, <3>1, <3>3, <4>1, <4>2 DEF Live, Busy
      <4>4. Phase(fn)
        BY Zenon, <2>1, <2>7, <4>2, <4>3 DEF Phase
      <4> QED BY Zenon, <2>5, <2>6, <2>7, <4>1, <4>2, <4>4
    <3>4. CASE ~(f.in_progress = "ocfs2" /\ f.additional) /\ ~f.notified
      <4>1. g = remove_service(f1, p, left)
        BY Zenon, <2>12, <3>1, <3>4 DEF Busy
      <4>2. f1.services = {p} /\ ~f1.additional /\ f1.group /\ f1.cg = "joined" /\ f1.results = <<>>
        BY Zenon, <2>7, <2>12, <3>4 DEF Busy
      <4> HIDE DEF p, g
      <4>3. /\ g.mg = f1.mg /\ g.services = {} /\ g.in_progress = p /\ ~g.registered
            /\ ~g.additional /\ g.ci = NoCi /\ g.err = f1.err /\ g.results = <<>>
            /\ g.group /\ g.cg \in {"joined", "leaving"}
        BY <2>7, <3>1, <4>1, <4>2, RemoveLast
      <4>4. Leaving(g) /\ g.mg /\ g.err # "EALREADY"
        BY Zenon, <2>1, <2>7, <3>1, <4>3 DEF Leaving, Phase
      <4> QED BY Zenon, <2>5, <2>6, <3>4, <4>3, <4>4, IntoLeaving
    <3> QED BY Zenon, <3>2, <3>3, <3>4
  <2> QED BY Zenon, <1>2, <2>1, <2>8, <2>9, <2>10, <2>11, <2>12 DEF Phase, Absent, Abandoned
<1> QED BY Zenon, <1>7, <1>8

\* A mountgroup that was just created has nothing.
LEMMA NewFields ==
    ASSUME NEW f \in FsType
    PROVE  LET n == create_mg(f)
           IN  /\ n \in FsType /\ n.mg /\ n.services = {} /\ n.in_progress = None /\ ~n.registered
               /\ ~n.additional /\ n.ci = NoCi /\ ~n.group /\ ~n.notified /\ n.err = "ok"
               /\ n.results = f.results
<1> DEFINE n == create_mg(f)
<1>1. n \in FsType
  BY Zenon, CreateMg
<1>2. n.mg /\ n.services = {} /\ n.in_progress = None /\ ~n.registered /\ ~n.additional
  BY Zenon DEF create_mg, FsType
<1>3. n.ci = NoCi /\ ~n.group /\ ~n.notified /\ n.err = "ok" /\ n.results = f.results
  BY Zenon DEF create_mg, FsType
<1> QED BY Zenon, <1>1, <1>2, <1>3

\* free_mg() leaves no mountgroup behind.
LEMMA FreeFields ==
    ASSUME NEW f \in FsType, f.results = <<>>
    PROVE  Absent(free_mg(f)) /\ Phase(free_mg(f)) /\ ~WillAnswer(free_mg(f))
<1> DEFINE n == create_mg(f)
           d == [i \in DOMAIN n.dfs |-> FALSE]
           g == free_mg(f)
<1>1. /\ n \in FsType /\ n.services = {} /\ n.in_progress = None /\ ~n.registered
      /\ ~n.additional /\ n.ci = NoCi /\ n.err = "ok" /\ n.results = <<>>
  BY Zenon, NewFields
<1>2. g = [n EXCEPT !.mg = FALSE, !.cg_live = FALSE, !.dfs = d]
  BY Zenon, <1>1 DEF free_mg, FsType
<1> HIDE DEF n, d, g
<1>3. ~g.mg /\ g.services = {} /\ g.in_progress = None /\ ~g.registered
  BY Zenon, <1>1, <1>2 DEF FsType
<1>4. ~g.additional /\ g.ci = NoCi /\ g.err = "ok" /\ g.results = <<>>
  BY Zenon, <1>1, <1>2 DEF FsType
<1>5. Absent(g) /\ Phase(g) /\ ~WillAnswer(g)
  BY Zenon, <1>3, <1>4 DEF Absent, Phase, WillAnswer
<1> QED BY Zenon, <1>5 DEF g

\* add_service() when it takes the service.
LEMMA AddTakes ==
    ASSUME NEW f \in FsType, f.in_progress = None, ~f.additional, f.err \in {"ok", "error"},
           NEW s \in Services, s \notin f.services \/ s = "ocfs2", NEW ci \in Slots \cup {NoCi},
           NEW bad \in BOOLEAN, ~bad
    PROVE  LET g == add_service(f, s, ci, bad)
           IN  /\ g \in FsType
               /\ g.services = f.services \cup {s} /\ g.in_progress = s /\ g.ci = ci
               /\ g.additional <=> s \in f.services
               /\ f.services # {} => g.err \in {"EALREADY", "error"}
               /\ f.services # {} \/ g.err = f.err
               /\ g.mg = f.mg /\ g.group = f.group /\ g.registered = f.registered
               /\ g.notified = f.notified /\ g.cg = f.cg /\ g.dlmc = f.dlmc
               /\ g.results = f.results
<1> DEFINE a == s \in f.services
           g1 == [f EXCEPT !.additional = a, !.ci = ci, !.in_progress = s]
           g2 == IF f.services # {} THEN fill_error(g1, "EALREADY") ELSE g1
           g == add_service(f, s, ci, bad)
           S == f.services \cup {s}
<1>1. g1 = [f EXCEPT !.additional = @ \/ s \in f.services, !.ci = ci, !.in_progress = s]
  <2>1. (f.additional \/ s \in f.services) = (s \in f.services)
    OBVIOUS
  <2> QED BY Zenon, <2>1
<1>2. a \in BOOLEAN
  OBVIOUS
<1> HIDE DEF a
<1>3. /\ g1 \in FsType /\ g1.services = f.services /\ g1.in_progress = s /\ g1.ci = ci
      /\ g1.additional = a /\ g1.err = f.err
  BY ZenonT(30), <1>2 DEF FsType
<1>4. /\ g1.mg = f.mg /\ g1.group = f.group /\ g1.registered = f.registered
      /\ g1.notified = f.notified /\ g1.cg = f.cg /\ g1.dlmc = f.dlmc /\ g1.results = f.results
  BY Zenon DEF FsType
<1> HIDE DEF g1
<1>5. /\ g2 \in FsType
      /\ f.services # {} => g2.err \in {"EALREADY", "error"}
      /\ f.services = {} => g2.err = f.err
      /\ g2 = [g1 EXCEPT !.err = g2.err]
  <2>1. CASE f.services # {} /\ f.err = "ok"
    <3>1. g2 = [g1 EXCEPT !.err = "EALREADY"]
      BY Zenon, <1>3, <2>1 DEF fill_error
    <3> QED BY ZenonT(30), <1>3, <2>1, <3>1 DEF FsType, Status
  <2>2. CASE ~(f.services # {} /\ f.err = "ok")
    <3>1. g2 = g1
      BY Zenon, <1>3, <2>2 DEF fill_error
    <3> QED BY <1>3, <2>2, <3>1 DEF FsType
  <2> QED BY Zenon, <2>1, <2>2
<1>6. g = [g2 EXCEPT !.services = S]
  <2>1. g = [g2 EXCEPT !.services = @ \cup {s}]
    BY Zenon, <1>1 DEF add_service
  <2>2. g2.services = f.services
    BY Zenon, <1>3, <1>5 DEF FsType
  <2> HIDE DEF g, g2
  <2> QED BY Zenon, <1>5, <2>1, <2>2 DEF FsType
<1>7. S \subseteq Services
  BY Zenon DEF FsType
<1> HIDE DEF g2, g, S
<1>8. g2.in_progress = s /\ g2.ci = ci /\ g2.additional = a /\ g2.mg = f.mg /\ g2.group = f.group
  BY ZenonT(30), <1>3, <1>4, <1>5 DEF FsType
<1>9. /\ g2.registered = f.registered /\ g2.notified = f.notified /\ g2.cg = f.cg
      /\ g2.dlmc = f.dlmc /\ g2.results = f.results
  BY <1>3, <1>4, <1>5 DEF FsType
<1>10. g \in FsType /\ g.services = S /\ g.err = g2.err
  BY Zenon, <1>5, <1>6, <1>7 DEF FsType
<1>11. g.in_progress = s /\ g.ci = ci /\ g.additional = a /\ g.mg = f.mg /\ g.group = f.group
  BY Zenon, <1>5, <1>6, <1>8 DEF FsType
<1>12. /\ g.registered = f.registered /\ g.notified = f.notified /\ g.cg = f.cg
       /\ g.dlmc = f.dlmc /\ g.results = f.results
  BY Zenon, <1>5, <1>6, <1>9 DEF FsType
<1> QED BY Zenon, <1>5, <1>10, <1>11, <1>12 DEF g, S, a

\* What start_mount() finds.
LEMMA StartsFrom ==
    ASSUME Inv, Safe, daemon = "up", NEW c \in Clients, NEW bad \in BOOLEAN,
           NEW joined \in BOOLEAN, NEW i \in Slots, start_mount(c, bad, joined, i)
    PROVE  /\ FsOK(mounts, fs) /\ ClOK(cl) /\ fs \in [Uuids -> FsType]
           /\ cl[c].u \in Uuids /\ cl[c].s \in Services /\ fs[cl[c].u] \in FsType
           /\ Phase(fs[cl[c].u]) /\ cl[c].ci \in Slots /\ cl[c].ci # NoCi
           /\ cl[c].up = "MOUNT" /\ cl[c].up # None /\ cl[c].pc \in {"joining", "gone"}
           /\ cl[c].down = <<>> /\ ClientOK(cl[c]) /\ Conns
           /\ kern' = kern /\ daemon' = daemon
<1>1. FsOK(mounts, fs) /\ ClOK(cl) /\ fs \in [Uuids -> FsType]
  BY Zenon, InvParts DEF FsOK
<1>2. cl[c].up = "MOUNT" /\ cl[c].up # None /\ kern' = kern /\ daemon' = daemon
  BY Zenon DEF start_mount, None
<1>3. /\ cl[c].pc \in {"joining", "gone"} /\ cl[c].down = <<>> /\ cl[c].ci # NoCi
      /\ ClientOK(cl[c]) /\ Conns
  BY Zenon, <1>2 DEF Safe, Conns, ClientOK
<1>4. cl[c].u \in Uuids /\ cl[c].s \in Services /\ cl[c].ci \in Slots
  BY Zenon, <1>1, <1>3 DEF ClOK, ClType
<1> QED BY Zenon, <1>1, <1>2, <1>3, <1>4 DEF Safe, Phases

\* start_mount() of a filesystem that has a mountgroup keeps the invariant: the
\* service is refused, or the mountgroup was idle and now waits for its result.
LEMMA StartFoundSafe ==
    ASSUME Tame, Inv, Safe, daemon = "up", NEW c \in Clients, NEW bad \in BOOLEAN,
           NEW joined \in BOOLEAN, NEW i \in Slots, start_mount(c, bad, joined, i),
           fs[cl[c].u].mg
    PROVE  Safe'
<1> DEFINE u == cl[c].u
           s == cl[c].s
           ci == cl[c].ci
           f == fs[u]
           f1 == add_service(f, s, ci, bad)
           f3 == [f1 EXCEPT !.err = "ok", !.notified = @ \/ f1.err = "EALREADY"]
           refused == bad \/ f.in_progress # None \/ (s \in f.services /\ s # "ocfs2")
<1>1. /\ FsOK(mounts, fs) /\ ClOK(cl) /\ fs \in [Uuids -> FsType]
      /\ u \in Uuids /\ s \in Services /\ f \in FsType /\ Phase(f) /\ ci \in Slots /\ ci # NoCi
      /\ cl[c].up = "MOUNT" /\ cl[c].up # None /\ cl[c].pc \in {"joining", "gone"}
      /\ cl[c].down = <<>> /\ ClientOK(cl[c]) /\ Conns
      /\ kern' = kern /\ daemon' = daemon
  BY Zenon, StartsFrom
<1>2. /\ fs' = [fs EXCEPT ![u] = IF f1.err = "error" /\ f1.services = {} THEN free_mg(f3) ELSE f3]
      /\ cl' = IF f1.err = "ok" THEN Read(c) ELSE send_message(Read(c), ci, f1.err)
      /\ ~leaving(f)
  BY Zenon DEF start_mount, Tame, NoOverlap
<1>3. f.mg /\ f.services # {} /\ (Joining(f) \/ Registering(f) \/ Busy(f) \/ Live(f))
  BY Zenon, <1>1, <1>2, PhaseFacts DEF Phase, Absent, Abandoned, Leaving, leaving, Live
<1>4. f.err \in {"ok", "error"}
  BY Zenon, <1>1 DEF Phase, FsType, Status
<1> HIDE DEF u, s, ci, f
<1>5. CASE refused
  <2> DEFINE g == [f EXCEPT !.err = "ok"]
  <2>1. f1 = [f EXCEPT !.err = "error"]
    <3>1. f1 = fill_error(f, "error")
      BY Zenon, <1>5 DEF add_service
    <3>2. f.err = "error" => f = [f EXCEPT !.err = "error"]
      BY <1>1 DEF FsType
    <3> QED BY Zenon, <1>4, <3>1, <3>2 DEF fill_error
  <2>2. f1.err = "error" /\ f1.services = f.services /\ f3 = g
    <3>1. f1.err = "error" /\ f1.services = f.services /\ f1.notified = f.notified
      BY Zenon, <1>1, <2>1 DEF FsType
    <3>2. (f1.notified \/ f1.err = "EALREADY") = f.notified
      BY Zenon, <1>1, <3>1 DEF FsType
    <3>3. f3 = [f1 EXCEPT !.err = "ok", !.notified = f.notified]
      BY Zenon, <3>2
    <3>4. [f1 EXCEPT !.err = "ok", !.notified = f.notified] = [f EXCEPT !.err = "ok"]
      <4> HIDE DEF f1
      <4> QED BY Zenon, <1>1, <2>1 DEF FsType
    <3> QED BY Zenon, <3>1, <3>3, <3>4
  <2> HIDE DEF f1, f3
  <2>3. fs' = [fs EXCEPT ![u] = g] /\ cl' = send_message(Read(c), ci, "error")
    BY Zenon, <1>2, <1>3, <2>2
  <2>4. OnlyFs(u) /\ fs'[u] = g
    BY Zenon, <1>1, <2>3 DEF OnlyFs
  <2>5. /\ Told(cl[c], cl'[c], "error") /\ ClientOK(cl'[c])
        /\ \A d \in Clients : d # c => cl'[d] = cl[d]
    BY Zenon, <1>1, <2>3, ReplyStep DEF Status, ci
  <2>6. OnlyClients({c}) /\ Distinct(cl')
    BY <1>1, <2>5 DEF OnlyClients, Told, Heard, Conns, Distinct
  <2>7. ~Granted(cl'[c])
    <3>1. Head(<<"error">>) = "error"
      OBVIOUS
    <3> QED BY Zenon, <1>1, <2>5, <3>1 DEF Granted, Told, Heard, None
  <2>8. ClientMoved(c, u) /\ ("hb_ctl" \notin Faults => KernelMoved(c))
    BY Zenon, <1>1, <2>5, <2>7, HeardMoved DEF Told
  <2>9. Phase(g) /\ (Busy(f) => Busy(g))
    BY Zenon, <1>1, ErrPhase
  <2>10. /\ g.mg = f.mg /\ g.ci = f.ci /\ g.services = f.services /\ g.notified = f.notified
         /\ g.in_progress = f.in_progress /\ g.registered = f.registered
         /\ g.additional = f.additional
    BY Zenon, <1>1 DEF FsType
  <2>11. ~Leaving(f) /\ ~Leaving(g)
    BY Zenon, <1>3, <2>10 DEF Leaving
  <2>12. WillAnswer(g) => WillAnswer(f)
    <3>1. g.group = f.group /\ g.cg = f.cg
      BY Zenon, <1>1 DEF FsType
    <3> QED BY Zenon, <1>3, <2>10, <2>11, <3>1 DEF WillAnswer, Joining, Registering, Busy, Live
  <2>13. WillAnswer(g) /\ g.ci # NoCi => \E d \in Clients : Owner(u, g, cl'[d])
    <3> SUFFICES ASSUME WillAnswer(g), g.ci # NoCi PROVE \E d \in Clients : Owner(u, g, cl'[d])
      BY Zenon
    <3>1. PICK d \in Clients : Owner(u, f, cl'[d])
      BY Zenon, <1>1, <2>6, <2>10, <2>12, OwnerStays DEF f
    <3> QED BY Zenon, <2>10, <2>11, <3>1 DEF Owner
  <2>14. \A d \in Clients \ {c} : Granted(cl[d]) /\ cl[d].u = u => Kept(g, cl[d])
    BY <2>9, <2>10 DEF Safe, Grants, Kept, f
  <2>15. "hb_ctl" \notin Faults /\ kern[u].count > 0 =>
           g.registered /\ g.notified /\ "ocfs2" \in g.services
    BY Zenon, <1>1, <2>10, MountedNow DEF f
  <2> HIDE DEF g
  <2> QED BY Zenon, <1>1, <2>4, <2>6, <2>8, <2>9, <2>10, <2>13, <2>14, <2>15, DaemonStep DEF f
<1>6. CASE ~refused
  <2>1. ~bad /\ f.in_progress = None /\ (s \notin f.services \/ s = "ocfs2") /\ Live(f)
    BY Zenon, <1>1, <1>3, <1>6, PhaseFacts
  <2>2. ~f.additional /\ f1 = add_service(f, s, ci, bad) /\ ci \in Slots \cup {NoCi}
    BY Zenon, <1>1, <2>1 DEF Live
  <2> HIDE DEF f1
  <2>3. /\ f1 \in FsType /\ f1.services = f.services \cup {s} /\ f1.in_progress = s
        /\ f1.ci = ci /\ (f1.additional <=> s \in f.services)
    BY <1>1, <1>4, <2>1, <2>2, AddTakes
  <2>4. f1.err \in {"EALREADY", "error"} /\ f1.mg = f.mg /\ f1.group = f.group
        /\ f1.registered = f.registered
    <3>1. f.services # {} => f1.err \in {"EALREADY", "error"}
      BY Zenon, <1>1, <1>4, <2>1, <2>2, AddTakes
    <3>2. f1.mg = f.mg /\ f1.group = f.group /\ f1.registered = f.registered
      BY <1>1, <1>4, <2>1, <2>2, AddTakes
    <3> QED BY Zenon, <1>3, <3>1, <3>2
  <2>5. f1.notified = f.notified /\ f1.cg = f.cg /\ f1.dlmc = f.dlmc /\ f1.results = f.results
    BY <1>1, <1>4, <2>1, <2>2, AddTakes
  <2>6. f3 = [f1 EXCEPT !.err = "ok", !.notified = TRUE]
    <3>1. (f1.notified \/ f1.err = "EALREADY") = TRUE
      BY Zenon, <2>1, <2>5 DEF Live
    <3> QED BY Zenon, <3>1
  <2> HIDE DEF f3
  <2>7. /\ f3.services = f.services \cup {s} /\ f3.in_progress = s /\ f3.ci = ci
        /\ (f3.additional <=> s \in f.services)
    BY Zenon, <2>3, <2>6 DEF FsType
  <2>8. /\ f3.mg = f.mg /\ f3.group = f.group /\ f3.registered = f.registered
        /\ f3.notified /\ f3.err = "ok"
    BY Zenon, <2>3, <2>4, <2>6 DEF FsType
  <2>9. f3.cg = f.cg /\ f3.dlmc = f.dlmc /\ f3.results = f.results
    BY Zenon, <2>3, <2>5, <2>6 DEF FsType
  <2>10. Busy(f3)
    BY Zenon, <2>1, <2>7, <2>8, <2>9 DEF Busy, Live
  <2>11. Phase(f3) /\ ~WillAnswer(f3)
    BY Zenon, <1>3, <2>7, <2>8, <2>10 DEF Phase, WillAnswer, Busy, Joining, Registering, Leaving
  <2>12. f1.services # {} /\ f1.err # "ok" /\ f1.err \in Status
    BY Zenon, <2>3, <2>4 DEF Status
  <2>13. fs' = [fs EXCEPT ![u] = f3] /\ cl' = send_message(Read(c), ci, f1.err)
    BY Zenon, <1>2, <2>12
  <2>14. OnlyFs(u) /\ fs'[u] = f3
    BY Zenon, <1>1, <2>13 DEF OnlyFs
  <2>15. /\ Told(cl[c], cl'[c], f1.err) /\ ClientOK(cl'[c])
         /\ \A d \in Clients : d # c => cl'[d] = cl[d]
    BY Zenon, <1>1, <2>12, <2>13, ReplyStep DEF ci
  <2>16. OnlyClients({c}) /\ Distinct(cl')
    BY <1>1, <2>15 DEF OnlyClients, Told, Heard, Conns, Distinct
  <2>17. cl'[c].u = u /\ cl'[c].s = s /\ cl'[c].ci = ci /\ cl'[c].up = None /\ cl'[c].pc = cl[c].pc
    BY Zenon, <2>15 DEF Told, Heard, u, s, ci
  <2>18. ClientMoved(c, u)
    <3>1. Kept(f3, cl'[c])
      BY Zenon, <1>1, <1>3, <2>7, <2>8, <2>10, <2>17 DEF Kept
    <3> QED BY Zenon, <1>1, <2>14, <2>15, <2>17, <3>1 DEF ClientMoved, Owner
  <2>19. ASSUME "hb_ctl" \notin Faults PROVE KernelMoved(c)
    <3>1. s = "ocfs2" /\ kern[u].count > 0 => f3.additional
      BY Zenon, <1>1, <2>7, <2>19, MountedNow DEF f
    <3> QED BY Zenon, <1>1, <2>14, <2>17, <3>1 DEF KernelMoved, HbCtl, None
  <2>20. \A d \in Clients \ {c} : Granted(cl[d]) => cl[d].u # u
    <3>1. ~Busy(fs[u])
      BY Zenon, <1>1, <2>1, PhaseFacts DEF f
    <3> QED BY Zenon, <1>1, <3>1, NoneGranted
  <2>21. "hb_ctl" \notin Faults /\ kern[u].count > 0 =>
           f3.registered /\ f3.notified /\ "ocfs2" \in f3.services
    BY Zenon, <1>1, <2>7, <2>8, MountedNow DEF f
  <2> QED BY Zenon, <1>1, <2>11, <2>14, <2>16, <2>18, <2>19, <2>20, <2>21, DaemonStep
<1> QED BY Zenon, <1>5, <1>6

\* start_mount() of a filesystem that has none keeps the invariant: the mountgroup
\* joins its group and owes its client an answer, or it is freed again.
LEMMA StartNewSafe ==
    ASSUME Tame, Inv, Safe, daemon = "up", NEW c \in Clients, NEW bad \in BOOLEAN,
           NEW joined \in BOOLEAN, NEW i \in Slots, start_mount(c, bad, joined, i),
           ~fs[cl[c].u].mg
    PROVE  Safe'
<1> DEFINE u == cl[c].u
           s == cl[c].s
           ci == cl[c].ci
           f == fs[u]
<1>1. /\ FsOK(mounts, fs) /\ ClOK(cl) /\ fs \in [Uuids -> FsType]
      /\ u \in Uuids /\ s \in Services /\ f \in FsType /\ Phase(f) /\ ci \in Slots /\ ci # NoCi
      /\ cl[c].up = "MOUNT" /\ cl[c].up # None /\ cl[c].pc \in {"joining", "gone"}
      /\ cl[c].down = <<>> /\ ClientOK(cl[c]) /\ Conns
      /\ kern' = kern /\ daemon' = daemon
  BY Zenon, StartsFrom
<1> DEFINE f0 == create_mg(f)
           f1 == add_service(f0, s, ci, bad)
           fj == [f1 EXCEPT !.cg = "joining", !.cg_live = TRUE, !.cg_ci = i]
           e == fill_error(f1, "error")
           r == remove_service(e, s, FALSE)
           fn == [r EXCEPT !.in_progress = None]
           f2 == IF f1.err # "ok" THEN f1 ELSE IF joined THEN fj ELSE fn
           f3 == [f2 EXCEPT !.err = "ok", !.notified = @ \/ f2.err = "EALREADY"]
           freed == f2.err = "error" /\ f2.services = {}
<1>2. /\ fs' = [fs EXCEPT ![u] = IF freed THEN free_mg(f3) ELSE f3]
      /\ cl' = IF f2.err = "ok" THEN Read(c) ELSE send_message(Read(c), ci, f2.err)
  <2> DEFINE m0 == IF f.mg THEN f ELSE create_mg(f)
             m1 == add_service(m0, s, ci, bad)
  <2>1. m1 = f1
    BY Zenon
  <2> DEFINE m2 == IF f.mg \/ m1.err # "ok" THEN m1
                   ELSE IF joined THEN [m1 EXCEPT !.cg = "joining", !.cg_live = TRUE, !.cg_ci = i]
                   ELSE [remove_service(fill_error(m1, "error"), s, FALSE) EXCEPT !.in_progress = None]
  <2>2. m2 = f2
    <3> HIDE DEF m1, f1
    <3> QED BY Zenon, <2>1
  <2> DEFINE m3 == [m2 EXCEPT !.err = "ok", !.notified = @ \/ m2.err = "EALREADY"]
             gone == m2.err = "error" /\ m2.services = {}
  <2>3. m3 = f3 /\ gone = freed
    <3> HIDE DEF m2, f2
    <3> QED BY Zenon, <2>2
  <2>4. /\ fs' = [fs EXCEPT ![u] = IF gone THEN free_mg(m3) ELSE m3]
        /\ cl' = IF m2.err = "ok" THEN Read(c) ELSE send_message(Read(c), ci, m2.err)
    BY Zenon DEF start_mount
  <2> HIDE DEF m2, f2, m3, f3, gone, freed
  <2> QED BY Zenon, <2>2, <2>3, <2>4
<1> HIDE DEF f0, f1, fj, e, r, fn, f2, f3, freed
<1>3. Absent(f) /\ f.results = <<>> /\ ~f.mg
  BY Zenon, <1>1 DEF Phase, Absent
<1>4. \A d \in Clients \ {c} : Granted(cl[d]) => cl[d].u # u
  <2>1. ~Busy(fs[u])
    BY Zenon, <1>3 DEF Busy, Absent, f
  <2> QED BY Zenon, <1>1, <2>1, NoneGranted
<1>5. "hb_ctl" \in Faults \/ ~(kern[u].count > 0)
  BY Zenon, <1>1, <1>3, MountedNow DEF f
<1>6. ASSUME Heard(cl[c], cl'[c]), ClientOK(cl'[c]), ~Granted(cl'[c]),
             \A d \in Clients : d # c => cl'[d] = cl[d], OnlyFs(u), Phase(fs'[u]),
             WillAnswer(fs'[u]) /\ fs'[u].ci # NoCi => \E d \in Clients : Owner(u, fs'[u], cl'[d])
      PROVE  Safe'
  <2>1. OnlyClients({c}) /\ Distinct(cl')
    BY <1>1, <1>6 DEF OnlyClients, Heard, Conns, Distinct
  <2>2. ClientMoved(c, u) /\ ("hb_ctl" \notin Faults => KernelMoved(c))
    BY Zenon, <1>1, <1>6, HeardMoved
  <2> QED BY Zenon, <1>1, <1>4, <1>5, <1>6, <2>1, <2>2, DaemonStep
<1>7. /\ f0 \in FsType /\ f0.mg /\ f0.services = {} /\ f0.in_progress = None /\ ~f0.registered
      /\ ~f0.additional /\ f0.ci = NoCi /\ ~f0.group /\ ~f0.notified /\ f0.err = "ok"
      /\ f0.results = <<>>
  BY Zenon, <1>1, <1>3, NewFields DEF f0
<1> HIDE DEF u, s, ci, f
<1>8. /\ f1 \in FsType /\ f1.results = <<>>
      /\ bad => f1.err = "error" /\ f1.services = {}
      /\ ~bad => /\ f1.mg /\ f1.services = {s} /\ f1.in_progress = s /\ f1.ci = ci
                 /\ ~f1.additional /\ f1.err = "ok" /\ ~f1.group /\ ~f1.registered /\ ~f1.notified
  <2>1. CASE bad
    <3>1. f1 = [f0 EXCEPT !.err = "error"]
      BY Zenon, <1>7, <2>1 DEF add_service, fill_error, f1
    <3> QED BY ZenonT(30), <1>7, <2>1, <3>1 DEF FsType, Status
  <2>2. CASE ~bad
    <3>1. /\ f0.err \in {"ok", "error"} /\ ci \in Slots \cup {NoCi} /\ s \notin f0.services
          /\ f1 = add_service(f0, s, ci, bad)
      BY Zenon, <1>1, <1>7 DEF f1
    <3>2. /\ f1 \in FsType /\ f1.services = f0.services \cup {s} /\ f1.in_progress = s
          /\ f1.ci = ci /\ (f1.additional <=> s \in f0.services)
      BY <1>1, <1>7, <2>2, <3>1, AddTakes
    <3>3. f0.services # {} \/ f1.err = f0.err
      BY <1>1, <1>7, <2>2, <3>1, AddTakes
    <3>4. f1.mg /\ ~f1.group
      <4>1. f1.mg = f0.mg
        BY Zenon, <1>1, <1>7, <2>2, <3>1, AddTakes
      <4>2. f1.group = f0.group
        BY <1>1, <1>7, <2>2, <3>1, AddTakes
      <4> QED BY Zenon, <1>7, <4>1, <4>2
    <3>5. f1.registered = f0.registered /\ f1.notified = f0.notified /\ f1.results = f0.results
      BY <1>1, <1>7, <2>2, <3>1, AddTakes
    <3>6. f0.services \cup {s} = {s}
      BY Zenon, <1>7
    <3> QED BY Zenon, <1>7, <2>2, <3>1, <3>2, <3>3, <3>4, <3>5, <3>6
  <2> QED BY Zenon, <2>1, <2>2
<1>9. CASE ~bad /\ joined
  <2>1. fj \in FsType
    BY Zenon, <1>8 DEF FsType, fj
  <2>2. /\ fj.mg = f1.mg /\ fj.services = f1.services /\ fj.in_progress = f1.in_progress
        /\ fj.ci = f1.ci /\ fj.additional = f1.additional /\ fj.err = f1.err
    BY Zenon, <1>8 DEF FsType, fj
  <2>3. /\ fj.group = f1.group /\ fj.registered = f1.registered /\ fj.notified = f1.notified
        /\ fj.results = f1.results /\ fj.cg = "joining"
    BY Zenon, <1>8 DEF FsType, fj
  <2>4. f2 = fj
    BY Zenon, <1>8, <1>9 DEF f2
  <2>5. f3 = [fj EXCEPT !.err = "ok", !.notified = FALSE]
    <3>1. ~f2.notified /\ f2.err # "EALREADY"
      BY Zenon, <1>8, <1>9, <2>2, <2>3, <2>4
    <3>2. (f2.notified \/ f2.err = "EALREADY") = FALSE
      BY Zenon, <3>1
    <3> QED BY Zenon, <2>4, <3>2 DEF f3
  <2>6. f3.mg /\ f3.services = {s} /\ f3.in_progress = s /\ f3.ci = ci
        /\ ~f3.additional /\ f3.err = "ok"
    BY Zenon, <1>8, <1>9, <2>1, <2>2, <2>5 DEF FsType
  <2>7. ~f3.group /\ ~f3.registered /\ ~f3.notified /\ f3.results = <<>> /\ f3.cg = "joining"
    BY Zenon, <1>8, <1>9, <2>1, <2>3, <2>5 DEF FsType
  <2>8. Joining(f3) /\ ~Leaving(f3)
    BY Zenon, <2>6, <2>7 DEF Joining, Leaving
  <2>9. Phase(f3)
    BY Zenon, <2>6, <2>8 DEF Phase
  <2>10. fs' = [fs EXCEPT ![u] = f3] /\ cl' = Read(c)
    BY Zenon, <1>2, <1>8, <1>9, <2>2, <2>4 DEF freed
  <2>11. OnlyFs(u) /\ fs'[u] = f3
    BY Zenon, <1>1, <2>10 DEF OnlyFs
  <2>12. Heard(cl[c], cl'[c]) /\ cl'[c].down = <<>> /\ ClientOK(cl'[c])
         /\ \A d \in Clients : d # c => cl'[d] = cl[d]
    BY Zenon, <1>1, <2>10, ReadStep
  <2>13. ~Granted(cl'[c])
    BY Zenon, <1>1, <2>12 DEF Heard, Granted, None
  <2>14. Owner(u, f3, cl'[c])
    BY Zenon, <1>1, <2>6, <2>8, <2>12 DEF Owner, Heard, ClientOK, u, s, ci
  <2> QED BY Zenon, <1>6, <2>9, <2>11, <2>12, <2>13, <2>14
<1>10. CASE bad \/ ~joined
  <2>1. f2 \in FsType /\ f2.err = "error" /\ f2.services = {} /\ f2.results = <<>>
    <3>1. CASE bad
      BY Zenon, <1>8, <3>1 DEF f2
    <3>2. CASE ~bad
      <4>1. e = [f1 EXCEPT !.err = "error"]
        BY Zenon, <1>8, <3>2 DEF fill_error, e
      <4>2. e \in FsType /\ e.err = "error" /\ e.services = {s} /\ ~e.additional /\ e.results = <<>>
        BY Zenon, <1>8, <3>2, <4>1 DEF FsType, Status
      <4>3. r \in FsType /\ r.services = {} /\ r.err = "error" /\ r.results = <<>>
        BY Zenon, <1>1, <4>2, RemoveLast DEF r
      <4>4. f2 = fn
        BY Zenon, <1>8, <1>10, <3>2 DEF f2
      <4>5. fn \in FsType /\ fn.services = r.services /\ fn.err = r.err /\ fn.results = r.results
        BY Zenon, <4>3 DEF FsType, fn
      <4> QED BY Zenon, <4>3, <4>4, <4>5
    <3> QED BY Zenon, <3>1, <3>2
  <2>2. f3 \in FsType /\ f3.results = <<>>
    BY ZenonT(30), <2>1 DEF FsType, Status, f3
  <2>3. fs' = [fs EXCEPT ![u] = free_mg(f3)] /\ cl' = send_message(Read(c), ci, "error")
    BY Zenon, <1>2, <2>1 DEF freed
  <2>4. OnlyFs(u) /\ fs'[u] = free_mg(f3)
    BY Zenon, <1>1, <2>3 DEF OnlyFs
  <2>5. Phase(fs'[u]) /\ ~WillAnswer(fs'[u])
    BY Zenon, <2>2, <2>4, FreeFields
  <2>6. /\ Told(cl[c], cl'[c], "error") /\ ClientOK(cl'[c])
        /\ \A d \in Clients : d # c => cl'[d] = cl[d]
    BY Zenon, <1>1, <2>3, ReplyStep DEF Status, ci
  <2>7. ~Granted(cl'[c])
    <3>1. Head(<<"error">>) = "error"
      OBVIOUS
    <3> QED BY Zenon, <1>1, <2>6, <3>1 DEF Granted, Told, Heard, None
  <2> QED BY Zenon, <1>6, <2>4, <2>5, <2>6, <2>7 DEF Told
<1> QED BY Zenon, <1>9, <1>10

\* start_mount() keeps the invariant.
LEMMA StartMountSafe ==
    ASSUME Tame, Inv, Safe, daemon = "up", NEW c \in Clients, NEW bad \in BOOLEAN,
           NEW joined \in BOOLEAN, NEW i \in Slots, start_mount(c, bad, joined, i)
    PROVE  Safe'
  BY Zenon, StartFoundSafe, StartNewSafe

=============================================================================
