-------------------------- MODULE Mountgroup_proofs --------------------------
(***************************************************************************)
(* What holds of the mountgroups of ocfs2_controld for every set of        *)
(* filesystems, clients, services and faults.                              *)
(*                                                                         *)
(* TypeOK is inductive once the list of mountgroups is known to be a list  *)
(* of filesystems.  GroupLive, that a cgroup never outlives the mountgroup *)
(* it calls back, needs to know that a mountgroup without services has its *)
(* LEAVE in progress (BusyOK): only then does the assumption that no MOUNT *)
(* arrives during a LEAVE keep start_mount() from freeing it.              *)
(***************************************************************************)
EXTENDS Mountgroup, TLAPS

\* A mountgroup without services is being left: remove_service() sets
\* mg_ms_in_progress when it removes the last one.
BusyOK(f) == f.mg /\ f.services = {} => f.in_progress # None

\* What a handler that neither creates nor frees the mountgroup leaves alone.
Frame(f, g) == g.mg = f.mg /\ g.cg_live = f.cg_live /\ (g.cg = "none" <=> f.cg = "none")

GroupOK(f) == (f.mg <=> f.cg_live) /\ (f.cg_live <=> f.cg # "none")

-----------------------------------------------------------------------------
(* The operators on one filesystem.                                        *)

\* fill_error() keeps the record's type and everything but the error.
LEMMA FillError ==
    ASSUME NEW f \in FsType, NEW e \in Status
    PROVE  /\ fill_error(f, e) \in FsType
           /\ fill_error(f, e) = [f EXCEPT !.err = fill_error(f, e).err]
<1>1. CASE f.err # "ok"
  BY <1>1 DEF fill_error, FsType
<1>2. CASE f.err = "ok"
  <2>1. fill_error(f, e) = [f EXCEPT !.err = e]
    BY Zenon, <1>2 DEF fill_error
  <2>2. [f EXCEPT !.err = e] \in FsType /\ [f EXCEPT !.err = e].err = e
    BY Zenon DEF FsType
  <2>3. QED
    BY Zenon, <2>1, <2>2
<1>3. QED
  BY Zenon, <1>1, <1>2

\* create_mg() makes an empty mountgroup and leaves the cgroup alone.
LEMMA CreateMg ==
    ASSUME NEW f \in FsType
    PROVE  /\ create_mg(f) \in FsType
           /\ create_mg(f).mg /\ create_mg(f).services = {} /\ create_mg(f).err = "ok"
           /\ create_mg(f).in_progress = None
           /\ create_mg(f).cg_live = f.cg_live /\ create_mg(f).cg = f.cg
  BY DEF create_mg, FsType, Status, NoCi, None

\* A freed mountgroup has no live cgroup or dlmcontrol_fs.
LEMMA FreeMg ==
    ASSUME NEW f \in FsType
    PROVE  /\ free_mg(f) \in FsType
           /\ ~free_mg(f).mg /\ ~free_mg(f).cg_live /\ free_mg(f).cg = f.cg
<1> DEFINE g == create_mg(f)
<1>1. g \in FsType /\ g.cg = f.cg /\ g.dfs \in Seq(BOOLEAN)
  BY Zenon, CreateMg DEF FsType
<1>2. [i \in DOMAIN g.dfs |-> FALSE] \in Seq(BOOLEAN)
  <2>1. DOMAIN g.dfs = 1..Len(g.dfs) /\ Len(g.dfs) \in Nat
    BY <1>1
  <2> QED BY <2>1
<1>3. free_mg(f) = [g EXCEPT !.mg = FALSE, !.cg_live = FALSE,
                             !.dfs = [i \in DOMAIN g.dfs |-> FALSE]]
  BY Zenon, <1>1 DEF free_mg, FsType
<1> HIDE DEF g
<1> QED BY ZenonT(60), <1>1, <1>2, <1>3 DEF FsType

\* dlmcontrol_unregister() only touches the registrations.
LEMMA Unregister ==
    ASSUME NEW f \in FsType
    PROVE  LET g == dlmcontrol_unregister(f)
           IN  /\ g \in FsType
               /\ g.mg = f.mg /\ g.cg_live = f.cg_live /\ g.cg = f.cg
               /\ g.services = f.services /\ g.err = f.err
<1>1. f.dfs \in Seq(BOOLEAN) /\ (f.dfs # <<>> => Tail(f.dfs) \in Seq(BOOLEAN))
  BY DEF FsType
<1>2. CASE f.dfs = <<>>
  BY Zenon, <1>2 DEF dlmcontrol_unregister
<1>3. CASE f.dfs # <<>>
  <2> DEFINE t == Tail(f.dfs)
  <2>1. dlmcontrol_unregister(f) = [f EXCEPT !.dfs = t, !.dlmc = FALSE]
    BY Zenon, <1>3 DEF dlmcontrol_unregister, FsType
  <2>2. t \in Seq(BOOLEAN)
    BY Zenon, <1>1, <1>3
  <2> HIDE DEF t
  <2> QED BY ZenonT(60), <2>1, <2>2 DEF FsType
<1> QED BY Zenon, <1>2, <1>3

\* remove_service() keeps the mountgroup and its cgroup; after the last service
\* a LEAVE is in progress.
LEMMA RemoveService ==
    ASSUME NEW f \in FsType, NEW s \in Services, NEW left \in BOOLEAN
    PROVE  /\ remove_service(f, s, left) \in FsType
           /\ Frame(f, remove_service(f, s, left))
           /\ remove_service(f, s, left).err = f.err
           /\ s \in f.services => BusyOK(remove_service(f, s, left))
           /\ s \notin f.services => remove_service(f, s, left) = f
<1> DEFINE rest == f.services \ {s}
           g == [f EXCEPT !.services = rest, !.additional = @ /\ s # "ocfs2"]
           g1 == IF f.registered THEN dlmcontrol_unregister(g) ELSE g
           h == [g1 EXCEPT !.in_progress = s, !.registered = FALSE]
<1>1. g \in FsType /\ Frame(f, g) /\ g.services = rest /\ g.err = f.err /\ g.cg = f.cg
  BY ZenonT(60) DEF FsType, Frame
<1>2. g1 \in FsType /\ Frame(f, g1) /\ g1.services = rest /\ g1.err = f.err /\ g1.cg = f.cg
  <2>1. CASE f.registered
    <3> HIDE DEF g
    <3>1. g1 = dlmcontrol_unregister(g)
      BY Zenon, <2>1
    <3>2. dlmcontrol_unregister(g).mg = g.mg /\ dlmcontrol_unregister(g).cg_live = g.cg_live
          /\ dlmcontrol_unregister(g).cg = g.cg /\ dlmcontrol_unregister(g).services = g.services
          /\ dlmcontrol_unregister(g).err = g.err
      BY Zenon, <1>1, Unregister DEF FsType
    <3> QED BY Zenon, <1>1, <3>1, <3>2, Unregister DEF Frame
  <2>2. CASE ~f.registered
    BY Zenon, <1>1, <2>2
  <2> QED BY Zenon, <2>1, <2>2
<1>3. h \in FsType /\ Frame(f, h) /\ h.services = rest /\ h.in_progress = s /\ h.err = f.err
      /\ h.cg = f.cg
  <2> HIDE DEF g1
  <2> QED BY ZenonT(60), <1>2 DEF FsType, Frame
<1>4. s # None
  BY Zenon, ConstAssumption DEF None
<1> HIDE DEF h
<1>5. group_leave(h, left) \in FsType /\ Frame(h, group_leave(h, left))
      /\ group_leave(h, left).in_progress = s /\ group_leave(h, left).err = h.err
  <2>1. CASE left /\ h.cg = "joined"
    BY Zenon, <1>3, <2>1 DEF group_leave, FsType, Frame
  <2>2. CASE ~(left /\ h.cg = "joined")
    BY Zenon, <1>3, <2>2 DEF group_leave, Frame
  <2> QED BY Zenon, <2>1, <2>2
<1>6. [h EXCEPT !.leave_on_join = TRUE] \in FsType /\ Frame(h, [h EXCEPT !.leave_on_join = TRUE])
      /\ [h EXCEPT !.leave_on_join = TRUE].in_progress = s
      /\ [h EXCEPT !.leave_on_join = TRUE].err = h.err
  BY Zenon, <1>3 DEF FsType, Frame
<1>7. remove_service(f, s, left) =
        IF s \notin f.services THEN f
        ELSE IF rest # {} THEN g
        ELSE IF f.group THEN group_leave(h, left)
        ELSE [h EXCEPT !.leave_on_join = TRUE]
  BY Zenon DEF remove_service, h
<1> HIDE DEF g, g1
<1> QED BY Zenon, <1>1, <1>3, <1>4, <1>5, <1>6, <1>7 DEF Frame, BusyOK

\* add_service() keeps the mountgroup and its cgroup; either it changes no
\* service and reports an error, or there is a service and one in progress.
LEMMA AddService ==
    ASSUME NEW f \in FsType, NEW s \in Services, NEW ci \in Slots \cup {NoCi},
           NEW bad \in BOOLEAN
    PROVE  LET g == add_service(f, s, ci, bad)
           IN  /\ g \in FsType
               /\ Frame(f, g) /\ g.cg = f.cg
               /\ \/ g = fill_error(f, "error")
                  \/ g.services # {} /\ g.services = f.services \cup {s}
<1>1. fill_error(f, "error") \in FsType /\ Frame(f, fill_error(f, "error"))
      /\ fill_error(f, "error").cg = f.cg
  BY DEF fill_error, Frame, FsType, Status
<1> DEFINE g == [f EXCEPT !.additional = @ \/ s \in f.services, !.ci = ci, !.in_progress = s]
           e == IF f.services # {} THEN fill_error(g, "EALREADY") ELSE g
<1>2. g \in FsType /\ Frame(f, g) /\ g.services = f.services /\ g.cg = f.cg
  BY ZenonT(30) DEF FsType, Frame
<1>3. e \in FsType /\ Frame(f, e) /\ e.services = f.services /\ e.cg = f.cg
  <2> HIDE DEF g
  <2>1. CASE f.services # {} /\ g.err = "ok"
    BY Zenon, <1>2, <2>1 DEF FsType, Frame, fill_error, Status
  <2>2. CASE ~(f.services # {} /\ g.err = "ok")
    BY Zenon, <1>2, <2>2 DEF fill_error
  <2> QED BY Zenon, <2>1, <2>2
<1>4. [e EXCEPT !.services = @ \cup {s}] \in FsType
      /\ Frame(f, [e EXCEPT !.services = @ \cup {s}])
      /\ [e EXCEPT !.services = @ \cup {s}].services = f.services \cup {s}
      /\ [e EXCEPT !.services = @ \cup {s}].cg = f.cg
  <2> HIDE DEF e
  <2> QED BY ZenonT(30), <1>3 DEF FsType, Frame
<1>5. \/ add_service(f, s, ci, bad) = fill_error(f, "error")
      \/ add_service(f, s, ci, bad) = [e EXCEPT !.services = @ \cup {s}]
  BY Zenon DEF add_service
<1> HIDE DEF g, e
<1> QED BY Zenon, <1>1, <1>4, <1>5

\* finish_join() keeps the mountgroup and its cgroup.
LEMMA FinishJoin ==
    ASSUME NEW f \in FsType, f.cg # "none", NEW sent \in BOOLEAN, NEW st \in {"ok", "error"},
           NEW left \in BOOLEAN, BusyOK(f)
    PROVE  /\ finish_join(f, sent, st, left) \in FsType
           /\ Frame(f, finish_join(f, sent, st, left))
           /\ BusyOK(finish_join(f, sent, st, left))
<1> DEFINE g == [f EXCEPT !.group = TRUE]
           d == <<TRUE>> \o f.dfs
           r == Append(f.results, st)
           m == f.dlmc \/ st = "ok"
           j == finish_join(f, sent, st, left)
<1>1. g \in FsType /\ Frame(f, g) /\ BusyOK(g) /\ g.services = f.services
  BY ZenonT(30) DEF FsType, Frame, BusyOK
<1>2. d \in Seq(BOOLEAN) /\ r \in Seq({"ok", "error"}) /\ m \in BOOLEAN
  BY DEF FsType
<1>3. CASE f.group \/ f.in_progress = None
  <2>1. j = f
    BY Zenon, <1>3 DEF finish_join
  <2> QED BY Zenon, <2>1 DEF Frame
<1>4. CASE ~(f.group \/ f.in_progress = None) /\ f.in_progress \notin f.services
  <2>1. j = f \/ j = [f EXCEPT !.cg = "leaving"]
    BY Zenon, <1>4 DEF finish_join, group_leave
  <2>2. [f EXCEPT !.cg = "leaving"] \in FsType /\ Frame(f, [f EXCEPT !.cg = "leaving"])
        /\ BusyOK([f EXCEPT !.cg = "leaving"])
    BY Zenon DEF FsType, Frame, BusyOK
  <2> QED BY Zenon, <2>1, <2>2 DEF Frame
<1>5. CASE ~(f.group \/ f.in_progress = None) /\ f.in_progress \in f.services /\ sent
  <2>1. j = [g EXCEPT !.dfs = d, !.dlmc = m, !.results = r]
    BY Zenon, <1>5 DEF finish_join, FsType
  <2> HIDE DEF g, d, m, r
  <2>2. [g EXCEPT !.dfs = d, !.dlmc = m, !.results = r] \in FsType
    BY Zenon, <1>1, <1>2 DEF FsType
  <2>3. Frame(g, j) /\ j.services = g.services /\ j.in_progress = g.in_progress /\ j.mg = g.mg
    BY Zenon, <1>1, <2>1 DEF FsType, Frame
  <2> HIDE DEF j
  <2>4. Frame(f, j)
    BY Zenon, <1>1, <2>3 DEF Frame
  <2>5. BusyOK(j)
    BY Zenon, <1>1, <2>3 DEF BusyOK
  <2> QED BY Zenon, <2>1, <2>2, <2>4, <2>5 DEF j
<1>6. CASE ~(f.group \/ f.in_progress = None) /\ f.in_progress \in f.services /\ ~sent
  <2> DEFINE e == fill_error(g, "error")
  <2>1. j = remove_service(e, f.in_progress, left) /\ f.in_progress \in Services
    BY Zenon, <1>6 DEF finish_join, FsType
  <2> HIDE DEF g
  <2>2. e \in FsType /\ Frame(g, e) /\ e.services = g.services
    <3>1. CASE g.err = "ok"
      BY Zenon, <1>1, <3>1 DEF FsType, Frame, fill_error, Status
    <3>2. CASE g.err # "ok"
      BY Zenon, <1>1, <3>2 DEF Frame, fill_error
    <3> QED BY Zenon, <3>1, <3>2
  <2> HIDE DEF e
  <2> QED BY <1>1, <1>6, <2>1, <2>2, RemoveService DEF Frame
<1> QED BY Zenon, <1>3, <1>4, <1>5, <1>6

-----------------------------------------------------------------------------
(* The list of mountgroups and the connections.                            *)

\* Whichever entries of a list of n are looked for, one of them comes first.
Least(n) == \A T \in SUBSET (1..n) : T # {} => \E x \in T : \A y \in T : x <= y

\* What a list says: each entry once, the entries are the set L, and a search
\* from its head ends.
Lists(seq, L) ==
    /\ seq \in Seq(Uuids)
    /\ \A i, j \in DOMAIN seq : seq[i] = seq[j] => i = j
    /\ {seq[i] : i \in DOMAIN seq} = L
    /\ Least(Len(seq))

\* One entry more or less: Least follows list_add() and list_del().
LEMMA LeastMore ==
    ASSUME NEW n \in Nat, Least(n)
    PROVE  Least(n + 1) /\ Least(n - 1)
<1>1. Least(n + 1)
  <2> SUFFICES ASSUME NEW T \in SUBSET (1..(n + 1)), T # {}
               PROVE  \E x \in T : \A y \in T : x <= y
    BY Zenon DEF Least
  <2>1. CASE T \cap (1..n) = {}
    <3>1. \A y \in T : y = n + 1
      BY <2>1
    <3>2. PICK x \in T : TRUE
      BY Zenon
    <3> QED BY <3>1, <3>2
  <2>2. CASE T \cap (1..n) # {}
    <3> DEFINE S == T \cap (1..n)
    <3>1. S \in SUBSET (1..n) /\ S # {}
      BY Zenon, <2>2
    <3>2. PICK x \in S : \A y \in S : x <= y
      <4> HIDE DEF S
      <4> QED BY Zenon, <3>1 DEF Least
    <3>3. ASSUME NEW y \in T PROVE x <= y
      BY <3>2
    <3> QED BY Zenon, <3>2, <3>3
  <2> QED BY Zenon, <2>1, <2>2
<1>2. Least(n - 1)
  <2> SUFFICES ASSUME NEW T \in SUBSET (1..(n - 1)), T # {}
               PROVE  \E x \in T : \A y \in T : x <= y
    BY Zenon DEF Least
  <2>1. T \in SUBSET (1..n)
    OBVIOUS
  <2> QED BY Zenon, <2>1 DEF Least
<1> QED BY Zenon, <1>1, <1>2

\* Among the entries of a list that satisfy something one comes first.
LEMMA FirstOf ==
    ASSUME NEW seq, NEW L, Lists(seq, L), NEW T, T \subseteq DOMAIN seq, T # {}
    PROVE  \E x \in T : \A y \in T : x <= y
<1>1. T \in SUBSET (1..Len(seq))
  BY DEF Lists
<1>2. Least(Len(seq))
  BY Zenon DEF Lists
<1> QED BY Zenon, <1>1, <1>2 DEF Least

\* find_mg_by_client() finds a mountgroup of the list or nothing.
LEMMA FindMg ==
    ASSUME NEW L, Lists(mounts, L), NEW ci
    PROVE  \/ find_mg_by_client(ci) = None
           \/ /\ find_mg_by_client(ci) \in Uuids
              /\ \E i \in DOMAIN mounts : mounts[i] = find_mg_by_client(ci)
<1> DEFINE has(i) == fs[mounts[i]].ci = ci
           first(i) == has(i) /\ \A k \in 1..(i - 1) : ~has(k)
<1>1. DOMAIN mounts = 1..Len(mounts) /\ Len(mounts) \in Nat /\ mounts \in Seq(Uuids)
  BY DEF Lists
<1>2. CASE \E i \in DOMAIN mounts : has(i)
  <2>1. PICK i \in {k \in DOMAIN mounts : has(k)} : \A k \in {k \in DOMAIN mounts : has(k)} : i <= k
    <3> DEFINE T == {k \in DOMAIN mounts : has(k)}
    <3>1. T \subseteq DOMAIN mounts /\ T # {}
      BY Zenon, <1>2
    <3> HIDE DEF T
    <3>2. \E x \in T : \A y \in T : x <= y
      BY Zenon, <3>1, FirstOf
    <3> QED BY Zenon, <3>2 DEF T
  <2>2. \A k \in 1..(i - 1) : ~has(k)
    <3> SUFFICES ASSUME NEW k \in 1..(i - 1), has(k) PROVE FALSE
      BY Zenon
    <3>1. k \in DOMAIN mounts /\ k < i
      BY <1>1, <2>1
    <3> HIDE DEF has
    <3> QED BY <1>1, <2>1, <3>1
  <2>3. \E k \in DOMAIN mounts : first(k)
    BY Zenon, <2>1, <2>2
  <2>4. find_mg_by_client(ci) = mounts[CHOOSE k \in DOMAIN mounts : first(k)]
    BY Zenon, <1>2 DEF find_mg_by_client
  <2> HIDE DEF first
  <2>5. (CHOOSE k \in DOMAIN mounts : first(k)) \in DOMAIN mounts
    BY Zenon, <2>3
  <2> DEFINE j == CHOOSE k \in DOMAIN mounts : first(k)
  <2>6. mounts[j] \in Uuids
    <3> HIDE DEF j
    <3> QED BY <1>1, <2>5 DEF j
  <2> QED BY Zenon, <2>4, <2>5, <2>6
<1>3. CASE ~\E i \in DOMAIN mounts : has(i)
  BY Zenon, <1>3 DEF find_mg_by_client
<1> QED BY Zenon, <1>2, <1>3

\* list_del() removes one entry.
LEMMA ListDel ==
    ASSUME NEW seq, NEW L, Lists(seq, L), NEW u
    PROVE  Lists(list_del(seq, u), L \ {u})
<1>1. DOMAIN seq = 1..Len(seq) /\ Len(seq) \in Nat
  BY DEF Lists
<1>2. CASE \A i \in DOMAIN seq : seq[i] # u
  BY Zenon, <1>2 DEF list_del, Lists
<1>3. CASE \E i \in DOMAIN seq : seq[i] = u
  <2> DEFINE at == CHOOSE i \in DOMAIN seq : seq[i] = u
             new == [j \in 1..(Len(seq) - 1) |-> seq[IF j < at THEN j ELSE j + 1]]
  <2>1. at \in 1..Len(seq) /\ seq[at] = u
    BY Zenon, <1>1, <1>3
  <2>2. list_del(seq, u) = new
    BY Zenon, <1>3 DEF list_del
  <2> HIDE DEF at
  <2>3. Len(seq) - 1 \in Nat
    BY <1>1, <2>1
  <2>4. \A j \in 1..(Len(seq) - 1) : /\ (IF j < at THEN j ELSE j + 1) \in 1..Len(seq)
                                     /\ (IF j < at THEN j ELSE j + 1) # at
    BY <1>1, <2>1
  <2>5. \A j \in 1..(Len(seq) - 1) : new[j] \in Uuids
    BY <1>1, <2>4 DEF Lists
  <2>6. new \in Seq(Uuids) /\ DOMAIN new = 1..(Len(seq) - 1)
    BY <2>3, <2>5
  <2>7. \A i, j \in 1..(Len(seq) - 1) : new[i] = new[j] => i = j
    <3> SUFFICES ASSUME NEW i \in 1..(Len(seq) - 1), NEW j \in 1..(Len(seq) - 1), new[i] = new[j]
                 PROVE  i = j
      BY Zenon
    <3>1. (IF i < at THEN i ELSE i + 1) = (IF j < at THEN j ELSE j + 1)
      BY Zenon, <1>1, <2>4 DEF Lists
    <3> QED BY <1>1, <2>1, <3>1
  <2>8. ASSUME NEW v \in L, v # u PROVE \E j \in 1..(Len(seq) - 1) : new[j] = v
    <3>1. PICK k \in 1..Len(seq) : seq[k] = v
      BY Zenon, <1>1 DEF Lists
    <3>2. k # at
      BY Zenon, <2>1, <2>8, <3>1
    <3>3. CASE k < at
      <4>1. k \in 1..(Len(seq) - 1) /\ new[k] = seq[k]
        BY <1>1, <2>1, <3>3
      <4> QED BY Zenon, <3>1, <4>1
    <3>4. CASE k > at
      <4>1. k - 1 \in 1..(Len(seq) - 1) /\ ~(k - 1 < at) /\ (k - 1) + 1 = k
        BY <1>1, <2>1, <3>4
      <4>2. new[k - 1] = seq[k]
        BY Zenon, <4>1
      <4> QED BY Zenon, <3>1, <4>1, <4>2
    <3> QED BY <1>1, <2>1, <3>2, <3>3, <3>4
  <2>9. ASSUME NEW j \in 1..(Len(seq) - 1) PROVE new[j] \in L \ {u}
    <3> DEFINE k == IF j < at THEN j ELSE j + 1
    <3>1. k \in DOMAIN seq /\ k # at /\ new[j] = seq[k]
      BY Zenon, <1>1, <2>4
    <3> HIDE DEF k, new
    <3>2. seq[k] # u
      BY Zenon, <1>1, <2>1, <3>1 DEF Lists
    <3> QED BY Zenon, <3>1, <3>2 DEF Lists
  <2> HIDE DEF new
  <2>10. {new[j] : j \in DOMAIN new} = L \ {u}
    BY Zenon, <2>6, <2>8, <2>9
  <2>11. Len(new) = Len(seq) - 1
    BY <2>3, <2>6
  <2>12. Least(Len(new))
    BY Zenon, <1>1, <2>11, LeastMore DEF Lists
  <2>13. \A i, j \in DOMAIN new : new[i] = new[j] => i = j
    BY Zenon, <2>6, <2>7
  <2> QED BY <2>2, <2>6, <2>10, <2>12, <2>13 DEF Lists
<1> QED BY Zenon, <1>2, <1>3

\* What TypeOK says of the clients.
ClOK(k) ==
    /\ k \in [Clients -> ClType]
    /\ \A c \in Clients : k[c].pc # "idle" => k[c].u \in Uuids /\ k[c].s \in Services
    /\ \A c \in Clients : k[c].pc = "idle" => k[c].up = None

\* A process that is not connected has the type of a client.
LEMMA IdleType == IdleClient \in ClType
  BY DEF IdleClient, ClType, NoCi, None, Status

\* Reading a message keeps the type of the clients.
LEMMA ReadType ==
    ASSUME ClOK(cl), NEW c \in Clients
    PROVE  ClOK(Read(c))
  BY ZenonT(60) DEF ClOK, Read, ClType, None

\* send_message() keeps the type of the clients.
LEMMA SendType ==
    ASSUME NEW k, ClOK(k), NEW ci, NEW st \in Status
    PROVE  ClOK(send_message(k, ci, st))
<1> DEFINE n == send_message(k, ci, st)
<1>1. \A c \in Clients : Append(k[c].down, st) \in Seq(Status)
  BY DEF ClOK, ClType
<1>2. n = [c \in Clients |-> IF c \in Reached(k, ci) THEN [k[c] EXCEPT !.down = Append(k[c].down, st)]
                             ELSE k[c]]
  BY Zenon DEF send_message, ClOK, ClType
<1>3. ASSUME NEW c \in Clients
      PROVE  n[c] \in ClType /\ n[c].pc = k[c].pc /\ n[c].u = k[c].u /\ n[c].s = k[c].s
             /\ n[c].up = k[c].up
  <2> DEFINE d == Append(k[c].down, st)
  <2>1. d \in Seq(Status) /\ k[c] \in ClType
    BY Zenon, <1>1 DEF ClOK
  <2>2. n[c] = [k[c] EXCEPT !.down = d] \/ n[c] = k[c]
    BY Zenon, <1>2
  <2> HIDE DEF d, n
  <2> QED BY Zenon, <2>1, <2>2 DEF ClType
<1>4. n \in [Clients -> ClType]
  BY Zenon, <1>2, <1>3
<1> HIDE DEF n
<1> QED BY Zenon, <1>3, <1>4 DEF ClOK, n

\* connection_dead() keeps the type of the clients.
LEMMA DeadType ==
    ASSUME NEW k, ClOK(k), NEW ci
    PROVE  ClOK(connection_dead(k, ci))
<1> DEFINE n == connection_dead(k, ci)
<1>1. ASSUME NEW c \in Clients
      PROVE  \/ n[c] = IdleClient
             \/ n[c] = k[c]
             \/ n[c] = [k[c] EXCEPT !.ci = NoCi, !.up = None]
  BY Zenon DEF connection_dead
<1>2. n = [c \in Clients |-> n[c]]
  BY Zenon DEF connection_dead
<1>3. IdleClient.pc = "idle" /\ IdleClient.up = None
  BY Zenon DEF IdleClient
<1> HIDE DEF n
<1>4. ASSUME NEW c \in Clients
      PROVE  /\ n[c] \in ClType
             /\ n[c].pc # "idle" => n[c].u \in Uuids /\ n[c].s \in Services
             /\ n[c].pc = "idle" => n[c].up = None
  <2>1. CASE n[c] = IdleClient
    BY Zenon, <1>3, <2>1, IdleType
  <2>2. CASE n[c] = k[c]
    BY Zenon, <2>2 DEF ClOK
  <2>3. CASE n[c] = [k[c] EXCEPT !.ci = NoCi, !.up = None]
    BY ZenonT(30), <2>3 DEF ClOK, ClType, NoCi, None
  <2> QED BY Zenon, <1>1, <2>1, <2>2, <2>3
<1>5. n \in [Clients -> ClType]
  BY Zenon, <1>2, <1>4
<1> QED BY Zenon, <1>4, <1>5 DEF ClOK, n

-----------------------------------------------------------------------------
(* The inductive invariant.                                                *)

NoOverlap == "overlap" \notin Faults

Inv == /\ TypeOK
       /\ MountsListed
       /\ Least(Len(mounts))
       /\ \A u \in Uuids : BusyOK(fs[u])
       /\ NoOverlap => GroupLive

\* The part of Inv about the daemon's own data.
FsOK(m, f) ==
    /\ f \in [Uuids -> FsType]
    /\ Lists(m, {u \in Uuids : f[u].mg})
    /\ \A u \in Uuids : BusyOK(f[u])
    /\ NoOverlap => \A u \in Uuids : GroupOK(f[u])

\* Inv, taken apart by the data it speaks of.
LEMMA InvParts ==
    Inv <=> /\ FsOK(mounts, fs) /\ ClOK(cl)
            /\ kern \in [Uuids -> [count : 0..MaxMounts, umounting : BOOLEAN]]
            /\ held \in SUBSET Uuids
            /\ daemon \in {"up", "exited", "wild"}
  BY Zenon DEF Inv, TypeOK, MountsListed, GroupLive, FsOK, ClOK, Lists, GroupOK

\* The same of the next state.
LEMMA InvPartsNext ==
    Inv' <=> /\ FsOK(mounts', fs') /\ ClOK(cl')
             /\ kern' \in [Uuids -> [count : 0..MaxMounts, umounting : BOOLEAN]]
             /\ held' \in SUBSET Uuids
             /\ daemon' \in {"up", "exited", "wild"}
  BY Zenon DEF Inv, TypeOK, MountsListed, GroupLive, FsOK, ClOK, Lists, GroupOK

\* A handler that neither creates nor frees a mountgroup keeps FsOK.
LEMMA FrameStep ==
    ASSUME FsOK(mounts, fs), NEW u \in Uuids, NEW g \in FsType, Frame(fs[u], g), BusyOK(g)
    PROVE  FsOK(mounts, [fs EXCEPT ![u] = g])
<1> DEFINE n == [fs EXCEPT ![u] = g]
<1>1. n \in [Uuids -> FsType] /\ n[u] = g /\ \A v \in Uuids : v # u => n[v] = fs[v]
  BY Zenon DEF FsOK
<1> HIDE DEF n
<1>2. \A v \in Uuids : n[v].mg = fs[v].mg /\ BusyOK(n[v]) /\ (GroupOK(fs[v]) => GroupOK(n[v]))
  BY Zenon, <1>1 DEF FsOK, Frame, GroupOK
<1>3. {v \in Uuids : n[v].mg} = {v \in Uuids : fs[v].mg}
  BY Zenon, <1>2
<1> QED BY Zenon, <1>1, <1>2, <1>3 DEF FsOK, n

\* Freeing a mountgroup and taking it off the list keeps FsOK, when its cgroup is
\* gone or does not matter.
LEMMA FreeStep ==
    ASSUME FsOK(mounts, fs), NEW u \in Uuids, NEW g \in FsType, ~g.mg,
           NoOverlap => GroupOK(g)
    PROVE  FsOK(list_del(mounts, u), [fs EXCEPT ![u] = g])
<1> DEFINE n == [fs EXCEPT ![u] = g]
           L == {v \in Uuids : fs[v].mg}
<1>1. n \in [Uuids -> FsType] /\ n[u] = g /\ \A v \in Uuids : v # u => n[v] = fs[v]
  BY Zenon DEF FsOK
<1>2. Lists(list_del(mounts, u), L \ {u})
  <2> HIDE DEF L
  <2> QED BY Zenon, ListDel DEF FsOK, L
<1> HIDE DEF n
<1>3. {v \in Uuids : n[v].mg} = L \ {u}
  BY Zenon, <1>1
<1> QED BY Zenon, <1>1, <1>2, <1>3 DEF FsOK, BusyOK, n

\* create_mg() and list_add() keep FsOK.
LEMMA NewStep ==
    ASSUME FsOK(mounts, fs), NEW u \in Uuids, ~fs[u].mg, NEW g \in FsType, g.mg, BusyOK(g),
           NoOverlap => GroupOK(g)
    PROVE  FsOK(<<u>> \o mounts, [fs EXCEPT ![u] = g])
<1> DEFINE n == [fs EXCEPT ![u] = g]
           L == {v \in Uuids : fs[v].mg}
           m == <<u>> \o mounts
<1>1. n \in [Uuids -> FsType] /\ n[u] = g /\ \A v \in Uuids : v # u => n[v] = fs[v]
  BY Zenon DEF FsOK
<1>2. mounts \in Seq(Uuids) /\ <<u>> \in Seq(Uuids) /\ Len(mounts) \in Nat
      /\ DOMAIN mounts = 1..Len(mounts)
  BY DEF FsOK, Lists
<1>3. m \in Seq(Uuids) /\ Len(m) = Len(mounts) + 1 /\ m[1] = u
      /\ \A i \in 2..Len(m) : m[i] = mounts[i - 1]
  BY <1>2
<1>4. DOMAIN m = 1..Len(m)
  BY <1>3
<1> HIDE DEF n, m
<1>5. \A i \in 1..Len(mounts) : mounts[i] # u /\ mounts[i] \in L
  BY Zenon, <1>2 DEF FsOK, Lists
<1>6. \A i, j \in 1..Len(m) : m[i] = m[j] => i = j
  <2> SUFFICES ASSUME NEW i \in 1..Len(m), NEW j \in 1..Len(m), m[i] = m[j]
               PROVE  i = j
    BY Zenon
  <2>1. i # 1 => i \in 2..Len(m) /\ i - 1 \in 1..Len(mounts)
    BY <1>2, <1>3
  <2>2. j # 1 => j \in 2..Len(m) /\ j - 1 \in 1..Len(mounts)
    BY <1>2, <1>3
  <2>3. CASE i = 1 /\ j # 1
    BY Zenon, <1>3, <1>5, <2>2, <2>3
  <2>4. CASE i # 1 /\ j = 1
    BY Zenon, <1>3, <1>5, <2>1, <2>4
  <2>5. CASE i # 1 /\ j # 1
    <3>1. mounts[i - 1] = mounts[j - 1]
      BY Zenon, <1>3, <2>1, <2>2, <2>5
    <3>2. i - 1 = j - 1
      BY Zenon, <1>2, <2>1, <2>2, <2>5, <3>1 DEF FsOK, Lists
    <3> QED BY <3>2
  <2> QED BY Zenon, <2>3, <2>4, <2>5
<1>7. {m[i] : i \in DOMAIN m} = L \cup {u}
  <2>1. ASSUME NEW i \in 1..Len(m) PROVE m[i] \in L \cup {u}
    <3>1. i = 1 \/ (i \in 2..Len(m) /\ i - 1 \in 1..Len(mounts))
      BY <1>2, <1>3
    <3> QED BY Zenon, <1>3, <1>5, <3>1
  <2>2. ASSUME NEW v \in L PROVE \E i \in 1..Len(m) : m[i] = v
    <3>1. PICK i \in 1..Len(mounts) : mounts[i] = v
      BY Zenon, <1>2 DEF FsOK, Lists
    <3>2. i + 1 \in 2..Len(m) /\ (i + 1) - 1 = i /\ i + 1 \in 1..Len(m)
      BY <1>2, <1>3
    <3> QED BY Zenon, <1>3, <3>1, <3>2
  <2>3. 1 \in 1..Len(m)
    BY <1>2, <1>3
  <2> HIDE DEF L
  <2>4. {m[i] : i \in 1..Len(m)} \subseteq L \cup {u}
    BY Zenon, <2>1
  <2>5. L \cup {u} \subseteq {m[i] : i \in 1..Len(m)}
    BY Zenon, <1>3, <2>2, <2>3
  <2>6. {m[i] : i \in 1..Len(m)} = L \cup {u}
    BY Zenon, <2>4, <2>5
  <2> QED BY Zenon, <1>4, <2>6
<1>8. {v \in Uuids : n[v].mg} = L \cup {u}
  BY Zenon, <1>1
<1>9. Least(Len(m))
  BY ZenonT(30), <1>2, <1>3, LeastMore DEF FsOK, Lists
<1>10. Lists(m, {v \in Uuids : n[v].mg})
  BY Zenon, <1>3, <1>4, <1>6, <1>7, <1>8, <1>9 DEF Lists
<1> QED BY Zenon, <1>1, <1>10 DEF FsOK, n, m

-----------------------------------------------------------------------------
(* Each handler of the daemon keeps Inv.                                   *)

\* start_mount() keeps the invariant.  A mountgroup it did not create is freed
\* only when it has no service, and then a LEAVE was in progress.
LEMMA StartMountInv ==
    ASSUME Inv, NEW c \in Clients, NEW bad \in BOOLEAN, NEW joined \in BOOLEAN, NEW i \in Slots,
           start_mount(c, bad, joined, i)
    PROVE  Inv'
<1> DEFINE u == cl[c].u
           s == cl[c].s
           found == fs[u].mg
           f0 == IF found THEN fs[u] ELSE create_mg(fs[u])
           f1 == add_service(f0, s, cl[c].ci, bad)
           fj == [f1 EXCEPT !.cg = "joining", !.cg_live = TRUE, !.cg_ci = i]
           e == fill_error(f1, "error")
           r == remove_service(e, s, FALSE)
           fn == [r EXCEPT !.in_progress = None]
           f2 == IF found \/ f1.err # "ok" THEN f1 ELSE IF joined THEN fj ELSE fn
           f3 == [f2 EXCEPT !.err = "ok", !.notified = @ \/ f2.err = "EALREADY"]
           freed == f2.err = "error" /\ f2.services = {}
<1>1. /\ cl[c].up = "MOUNT"
      /\ "overlap" \in Faults \/ ~leaving(fs[u])
      /\ IF joined THEN fs[u].cg = "none" \/ found
         ELSE ~found /\ (fs[u].cg # "none" \/ "join" \in Faults)
      /\ fs' = [fs EXCEPT ![u] = IF freed THEN free_mg(f3) ELSE f3]
      /\ mounts' = IF freed THEN list_del(mounts, u)
                   ELSE IF found THEN mounts ELSE <<u>> \o mounts
      /\ cl' = IF f2.err = "ok" THEN Read(c) ELSE send_message(Read(c), cl[c].ci, f2.err)
      /\ UNCHANGED <<kern, held, daemon>>
  BY Zenon DEF start_mount
<1>2. FsOK(mounts, fs) /\ ClOK(cl)
  BY Zenon, InvParts
<1>3. u \in Uuids /\ s \in Services /\ cl[c].ci \in Slots \cup {NoCi} /\ fs[u] \in FsType
  BY Zenon, <1>1, <1>2 DEF ClOK, ClType, FsOK, None
<1> HIDE DEF u, s
<1>4. /\ f0 \in FsType /\ f0.mg /\ f0.cg_live = fs[u].cg_live /\ f0.cg = fs[u].cg
      /\ ~found => f0.services = {} /\ f0.err = "ok" /\ f0.in_progress = None
  BY Zenon, <1>3, CreateMg
<1> HIDE DEF f0
<1>5. /\ f1 \in FsType /\ Frame(f0, f1) /\ f1.cg = f0.cg
      /\ \/ f1 = fill_error(f0, "error")
         \/ f1.services # {} /\ f1.services = f0.services \cup {s}
  <2> DEFINE ci == cl[c].ci
  <2>1. ci \in Slots \cup {NoCi}
    BY Zenon, <1>3
  <2> HIDE DEF ci
  <2>2. /\ add_service(f0, s, ci, bad) \in FsType
        /\ Frame(f0, add_service(f0, s, ci, bad)) /\ add_service(f0, s, ci, bad).cg = f0.cg
        /\ \/ add_service(f0, s, ci, bad) = fill_error(f0, "error")
           \/ /\ add_service(f0, s, ci, bad).services # {}
              /\ add_service(f0, s, ci, bad).services = f0.services \cup {s}
    BY <1>3, <1>4, <2>1, AddService
  <2> QED BY Zenon, <2>2 DEF ci
<1>6. ASSUME ~found PROVE \/ f1.err = "error" /\ f1.services = {}
                          \/ f1.err = "ok" /\ f1.services = {s} /\ f1.in_progress = s
  <2> DEFINE g == [f0 EXCEPT !.additional = @ \/ s \in f0.services, !.ci = cl[c].ci, !.in_progress = s]
  <2>1. f1 = fill_error(f0, "error") \/ f1 = [g EXCEPT !.services = f0.services \cup {s}]
    BY Zenon, <1>4, <1>6 DEF add_service, FsType
  <2>2. CASE f1 = fill_error(f0, "error")
    <3>1. f1 = [f0 EXCEPT !.err = "error"]
      BY Zenon, <1>4, <1>6, <2>2 DEF fill_error
    <3> QED BY Zenon, <1>4, <1>6, <3>1 DEF FsType
  <2>3. CASE f1 = [g EXCEPT !.services = f0.services \cup {s}]
    <3>1. g \in FsType /\ g.err = "ok" /\ g.in_progress = s
      BY ZenonT(60), <1>3, <1>4, <1>6 DEF FsType
    <3> HIDE DEF g, f1
    <3> QED BY Zenon, <1>4, <1>6, <2>3, <3>1 DEF FsType
  <2> QED BY Zenon, <2>1, <2>2, <2>3
<1> HIDE DEF f1
\* A MOUNT of a filesystem that has a mountgroup.
<1>7. ASSUME found PROVE f2 = f1 /\ Frame(fs[u], f2) /\ f2 \in FsType
  BY Zenon, <1>4, <1>5, <1>7 DEF Frame, f0
<1>8. ASSUME ~found, f1.err = "ok", joined
      PROVE  f2 \in FsType /\ f2.mg /\ f2.cg_live /\ f2.cg = "joining" /\ f2.services = {s}
             /\ f2.err = "ok"
  <2>1. f2 = fj
    BY Zenon, <1>8
  <2>2. fj \in FsType /\ fj.mg = f1.mg /\ fj.cg_live /\ fj.cg = "joining"
        /\ fj.services = f1.services /\ fj.err = f1.err
    BY Zenon, <1>5 DEF FsType
  <2> QED BY Zenon, <1>4, <1>5, <1>6, <1>8, <2>1, <2>2 DEF Frame
<1>9. ASSUME ~found, f1.err = "ok", ~joined
      PROVE  f2 \in FsType /\ f2.err = "error" /\ f2.services = {} /\ f2.cg = fs[u].cg
  <2>1. f2 = fn
    BY Zenon, <1>9
  <2>2. e = [f1 EXCEPT !.err = "error"]
    BY Zenon, <1>9 DEF fill_error
  <2>3. e \in FsType /\ e.err = "error" /\ e.services = {s} /\ e.cg = f1.cg /\ e.group = f1.group
    BY Zenon, <1>5, <1>6, <1>9, <2>2 DEF FsType, Status
  <2> HIDE DEF e
  <2>4. r \in FsType /\ r.err = "error"
    BY Zenon, <1>3, <2>3, RemoveService
  <2>5. r.services = {} /\ r.cg = e.cg
    <3> DEFINE g == [e EXCEPT !.services = e.services \ {s}, !.additional = @ /\ s # "ocfs2"]
               g1 == IF e.registered THEN dlmcontrol_unregister(g) ELSE g
               h == [g1 EXCEPT !.in_progress = s, !.registered = FALSE]
    <3>1. g \in FsType /\ g.services = {} /\ g.cg = e.cg
      BY ZenonT(60), <2>3 DEF FsType
    <3>2. r = IF e.group THEN group_leave(h, FALSE) ELSE [h EXCEPT !.leave_on_join = TRUE]
      BY Zenon, <2>3, <3>1 DEF remove_service
    <3> HIDE DEF g
    <3>3. g1 \in FsType /\ g1.services = {} /\ g1.cg = e.cg
      BY Zenon, <3>1, Unregister
    <3> HIDE DEF g1
    <3>4. h \in FsType /\ h.services = {} /\ h.cg = e.cg
      BY ZenonT(30), <1>3, <3>3 DEF FsType
    <3> HIDE DEF h, r
    <3>5. group_leave(h, FALSE) = h
      BY Zenon DEF group_leave
    <3>6. [h EXCEPT !.leave_on_join = TRUE].services = {} /\ [h EXCEPT !.leave_on_join = TRUE].cg = e.cg
      BY Zenon, <3>4 DEF FsType
    <3> QED BY Zenon, <3>2, <3>4, <3>5, <3>6
  <2> HIDE DEF r
  <2>6. fn \in FsType /\ fn.err = r.err /\ fn.services = r.services /\ fn.cg = r.cg
    BY Zenon, <2>4 DEF FsType
  <2> QED BY ZenonT(60), <1>4, <1>5, <2>1, <2>3, <2>4, <2>5, <2>6
<1>10. ASSUME ~found, f1.err # "ok"
       PROVE  f2 \in FsType /\ f2.err = "error" /\ f2.services = {} /\ f2.cg = fs[u].cg
  BY Zenon, <1>4, <1>5, <1>6, <1>10
<1>11. f2 \in FsType
  BY Zenon, <1>7, <1>8, <1>9, <1>10
<1> HIDE DEF f2
<1>12. /\ f3 \in FsType /\ f3.services = f2.services /\ f3.in_progress = f2.in_progress
       /\ Frame(f2, f3) /\ f3.cg = f2.cg
  BY ZenonT(30), <1>11 DEF FsType, Frame, Status
<1> HIDE DEF f3
<1>13. FsOK(mounts', fs')
  <2>1. CASE freed
    <3>1. NoOverlap => fs[u].cg = "none"
      <4>1. ASSUME found, NoOverlap PROVE FALSE
        <5>1. f1.services = {} /\ f1 = fill_error(fs[u], "error")
          BY Zenon, <1>5, <1>7, <2>1, <4>1 DEF f0
        <5>2. f1.services = fs[u].services
          BY Zenon, <1>3, <5>1 DEF fill_error, FsType
        <5>3. leaving(fs[u])
          BY Zenon, <1>2, <1>3, <4>1, <5>1, <5>2 DEF FsOK, BusyOK, leaving
        <5> QED BY Zenon, <1>1, <4>1, <5>3 DEF NoOverlap
      <4>2. ASSUME ~found, NoOverlap PROVE fs[u].cg = "none"
        BY Zenon, <1>2, <1>3, <4>2 DEF FsOK, GroupOK
      <4> QED BY Zenon, <4>1, <4>2
    <3>2. f2.cg = fs[u].cg \/ ~NoOverlap
      <4>1. CASE found
        BY Zenon, <1>4, <1>5, <1>7, <4>1 DEF f0
      <4>2. CASE ~found
        BY Zenon, <1>8, <1>9, <1>10, <2>1, <4>2
      <4> QED BY Zenon, <4>1, <4>2
    <3>3. free_mg(f3) \in FsType /\ ~free_mg(f3).mg /\ (NoOverlap => GroupOK(free_mg(f3)))
      BY Zenon, <1>12, <3>1, <3>2, FreeMg DEF GroupOK
    <3> QED BY Zenon, <1>1, <1>2, <1>3, <2>1, <3>3, FreeStep
  <2>2. CASE ~freed /\ found
    <3>1. Frame(fs[u], f3)
      BY Zenon, <1>7, <1>12, <2>2 DEF Frame
    <3>2. BusyOK(f3)
      <4>1. CASE f1 = fill_error(f0, "error")
        <5>1. f0 = fs[u]
          BY Zenon, <2>2 DEF f0
        <5>2. f1.mg = f0.mg /\ f1.services = f0.services /\ f1.in_progress = f0.in_progress
          BY Zenon, <1>3, <4>1, <5>1 DEF fill_error, FsType
        <5> QED BY Zenon, <1>2, <1>3, <1>7, <1>12, <2>2, <5>1, <5>2 DEF BusyOK, FsOK, Frame
      <4>2. CASE f1.services # {}
        BY Zenon, <1>7, <1>12, <2>2, <4>2 DEF BusyOK
      <4> QED BY Zenon, <1>5, <4>1, <4>2
    <3> QED BY Zenon, <1>1, <1>2, <1>3, <1>12, <2>2, <3>1, <3>2, FrameStep
  <2>3. CASE ~freed /\ ~found
    <3>1. f1.err = "ok" /\ joined
      BY Zenon, <1>9, <1>10, <2>3
    <3>2. f3.mg /\ GroupOK(f3) /\ BusyOK(f3)
      BY Zenon, <1>8, <1>12, <2>3, <3>1 DEF Frame, GroupOK, BusyOK
    <3> QED BY Zenon, <1>1, <1>2, <1>3, <1>12, <2>3, <3>2, NewStep
  <2> QED BY Zenon, <2>1, <2>2, <2>3
<1>14. ClOK(cl')
  <2>1. f2.err \in Status
    BY Zenon, <1>11 DEF FsType
  <2>2. ClOK(Read(c)) /\ ClOK(send_message(Read(c), cl[c].ci, f2.err))
    BY Zenon, <1>2, <2>1, ReadType, SendType
  <2> QED BY Zenon, <1>1, <2>2
<1> QED BY Zenon, <1>1, <1>13, <1>14, InvParts, InvPartsNext

\* complete_mount() keeps the invariant.
LEMMA CompleteMountInv ==
    ASSUME Inv, NEW c \in Clients, NEW left \in BOOLEAN, complete_mount(c, left)
    PROVE  Inv'
<1> DEFINE ci == cl[c].ci
           u == find_mg_by_client(ci)
           s == cl[c].s
           f == fs[u]
           refused == \/ cl[c].u # u \/ f.in_progress = None
                      \/ s \notin f.services \/ s # f.in_progress
           err == cl[c].up = "MRESULT1" /\ ~(s = "ocfs2" /\ f.additional)
           f1 == [f EXCEPT !.in_progress = None, !.additional = @ /\ s # "ocfs2"]
           f2 == IF refused THEN fill_error(f, "error")
                 ELSE IF err THEN remove_service(f1, s, left) ELSE [f1 EXCEPT !.ci = NoCi]
<1>1. /\ cl[c].up \in {"MRESULT0", "MRESULT1"}
      /\ IF u = None
         THEN fs' = fs /\ cl' = send_message(Read(c), ci, "error")
         ELSE /\ fs' = [fs EXCEPT ![u] = f2]
              /\ cl' = IF refused \/ f2.in_progress = None
                       THEN send_message(Read(c), ci, f2.err) ELSE Read(c)
      /\ UNCHANGED <<mounts, kern, held, daemon>>
  BY Zenon DEF complete_mount
<1>2. FsOK(mounts, fs) /\ ClOK(cl)
  BY Zenon, InvParts
<1>3. s \in Services /\ ClOK(Read(c))
  BY Zenon, <1>1, <1>2, ReadType DEF ClOK, ClType, None
<1>4. CASE u = None
  <2>1. ClOK(cl')
    BY Zenon, <1>1, <1>3, <1>4, SendType DEF Status
  <2> QED BY Zenon, <1>1, <1>2, <1>4, <2>1, InvParts, InvPartsNext
<1>5. CASE u # None
  <2>1. u \in Uuids /\ f \in FsType /\ BusyOK(f)
    BY Zenon, <1>2, <1>5, FindMg DEF FsOK, Lists
  <2> HIDE DEF u, f, s
  <2>2. f2 \in FsType /\ Frame(f, f2) /\ BusyOK(f2)
    <3>1. CASE refused
      <4>1. f2 = fill_error(f, "error")
        BY Zenon, <3>1
      <4>2. CASE f.err = "ok"
        BY <2>1, <4>1, <4>2 DEF fill_error, FsType, Status, Frame, BusyOK
      <4>3. CASE f.err # "ok"
        BY Zenon, <2>1, <4>1, <4>3 DEF fill_error, Frame
      <4> QED BY Zenon, <4>2, <4>3
    <3>2. CASE ~refused
      <4>1. f1 \in FsType /\ Frame(f, f1) /\ f1.services = f.services /\ s \in f.services
        BY ZenonT(30), <2>1, <3>2 DEF FsType, Frame, None
      <4>2. f2 = remove_service(f1, s, left) \/ f2 = [f1 EXCEPT !.ci = NoCi]
        BY Zenon, <3>2
      <4> HIDE DEF f1, f2
      <4>3. CASE f2 = remove_service(f1, s, left)
        BY Zenon, <1>3, <4>1, <4>3, RemoveService DEF Frame
      <4>4. CASE f2 = [f1 EXCEPT !.ci = NoCi]
        BY Zenon, <4>1, <4>4 DEF FsType, NoCi, Frame, BusyOK
      <4> QED BY Zenon, <4>2, <4>3, <4>4
    <3> QED BY Zenon, <3>1, <3>2
  <2> HIDE DEF f2
  <2>3. FsOK(mounts', fs')
    BY Zenon, <1>1, <1>2, <1>5, <2>1, <2>2, FrameStep DEF f
  <2>4. f2.err \in Status
    BY Zenon, <2>2 DEF FsType
  <2>5. ClOK(cl')
    BY <1>1, <1>3, <1>5, <2>4, SendType
  <2> QED BY Zenon, <1>1, <2>3, <2>5, InvParts, InvPartsNext
<1> QED BY Zenon, <1>4, <1>5

\* remove_mount() keeps the invariant.
LEMMA RemoveMountInv ==
    ASSUME Inv, NEW c \in Clients, NEW left \in BOOLEAN, remove_mount(c, left)
    PROVE  Inv'
<1> DEFINE ci == cl[c].ci
           u == cl[c].u
           s == cl[c].s
           f == fs[u]
           f1 == remove_service(f, s, left)
           g == [f1 EXCEPT !.ci = ci]
           a == [f EXCEPT !.additional = @ /\ s # "ocfs2"]
<1>1. FsOK(mounts, fs) /\ ClOK(cl)
  BY Zenon, InvParts
<1>2. u \in Uuids /\ s \in Services /\ ci \in Slots \cup {NoCi}
  BY Zenon, <1>1 DEF remove_mount, ClOK, ClType, None
<1>3. f \in FsType /\ BusyOK(f) /\ fs \in [Uuids -> FsType]
  BY Zenon, <1>1, <1>2 DEF FsOK
<1>4. /\ \/ fs' = fs
         \/ fs' = [fs EXCEPT ![u] = a]
         \/ s \in f.services /\ fs' = [fs EXCEPT ![u] = g]
         \/ s \in f.services /\ fs' = [fs EXCEPT ![u] = f1]
      /\ \/ cl' = Read(c) \/ cl' = send_message(Read(c), ci, "error")
         \/ cl' = send_message(Read(c), ci, f1.err)
      /\ UNCHANGED <<mounts, kern, held, daemon>>
  <2>1. [fs EXCEPT ![u].additional = @ /\ s # "ocfs2"] = [fs EXCEPT ![u] = a]
    BY Zenon, <1>2, <1>3 DEF FsType
  <2> HIDE DEF a
  <2> QED BY Zenon, <2>1 DEF remove_mount
<1>5. a \in FsType /\ Frame(f, a) /\ BusyOK(a)
  BY ZenonT(60), <1>3 DEF FsType, Frame, BusyOK
<1>6. f1 \in FsType /\ Frame(f, f1) /\ (s \in f.services => BusyOK(f1)) /\ f1.err \in Status
  <2> HIDE DEF f, s
  <2> QED BY ZenonT(30), <1>2, <1>3, RemoveService DEF FsType
<1> HIDE DEF f1, a
<1>7. g \in FsType /\ Frame(f, g) /\ (s \in f.services => BusyOK(g))
  <2> HIDE DEF f, ci
  <2> QED BY Zenon, <1>2, <1>6 DEF FsType, Frame, BusyOK
<1> HIDE DEF g
<1>8. FsOK(mounts, fs')
  BY Zenon, <1>1, <1>2, <1>4, <1>5, <1>6, <1>7, FrameStep
<1>9. ClOK(cl')
  BY <1>1, <1>4, <1>6, ReadType, SendType DEF Status
<1> QED BY Zenon, <1>4, <1>8, <1>9, InvParts, InvPartsNext

\* dead_client() keeps the invariant.
LEMMA DeadClientInv ==
    ASSUME Inv, NEW c \in Clients, NEW left \in BOOLEAN, dead_client(c, left)
    PROVE  Inv'
<1> DEFINE u == find_mg_by_client(cl[c].ci)
           f == fs[u]
           f1 == [f EXCEPT !.ci = NoCi]
           fa == [f1 EXCEPT !.additional = FALSE, !.in_progress = None]
           fn == [f1 EXCEPT !.in_progress = None]
           fr == remove_service(f1, f.in_progress, left)
           g == IF f.in_progress = None THEN f
                ELSE IF f.in_progress \notin f.services THEN f1
                ELSE IF f.in_progress = "ocfs2" /\ f.additional THEN fa
                ELSE IF ~f.notified THEN fr ELSE fn
<1>1. FsOK(mounts, fs) /\ ClOK(cl)
  BY Zenon, InvParts
<1>2. ClOK(cl') /\ UNCHANGED <<mounts, kern, held, daemon>>
  BY Zenon, <1>1, DeadType DEF dead_client
<1>3. CASE u = None
  <2>1. fs' = fs
    BY Zenon, <1>3 DEF dead_client
  <2> QED BY Zenon, <1>1, <1>2, <2>1, InvParts, InvPartsNext
<1>4. CASE u # None
  <2>1. u \in Uuids /\ f \in FsType /\ BusyOK(f)
    BY Zenon, <1>1, <1>4, FindMg DEF FsOK, Lists
  <2>2. fs' = [fs EXCEPT ![u] = g]
    BY Zenon, <1>4 DEF dead_client
  <2> HIDE DEF u, f
  <2>3. f1 \in FsType /\ Frame(f, f1) /\ f1.services = f.services /\ f1.in_progress = f.in_progress
    BY Zenon, <2>1 DEF FsType, Frame, NoCi
  <2> HIDE DEF f1
  <2>4. fa \in FsType /\ Frame(f, fa) /\ fa.services = f.services
    BY ZenonT(30), <2>3 DEF FsType, Frame, None
  <2>5. fn \in FsType /\ Frame(f, fn) /\ fn.services = f.services
    BY Zenon, <2>3 DEF FsType, Frame, None
  <2>6. f.in_progress # None /\ f.in_progress \in f.services =>
          fr \in FsType /\ Frame(f, fr) /\ BusyOK(fr)
    <3> DEFINE p == f.in_progress
    <3>1. p # None => p \in Services
      BY Zenon, <2>1 DEF FsType
    <3> HIDE DEF p
    <3> SUFFICES ASSUME p # None /\ p \in f.services
                 PROVE  remove_service(f1, p, left) \in FsType
                        /\ Frame(f, remove_service(f1, p, left))
                        /\ BusyOK(remove_service(f1, p, left))
      BY Zenon DEF p
    <3> QED BY Zenon, <2>3, <3>1, RemoveService DEF Frame
  <2> HIDE DEF fa, fn, fr
  <2>7. g \in FsType /\ Frame(f, g) /\ BusyOK(g)
    BY Zenon, <2>1, <2>2, <2>3, <2>4, <2>5, <2>6 DEF BusyOK, Frame
  <2>8. FsOK(mounts, fs')
    BY Zenon, <1>1, <2>1, <2>2, <2>7, FrameStep DEF f
  <2> QED BY Zenon, <1>2, <2>8, InvParts, InvPartsNext
<1> QED BY Zenon, <1>3, <1>4

\* A step that changes none of the daemon's data keeps the invariant when it
\* keeps the types of the rest.
LEMMA OutsideInv ==
    ASSUME Inv, UNCHANGED <<mounts, fs>>, ClOK(cl'),
           kern' \in [Uuids -> [count : 0..MaxMounts, umounting : BOOLEAN]],
           held' \in SUBSET Uuids, daemon' \in {"up", "exited", "wild"}
    PROVE  Inv'
  BY Zenon, InvParts, InvPartsNext

\* Using a freed mountgroup is recorded and changes nothing else.
LEMMA WildInv == ASSUME Inv, Wild PROVE Inv'
  BY Zenon, InvParts, OutsideInv DEF Wild

\* The end of the daemon keeps the invariant.
LEMMA ExitInv == ASSUME Inv, Exit PROVE Inv'
<1>1. ClOK(cl) /\ kern \in [Uuids -> [count : 0..MaxMounts, umounting : BOOLEAN]]
      /\ held \in SUBSET Uuids
  BY Zenon, InvParts
<1>2. cl' = [c \in Clients |-> cl'[c]]
      /\ \A c \in Clients : cl'[c] = IdleClient \/ cl'[c] = [cl[c] EXCEPT !.ci = NoCi, !.up = None]
  BY Zenon DEF Exit
<1>3. IdleClient.pc = "idle" /\ IdleClient.up = None
  BY Zenon DEF IdleClient
<1>4. ASSUME NEW c \in Clients
      PROVE  /\ cl'[c] \in ClType
             /\ cl'[c].pc # "idle" => cl'[c].u \in Uuids /\ cl'[c].s \in Services
             /\ cl'[c].pc = "idle" => cl'[c].up = None
  <2>1. CASE cl'[c] = IdleClient
    BY Zenon, <1>3, <2>1, IdleType
  <2>2. CASE cl'[c] = [cl[c] EXCEPT !.ci = NoCi, !.up = None]
    BY ZenonT(60), <1>1, <2>2 DEF ClOK, ClType, NoCi, None
  <2> QED BY Zenon, <1>2, <2>1, <2>2
<1>5. cl' \in [Clients -> ClType]
  BY Zenon, <1>2, <1>4
<1>6. ClOK(cl')
  BY Zenon, <1>4, <1>5 DEF ClOK
<1> QED BY Zenon, <1>1, <1>6, OutsideInv DEF Exit

\* The confchg of a join keeps the invariant.
LEMMA NodeJoinInv ==
    ASSUME Inv, NEW u \in Uuids, NEW sent \in BOOLEAN, NEW st \in {"ok", "error"},
           NEW left \in BOOLEAN, handle_node_join(u, sent, st, left)
    PROVE  Inv'
<1> DEFINE f == [fs[u] EXCEPT !.cg = "joined"]
           g == finish_join(f, sent, st, left)
<1>1. FsOK(mounts, fs) /\ fs[u] \in FsType /\ BusyOK(fs[u]) /\ fs[u].cg = "joining"
  BY Zenon, InvParts DEF FsOK, handle_node_join
<1>2. f \in FsType /\ f.cg # "none" /\ BusyOK(f) /\ Frame(fs[u], f)
  BY Zenon, <1>1 DEF FsType, BusyOK, Frame
<1> HIDE DEF f
<1>3. g \in FsType /\ Frame(f, g) /\ BusyOK(g)
  BY Zenon, <1>2, FinishJoin
<1>4. CASE ~fs[u].cg_live
  BY Zenon, <1>4, WildInv DEF handle_node_join
<1>5. CASE fs[u].cg_live
  <2>1. fs' = [fs EXCEPT ![u] = g] /\ UNCHANGED <<mounts, cl, kern, held, daemon>>
    BY Zenon, <1>5 DEF handle_node_join, f
  <2>2. Frame(fs[u], g)
    BY Zenon, <1>2, <1>3 DEF Frame
  <2> HIDE DEF g
  <2>3. FsOK(mounts, fs')
    BY Zenon, <1>1, <1>3, <2>1, <2>2, FrameStep
  <2> QED BY Zenon, <2>1, <2>3, InvParts, InvPartsNext
<1> QED BY Zenon, <1>4, <1>5

\* A result of dlm_controld keeps the invariant.
LEMMA RegisterResultInv ==
    ASSUME Inv, NEW u \in Uuids, NEW left \in BOOLEAN, register_result(u, left)
    PROVE  Inv'
<1> DEFINE t == Tail(fs[u].results)
           f == [fs[u] EXCEPT !.results = t]
           st == Head(fs[u].results)
           ignored == f.dfs = <<>> \/ ~f.group \/ f.in_progress = None
           e == fill_error(f, "error")
           fr == remove_service(e, f.in_progress, left)
           o == [f EXCEPT !.registered = TRUE]
           fn == notify_mount_client(o, cl)
           g == IF ignored THEN f ELSE IF st = "error" THEN fr ELSE fn
<1>1. FsOK(mounts, fs) /\ ClOK(cl) /\ fs[u] \in FsType /\ BusyOK(fs[u])
  BY Zenon, InvParts DEF FsOK
<1>2. t \in Seq({"ok", "error"})
  <2>1. fs[u].results \in Seq({"ok", "error"}) /\ fs[u].results # <<>>
    BY Zenon, <1>1 DEF FsType, register_result
  <2> QED BY <2>1
<1>3. CASE f.dfs # <<>> /\ ~Head(f.dfs)
  BY Zenon, <1>3, WildInv DEF register_result
<1>4. CASE ~(f.dfs # <<>> /\ ~Head(f.dfs))
  <2>1. /\ fs' = [fs EXCEPT ![u] = g]
        /\ cl' = IF ignored \/ st = "error" THEN cl ELSE send_message(cl, f.ci, f.err)
        /\ UNCHANGED <<mounts, kern, held, daemon>>
    BY Zenon, <1>4 DEF register_result
  <2> HIDE DEF t
  <2>2. f \in FsType /\ BusyOK(f) /\ Frame(fs[u], f)
    BY Zenon, <1>1, <1>2 DEF FsType, BusyOK, Frame
  <2> HIDE DEF f, st
  <2>3. e \in FsType /\ BusyOK(e) /\ Frame(f, e) /\ e.services = f.services
        /\ e.in_progress = f.in_progress
    <3>1. CASE f.err = "ok"
      BY Zenon, <2>2, <3>1 DEF FsType, BusyOK, Frame, fill_error, Status
    <3>2. CASE f.err # "ok"
      BY Zenon, <2>2, <3>2 DEF Frame, fill_error
    <3> QED BY Zenon, <3>1, <3>2
  <2> HIDE DEF e
  <2>4. f.in_progress # None => fr \in FsType /\ Frame(f, fr) /\ BusyOK(fr)
    <3> DEFINE p == f.in_progress
    <3>1. p # None => p \in Services
      BY Zenon, <2>2 DEF FsType
    <3> HIDE DEF p
    <3>2. p # None => /\ remove_service(e, p, left) \in FsType
                      /\ Frame(f, remove_service(e, p, left))
                      /\ BusyOK(remove_service(e, p, left))
      BY Zenon, <2>3, <3>1, RemoveService DEF Frame
    <3> QED BY Zenon, <3>2 DEF p
  <2>5. o \in FsType /\ Frame(f, o) /\ BusyOK(o)
    BY Zenon, <2>2 DEF FsType, Frame, BusyOK
  <2> HIDE DEF o, fr
  <2>6. fn \in FsType /\ Frame(o, fn) /\ BusyOK(fn)
    BY ZenonT(30), <2>5 DEF notify_mount_client, FsType, Frame, BusyOK, Status
  <2> HIDE DEF fn
  <2>7. g \in FsType /\ Frame(fs[u], g) /\ BusyOK(g)
    BY Zenon, <2>2, <2>4, <2>5, <2>6 DEF Frame
  <2> HIDE DEF g
  <2>8. FsOK(mounts, fs')
    BY Zenon, <1>1, <2>1, <2>7, FrameStep
  <2>9. f.err \in Status
    BY Zenon, <2>2 DEF FsType
  <2>10. ClOK(cl')
    BY Zenon, <1>1, <2>1, <2>9, SendType
  <2> QED BY Zenon, <2>1, <2>8, <2>10, InvParts, InvPartsNext
<1> QED BY Zenon, <1>3, <1>4

\* finalize_group() keeps the invariant: the mountgroup and the cgroup go together.
LEMMA FinalizeInv ==
    ASSUME Inv, NEW u \in Uuids, finalize_group(u)
    PROVE  Inv'
<1> DEFINE f == fs[u]
           done == f.services = {} /\ f.in_progress # None
           m == free_mg(f)
           g == CgGone(m)
<1>1. FsOK(mounts, fs) /\ ClOK(cl) /\ f \in FsType /\ f.err \in Status
  BY Zenon, InvParts DEF FsOK, FsType
<1>2. CASE ~f.cg_live
  BY Zenon, <1>2, WildInv DEF finalize_group
<1>3. CASE f.cg_live /\ ~done /\ f.group
  BY Zenon, <1>3, ExitInv DEF finalize_group
<1>4. CASE f.cg_live /\ ~(~done /\ f.group)
  <2>1. /\ cl' = IF done THEN send_message(cl, f.ci, f.err) ELSE connection_dead(cl, f.ci)
        /\ fs' = [fs EXCEPT ![u] = g]
        /\ mounts' = list_del(mounts, u)
        /\ UNCHANGED <<kern, held, daemon>>
    BY Zenon, <1>4 DEF finalize_group
  <2>2. m \in FsType /\ ~m.mg
    BY Zenon, <1>1, FreeMg
  <2> HIDE DEF m
  <2>3. g \in FsType /\ ~g.mg /\ GroupOK(g)
    BY Zenon, <2>2 DEF CgGone, FsType, NoCi, GroupOK
  <2> HIDE DEF g
  <2>4. FsOK(mounts', fs')
    BY Zenon, <1>1, <2>1, <2>3, FreeStep
  <2>5. ClOK(cl')
    BY Zenon, <1>1, <2>1, SendType, DeadType
  <2> QED BY Zenon, <2>1, <2>4, <2>5, InvParts, InvPartsNext
<1> QED BY Zenon, <1>2, <1>3, <1>4

-----------------------------------------------------------------------------
(* The clients and the kernel keep Inv.                                    *)

\* One client moves to a record of the right type.
LEMMA ClientMoves ==
    ASSUME ClOK(cl), NEW c \in Clients, NEW r \in ClType,
           r.pc # "idle" => r.u \in Uuids /\ r.s \in Services,
           r.pc = "idle" => r.up = None
    PROVE  ClOK([cl EXCEPT ![c] = r])
  BY Zenon DEF ClOK

\* Closing a connection keeps the type of the clients.
LEMMA CloseType ==
    ASSUME ClOK(cl), NEW c \in Clients, cl[c].pc # "idle"
    PROVE  ClOK([cl EXCEPT ![c] = Closed(c)])
<1>1. cl[c] \in ClType /\ cl[c].u \in Uuids /\ cl[c].s \in Services
  BY Zenon DEF ClOK
<1>2. IdleClient.pc = "idle" /\ IdleClient.up = None
  BY Zenon DEF IdleClient
<1>3. CASE cl[c].ci = NoCi
  BY Zenon, <1>2, <1>3, IdleType, ClientMoves DEF Closed
<1>4. CASE cl[c].ci # NoCi
  <2> DEFINE r == [cl[c] EXCEPT !.pc = "gone", !.down = <<>>]
  <2>0. <<>> \in Seq(Status)
    OBVIOUS
  <2>1. r \in ClType /\ r.pc = "gone" /\ r.u = cl[c].u /\ r.s = cl[c].s
    BY Zenon, <1>1, <2>0 DEF ClType
  <2>2. Closed(c) = r
    BY Zenon, <1>4 DEF Closed
  <2> HIDE DEF r
  <2> QED BY Zenon, <1>1, <2>1, <2>2, ClientMoves
<1> QED BY Zenon, <1>3, <1>4

\* A new connection keeps the type of the clients.
LEMMA ConnectType ==
    ASSUME ClOK(cl), NEW c \in Clients, NEW u \in Uuids, NEW s \in Services,
           NEW pc \in {"joining", "leaving"}, NEW msg \in {"MOUNT", "UNMOUNT"},
           Connected(c, u, s, pc, msg)
    PROVE  ClOK(cl')
<1>1. PICK i \in Slots :
        cl' = [cl EXCEPT ![c] = [pc |-> pc, u |-> u, s |-> s, ci |-> i, up |-> msg,
                                 down |-> <<>>, ok |-> FALSE]]
  BY Zenon DEF Connected
<1> DEFINE r == [pc |-> pc, u |-> u, s |-> s, ci |-> i, up |-> msg, down |-> <<>>, ok |-> FALSE]
<1>2. r \in ClType /\ r.pc # "idle" /\ r.u \in Uuids /\ r.s \in Services
  BY DEF ClType
<1>3. cl' = [cl EXCEPT ![c] = r]
  BY Zenon, <1>1
<1> HIDE DEF r
<1> QED BY Zenon, <1>2, <1>3, ClientMoves

\* The kernel's record of a filesystem keeps its type when ocfs2_hb_ctl ends.
LEMMA FinishedType ==
    ASSUME ClOK(cl), NEW c \in Clients, cl[c].pc # "idle",
           kern \in [Uuids -> [count : 0..MaxMounts, umounting : BOOLEAN]]
    PROVE  Finished(c) \in [Uuids -> [count : 0..MaxMounts, umounting : BOOLEAN]]
  BY Zenon DEF Finished, ClOK

\* A step of a client, its death included, keeps the invariant.
LEMMA ClientInv ==
    ASSUME Inv, NEW c \in Clients, ClientStep(c) \/ die(c)
    PROVE  Inv'
<1> DEFINE KT == [Uuids -> [count : 0..MaxMounts, umounting : BOOLEAN]]
<1>1. ClOK(cl) /\ kern \in KT /\ held \in SUBSET Uuids /\ daemon \in {"up", "exited", "wild"}
  BY Zenon, InvParts
<1>2. cl[c] \in ClType
  BY Zenon, <1>1 DEF ClOK
<1>3. CASE join_status(c)
  <2> DEFINE t == Tail(cl[c].down)
             r == [cl[c] EXCEPT !.pc = "mounting", !.down = t]
  <2>0. cl[c].pc = "joining" /\ cl[c].down # <<>> /\ UNCHANGED <<mounts, fs, kern, held, daemon>>
    BY Zenon, <1>3 DEF join_status
  <2>1. cl' = [cl EXCEPT ![c] = Closed(c)] \/ cl' = [cl EXCEPT ![c] = r]
    <3> DEFINE n == IF Head(cl[c].down) = "error" THEN Closed(c) ELSE r
    <3>1. cl' = [cl EXCEPT ![c] = n]
      BY Zenon, <1>3 DEF join_status
    <3>2. n = Closed(c) \/ n = r
      BY Zenon
    <3> HIDE DEF n, r
    <3> QED BY Zenon, <3>1, <3>2
  <2>2. t \in Seq(Status)
    BY <1>2, <2>0 DEF ClType
  <2> HIDE DEF t
  <2>3. r \in ClType /\ r.pc = "mounting" /\ r.u = cl[c].u /\ r.s = cl[c].s
    BY Zenon, <1>2, <2>2 DEF ClType
  <2> HIDE DEF r
  <2>4. ClOK(cl')
    <3>1. cl[c].u \in Uuids /\ cl[c].s \in Services
      BY Zenon, <1>1, <2>0 DEF ClOK
    <3>2. ClOK([cl EXCEPT ![c] = Closed(c)])
      BY Zenon, <1>1, <2>0, CloseType
    <3>3. ClOK([cl EXCEPT ![c] = r])
      BY Zenon, <1>1, <2>3, <3>1, ClientMoves
    <3> QED BY Zenon, <2>1, <3>2, <3>3
  <2> QED BY Zenon, <1>1, <2>0, <2>4, OutsideInv
<1>4. CASE complete_group_join(c)
  <2>1. cl[c].pc = "result" /\ cl[c].u \in Uuids
    BY Zenon, <1>1, <1>4 DEF complete_group_join, ClOK
  <2>2. ClOK(cl') /\ held' \in SUBSET Uuids
    BY Zenon, <1>1, <1>4, <2>1, CloseType DEF complete_group_join
  <2> QED BY Zenon, <1>1, <1>4, <2>2, OutsideInv DEF complete_group_join
<1>5. CASE leave_status(c)
  <2>1. ClOK(cl') /\ kern' \in KT
    BY Zenon, <1>1, <1>5, CloseType, FinishedType DEF leave_status
  <2> QED BY Zenon, <1>1, <1>5, <2>1, OutsideInv DEF leave_status
<1>6. CASE connection_lost(c)
  <2>1. kern' \in KT
    BY Zenon, <1>1, <1>6, FinishedType DEF connection_lost
  <2>2. IdleClient.pc = "idle" /\ IdleClient.up = None
    BY Zenon DEF IdleClient
  <2>3. ClOK(cl')
    BY Zenon, <1>1, <1>6, <2>2, IdleType, ClientMoves DEF connection_lost
  <2> QED BY Zenon, <1>1, <1>6, <2>1, <2>3, OutsideInv DEF connection_lost
<1>7. CASE \E ok \in BOOLEAN : mount(c, ok)
  <2>1. PICK ok \in BOOLEAN : mount(c, ok)
    BY Zenon, <1>7
  <2> DEFINE w == IF cl[c].ci = NoCi THEN None ELSE IF ok THEN "MRESULT0" ELSE "MRESULT1"
             r == [cl[c] EXCEPT !.pc = "result", !.ok = ok, !.up = w]
  <2>2. cl[c].pc = "mounting" /\ cl[c].u \in Uuids
    BY Zenon, <1>1, <2>1 DEF mount, ClOK
  <2>3. cl' = [cl EXCEPT ![c] = r]
    BY Zenon, <1>1, <2>1 DEF mount, ClOK, ClType
  <2>4. w \in {None, "MRESULT0", "MRESULT1"}
    BY Zenon
  <2> HIDE DEF w
  <2>5. r \in ClType /\ r.pc = "result" /\ r.u = cl[c].u /\ r.s = cl[c].s
    BY Zenon, <1>2, <2>4 DEF ClType
  <2> HIDE DEF r
  <2>6. ClOK(cl')
    BY Zenon, <1>1, <2>2, <2>3, <2>5, ClientMoves DEF ClOK
  <2>7. kern' \in KT
    <3>1. CASE ok /\ cl[c].s = "ocfs2"
      <4>1. kern[cl[c].u].count < MaxMounts /\ kern' = [kern EXCEPT ![cl[c].u].count = @ + 1]
        BY Zenon, <2>1, <3>1 DEF mount
      <4>2. kern[cl[c].u].count + 1 \in 0..MaxMounts
        BY <1>1, <2>2, <4>1, ConstAssumption
      <4> QED BY Zenon, <1>1, <2>2, <4>1, <4>2
    <3>2. CASE ~(ok /\ cl[c].s = "ocfs2")
      BY Zenon, <1>1, <2>1, <3>2 DEF mount
    <3> QED BY Zenon, <3>1, <3>2
  <2>8. UNCHANGED <<mounts, fs, held, daemon>>
    BY Zenon, <2>1 DEF mount
  <2> QED BY Zenon, <1>1, <2>6, <2>7, <2>8, OutsideInv
<1>8. CASE die(c)
  <2>1. ClOK(cl') /\ kern' \in KT
    BY Zenon, <1>1, <1>8, CloseType, FinishedType DEF die
  <2> QED BY Zenon, <1>1, <1>8, <2>1, OutsideInv DEF die
<1> QED BY Zenon, <1>3, <1>4, <1>5, <1>6, <1>7, <1>8 DEF ClientStep

\* What the users do keeps the invariant.
LEMMA UserInv == ASSUME Inv, UserStep PROVE Inv'
<1> DEFINE KT == [Uuids -> [count : 0..MaxMounts, umounting : BOOLEAN]]
<1>1. ClOK(cl) /\ kern \in KT /\ held \in SUBSET Uuids /\ daemon \in {"up", "exited", "wild"}
  BY Zenon, InvParts
<1>2. ASSUME NEW c \in Clients, NEW u \in Uuids, NEW s \in Services, begin_group_join(c, u, s)
      PROVE  Inv'
  <2>1. ClOK(cl')
    BY Zenon, <1>1, <1>2, ConnectType DEF begin_group_join
  <2> QED BY Zenon, <1>1, <1>2, <2>1, OutsideInv DEF begin_group_join
<1>3. ASSUME NEW c \in Clients, NEW u \in Uuids, NEW s \in Services, tool_leave(u, s, c)
      PROVE  Inv'
  <2>1. ClOK(cl') /\ held' \in SUBSET Uuids
    BY Zenon, <1>1, <1>3, ConnectType DEF tool_leave
  <2> QED BY Zenon, <1>1, <1>3, <2>1, OutsideInv DEF tool_leave
<1>4. ASSUME NEW u \in Uuids, umount(u) PROVE Inv'
  <2>1. kern[u].count \in 0..MaxMounts /\ kern[u].count > 1
    BY Zenon, <1>1, <1>4 DEF umount
  <2>2. kern[u].count - 1 \in 0..MaxMounts
    BY <2>1, ConstAssumption
  <2>3. kern' \in KT
    BY Zenon, <1>1, <1>4, <2>2 DEF umount
  <2> QED BY Zenon, <1>1, <1>4, <2>3, OutsideInv DEF umount
<1>5. ASSUME NEW u \in Uuids, NEW c \in Clients, last_umount(u, c) PROVE Inv'
  <2>1. "ocfs2" \in Services => ClOK(cl')
    BY Zenon, <1>1, <1>5, ConnectType DEF last_umount
  <2>2. 0 \in 0..MaxMounts
    BY ConstAssumption
  <2>3. kern' \in KT
    BY Zenon, <1>1, <1>5, <2>2 DEF last_umount
  <2> QED BY Zenon, <1>1, <1>5, <2>1, <2>3, OutsideInv, ConstAssumption DEF last_umount
<1> QED BY Zenon, <1>2, <1>3, <1>4, <1>5 DEF UserStep

-----------------------------------------------------------------------------
(* The theorems.                                                           *)

\* The initial states satisfy the invariant.
LEMMA InitInv == Init => Inv
<1> SUFFICES ASSUME Init PROVE Inv
  BY Zenon
<1>0. <<>> \in Seq(BOOLEAN) /\ <<>> \in Seq({"ok", "error"}) /\ <<>> \in Seq(Uuids)
      /\ Len(<<>>) = 0
  OBVIOUS
<1>1. fs \in [Uuids -> FsType] /\ \A u \in Uuids : ~fs[u].mg /\ GroupOK(fs[u])
  BY Zenon, <1>0 DEF Init, FsType, NoCi, None, Status, GroupOK
<1>2. Lists(mounts, {u \in Uuids : fs[u].mg})
  <2>1. 1..0 = {}
    OBVIOUS
  <2>2. Least(0)
    BY Zenon, <2>1 DEF Least
  <2> QED BY <1>0, <1>1, <2>2 DEF Init, Lists
<1>3. FsOK(mounts, fs)
  BY Zenon, <1>1, <1>2 DEF FsOK, BusyOK
<1>4. ClOK(cl)
  <2>1. IdleClient.pc = "idle" /\ IdleClient.up = None
    BY Zenon DEF IdleClient
  <2> QED BY Zenon, <2>1, IdleType DEF Init, ClOK
<1>5. 0 \in 0..MaxMounts
  BY ConstAssumption
<1> QED BY Zenon, <1>3, <1>4, <1>5, InvParts DEF Init

\* Every step keeps the invariant.
LEMMA NextInv == Inv /\ [Next]_vars => Inv'
<1> SUFFICES ASSUME Inv, [Next]_vars PROVE Inv'
  BY Zenon
<1>1. Lefts \subseteq BOOLEAN
  BY Zenon DEF Lefts
<1>2. ASSUME NEW c \in Clients, ProcessClient(c) PROVE Inv'
  BY Zenon, <1>1, <1>2, StartMountInv, CompleteMountInv, RemoveMountInv, DeadClientInv DEF ProcessClient
<1>3. ASSUME NEW u \in Uuids, GroupEvent(u) PROVE Inv'
  BY Zenon, <1>1, <1>3, NodeJoinInv, RegisterResultInv, FinalizeInv DEF GroupEvent, handle_node_leave
<1>4. ASSUME NEW u \in Uuids, dead_cpg(u) PROVE Inv'
  BY Zenon, <1>4, FinalizeInv DEF dead_cpg
<1>5. ASSUME handle_signal PROVE Inv'
  BY Zenon, <1>5, ExitInv DEF handle_signal
<1>6. CASE Daemon
  BY Zenon, <1>2, <1>3, <1>4, <1>5, <1>6 DEF Daemon
<1>7. CASE UNCHANGED vars
  BY Zenon, <1>7, InvParts, InvPartsNext DEF vars
<1> QED BY Zenon, <1>6, <1>7, UserInv, ClientInv DEF Next

\* The invariant always holds.
LEMMA InvHolds == Spec => []Inv
  BY InitInv, NextInv, PTL DEF Spec

\* Type correctness of the daemon, its clients and the kernel, whatever fails.
THEOREM TypeCorrect == Spec => []TypeOK
<1>1. Inv => TypeOK
  BY Zenon DEF Inv
<1> QED BY <1>1, InvHolds, PTL

\* The list "mounts" has each live mountgroup exactly once, whatever fails:
\* have_mounts(), which decides if a signal ends the daemon, tells the truth.
THEOREM ListCorrect == Spec => []MountsListed
<1>1. Inv => MountsListed
  BY Zenon DEF Inv
<1> QED BY <1>1, InvHolds, PTL

\* As long as no MOUNT arrives while its filesystem is being left, no cgroup
\* outlives its mountgroup: the callbacks of corosync find live memory, whatever
\* clients die and whatever requests fail.
THEOREM CallbacksLive == NoOverlap => (Spec => []GroupLive)
<1> SUFFICES ASSUME NoOverlap PROVE Spec => []GroupLive
  BY Zenon
<1>1. Inv => GroupLive
  BY Zenon DEF Inv
<1> QED BY <1>1, InvHolds, PTL

-----------------------------------------------------------------------------
(* The invariant behind the promises to the clients and to the kernel,     *)
(* which MountgroupSafety_proofs proves.  It follows a mountgroup through  *)
(* the phases of its life, and ties mg_mount_ci to the client that waits.  *)
(* mg_mount_ci is not cleared when a service fails and others stay         *)
(* (complete_mount()), so it may name an entry of the client array that    *)
(* somebody else has taken since: the invariant only ties it down in the   *)
(* phases that will answer.  That is also why the death of clients is only *)
(* covered for one filesystem: with two, dead_mounter() may look up the    *)
(* wrong mountgroup.                                                       *)

\* Clients may close their connection while they wait for an answer.
Mortal == "die" \in Faults \/ "hb_ctl" \in Faults

\* The assumption on the environment.
Tame ==
    /\ NoOverlap
    /\ Mortal => "late" \notin Faults /\ \A u, v \in Uuids : u = v

-----------------------------------------------------------------------------
(* The phases of a mountgroup.                                             *)

Absent(f) ==
    ~f.mg /\ f.services = {} /\ f.in_progress = None /\ f.results = <<>>
    /\ ~f.registered /\ ~f.additional /\ f.ci = NoCi

\* group_join() was called for the first service.
Joining(f) ==
    /\ f.cg = "joining" /\ f.in_progress \in f.services /\ f.services = {f.in_progress}
    /\ ~f.group /\ ~f.registered /\ ~f.notified /\ ~f.additional
    /\ f.results = <<>> /\ f.err = "ok"

\* The same, and its client died: the group will be left once it is joined.
Abandoned(f) ==
    /\ f.cg = "joining" /\ f.in_progress # None /\ f.services = {}
    /\ ~f.group /\ ~f.registered /\ ~f.additional /\ f.leave_on_join
    /\ f.results = <<>> /\ f.ci = NoCi

\* The group is joined and dlm_controld's answer is on its way.
Registering(f) ==
    /\ f.cg = "joined" /\ f.in_progress \in f.services /\ f.services = {f.in_progress}
    /\ f.group /\ ~f.registered /\ ~f.notified /\ ~f.additional /\ f.err = "ok"
    /\ Len(f.results) = 1 /\ (Head(f.results) = "ok" => f.dlmc)
    /\ f.dfs # <<>> /\ Head(f.dfs)

\* Mounted, and nothing in progress.
Live(f) ==
    /\ f.cg = "joined" /\ f.in_progress = None /\ f.services # {}
    /\ f.group /\ f.registered /\ f.dlmc /\ f.notified /\ ~f.additional
    /\ f.results = <<>>

\* A service was granted and its client has not reported yet.
Busy(f) ==
    /\ f.cg = "joined" /\ f.in_progress \in f.services
    /\ f.group /\ f.registered /\ f.dlmc
    /\ ~f.notified => f.services = {f.in_progress} /\ ~f.additional
    /\ f.additional => f.in_progress = "ocfs2"
    /\ f.results = <<>>

\* The last service is gone: the group is left, or cpg_leave() failed.
Leaving(f) ==
    /\ f.cg \in {"joined", "leaving"} /\ f.in_progress # None /\ f.services = {}
    /\ f.group \/ f.leave_on_join
    /\ ~f.registered /\ ~f.additional /\ f.results = <<>>

Phase(f) ==
    /\ f.err # "EALREADY"
    /\ \/ Absent(f)
       \/ f.mg /\ (Joining(f) \/ Abandoned(f) \/ Registering(f) \/ Live(f) \/ Busy(f) \/ Leaving(f))

\* The phases that end with an answer to mg_mount_ci.
WillAnswer(f) == f.mg /\ (Joining(f) \/ Registering(f) \/ Leaving(f))

-----------------------------------------------------------------------------
(* The clients.                                                            *)

\* A client on its own.
ClientOK(r) ==
    /\ r.pc = "idle" => r.ci = NoCi /\ r.up = None /\ r.down = <<>>
    /\ r.pc = "mounting" => r.up = None /\ r.down = <<>>
    /\ r.pc = "gone" => r.ci # NoCi /\ r.down = <<>> /\ (r.up # None => Mortal)
    /\ r.up = "MOUNT" => r.pc \in {"joining", "gone"}
    /\ r.up \in {"MRESULT0", "MRESULT1"} => r.pc \in {"result", "gone"}
    /\ r.up = "UNMOUNT" => r.pc \in {"leaving", "gone"}
    /\ r.up # None => r.ci # NoCi
    /\ r.down # <<>> => /\ r.pc \in {"joining", "result", "leaving"}
                        /\ Len(r.down) = 1 /\ r.up = None

\* No two clients share an entry of the client array.
Distinct(k) == \A c, d \in Clients : k[c].ci = k[d].ci /\ k[c].ci # NoCi => c = d

\* The client the answer of filesystem u is for: it waits, or has died.
Owner(u, f, r) ==
    /\ r.ci = f.ci /\ r.u = u /\ r.up = None /\ r.down = <<>>
    /\ \/ r.pc = "gone" /\ Mortal
       \/ r.pc = "joining" /\ r.s = f.in_progress /\ (Leaving(f) => f.err = "error")
       \/ r.pc \in {"result", "leaving"} /\ Leaving(f)

\* A client that was told to go ahead and whose result the daemon has not read.
Granted(r) ==
    \/ r.pc = "joining" /\ r.down # <<>> /\ Head(r.down) # "error"
    \/ r.pc = "mounting"
    \/ r.up \in {"MRESULT0", "MRESULT1"}

\* What the daemon keeps for it.
Kept(f, r) == f.mg /\ Busy(f) /\ f.notified /\ f.in_progress = r.s /\ f.ci = r.ci /\ r.ci # NoCi

-----------------------------------------------------------------------------
(* The inductive invariant.                                                *)

Phases == \A u \in Uuids : Phase(fs[u])

Conns == (\A c \in Clients : ClientOK(cl[c])) /\ Distinct(cl)

Owned ==
    daemon = "up" =>
      \A u \in Uuids : WillAnswer(fs[u]) /\ fs[u].ci # NoCi =>
        \E c \in Clients : Owner(u, fs[u], cl[c])

Grants == daemon = "up" => \A c \in Clients : Granted(cl[c]) => Kept(fs[cl[c].u], cl[c])

\* A kernel mount has its service, and nobody is about to remove it.
Mounted ==
    daemon = "up" =>
      /\ \A u \in Uuids : kern[u].count > 0 => /\ fs[u].registered /\ fs[u].notified
                                               /\ "ocfs2" \in fs[u].services
      /\ \A c \in Clients :
           /\ Granted(cl[c]) /\ cl[c].up # "MRESULT0" /\ cl[c].s = "ocfs2"
           /\ kern[cl[c].u].count > 0
           => fs[cl[c].u].additional

\* The client is the ocfs2_hb_ctl that the kernel runs.
HbCtl(r) == r.pc = "leaving" /\ r.s = "ocfs2"

\* While ocfs2_hb_ctl runs the kernel has no mount and admits none, and it runs
\* once.
Unmounting ==
    /\ \A c \in Clients :
         /\ HbCtl(cl[c]) => kern[cl[c].u].umounting /\ kern[cl[c].u].count = 0
         /\ cl[c].up = "UNMOUNT" /\ cl[c].s = "ocfs2" => cl[c].pc = "leaving"
    /\ \A c, d \in Clients : HbCtl(cl[c]) /\ HbCtl(cl[d]) /\ cl[c].u = cl[d].u => c = d

KernelOK == "hb_ctl" \notin Faults => Mounted /\ Unmounting

Safe == Phases /\ Conns /\ Owned /\ Grants /\ daemon # "wild" /\ KernelOK

-----------------------------------------------------------------------------
(* A step changes the record of one filesystem at most and of one client   *)
(* at most (C is empty or a singleton): what it has to show.               *)

\* Only filesystem u, or only the clients of C, may have changed.
OnlyFs(u) == \A v \in Uuids : v # u => fs'[v] = fs[v]
OnlyClients(C) == C \subseteq Clients /\ \A d \in Clients \ C : cl'[d] = cl[d]

\* What is to be shown of a client that changed, in a step about filesystem u.
ClientMoved(c, u) ==
    /\ ClientOK(cl'[c])
    /\ daemon = "up" =>
         /\ \A v \in Uuids : v # u => ~Owner(v, fs[v], cl[c])
         /\ Granted(cl'[c]) => Kept(fs'[cl'[c].u], cl'[c])

\* The same of the kernel's mounts and umounts.
KernelMoved(c) ==
    /\ daemon = "up" =>
         (/\ Granted(cl'[c]) /\ cl'[c].up # "MRESULT0" /\ cl'[c].s = "ocfs2"
          /\ kern'[cl'[c].u].count > 0
          => fs'[cl'[c].u].additional)
    /\ HbCtl(cl'[c]) => HbCtl(cl[c]) /\ cl'[c].u = cl[c].u
    /\ cl'[c].up = "UNMOUNT" /\ cl'[c].s = "ocfs2" => cl'[c].pc = "leaving"

\* The connections stay distinct when clients keep or lose their entries.
LEMMA DistinctStep ==
    ASSUME Conns, \A d \in Clients : cl'[d].ci \in {cl[d].ci, NoCi}
    PROVE  Distinct(cl')
  BY Zenon DEF Conns, Distinct

\* What a step of the daemon, or of a client, keeps of the invariant.
LEMMA SafeStep ==
    ASSUME ClOK(cl), Safe, NEW u \in Uuids, OnlyFs(u), NEW C, OnlyClients(C), daemon' = daemon,
           Phase(fs'[u]), Distinct(cl'),
           daemon = "up" /\ WillAnswer(fs'[u]) /\ fs'[u].ci # NoCi =>
             \E d \in Clients : Owner(u, fs'[u], cl'[d]),
           \A c \in C : ClientMoved(c, u),
           daemon = "up" =>
             \A d \in Clients \ C : Granted(cl[d]) /\ cl[d].u = u => Kept(fs'[u], cl[d]),
           KernelOK'
    PROVE  Safe'
<1>1. Phases'
  BY Zenon DEF Safe, Phases, OnlyFs
<1>2. Conns'
  BY Zenon DEF Safe, Conns, OnlyClients, ClientMoved
<1>3. Owned'
  <2> SUFFICES ASSUME daemon = "up", NEW v \in Uuids, WillAnswer(fs'[v]), fs'[v].ci # NoCi
               PROVE  \E d \in Clients : Owner(v, fs'[v], cl'[d])
    BY Zenon DEF Owned
  <2>1. CASE v # u
    <3>1. fs'[v] = fs[v]
      BY Zenon, <2>1 DEF OnlyFs
    <3>2. PICK d \in Clients : Owner(v, fs[v], cl[d])
      BY Zenon, <3>1 DEF Owned, Safe
    <3>3. d \notin C
      BY Zenon, <2>1, <3>2 DEF ClientMoved
    <3> QED BY Zenon, <3>1, <3>2, <3>3 DEF OnlyClients
  <2> QED BY Zenon, <2>1
<1>4. Grants'
  <2> SUFFICES ASSUME daemon = "up", NEW d \in Clients, Granted(cl'[d])
               PROVE  Kept(fs'[cl'[d].u], cl'[d])
    BY Zenon DEF Grants
  <2>1. CASE d \in C
    BY Zenon, <2>1 DEF ClientMoved
  <2>2. CASE d \notin C
    <3>1. cl'[d] = cl[d] /\ Kept(fs[cl[d].u], cl[d])
      BY Zenon, <2>2 DEF OnlyClients, Grants, Safe
    <3>2. cl[d].u \in Uuids
      BY Zenon, <3>1 DEF ClOK, Granted, None
    <3>3. cl[d].u # u => fs'[cl[d].u] = fs[cl[d].u]
      BY Zenon, <3>2 DEF OnlyFs
    <3> QED BY Zenon, <2>2, <3>1, <3>3
  <2> QED BY Zenon, <2>1, <2>2
<1> QED BY Zenon, <1>1, <1>2, <1>3, <1>4 DEF Safe

\* What a step that leaves the kernel alone keeps of the kernel's mounts.
LEMMA KernelStep ==
    ASSUME ClOK(cl), Safe, NEW u \in Uuids, OnlyFs(u), NEW C, OnlyClients(C),
           kern' = kern, daemon' = daemon, "hb_ctl" \notin Faults,
           daemon = "up" /\ kern[u].count > 0 =>
             /\ fs'[u].registered /\ fs'[u].notified /\ "ocfs2" \in fs'[u].services
             /\ fs[u].additional /\ (\E d \in Clients \ C : Granted(cl[d]) /\ cl[d].u = u) =>
                  fs'[u].additional,
           \A c \in C : KernelMoved(c)
    PROVE  Mounted' /\ Unmounting'
<1>1. Mounted /\ Unmounting
  BY Zenon DEF Safe, KernelOK
<1>2. ASSUME NEW v \in Uuids, kern'[v].count > 0, daemon = "up"
      PROVE  fs'[v].registered /\ fs'[v].notified /\ "ocfs2" \in fs'[v].services
  BY Zenon, <1>1, <1>2 DEF Mounted, OnlyFs
<1>3. ASSUME NEW d \in Clients, Granted(cl'[d]), cl'[d].up # "MRESULT0", cl'[d].s = "ocfs2",
             kern'[cl'[d].u].count > 0, daemon = "up"
      PROVE  fs'[cl'[d].u].additional
  <2>1. CASE d \in C
    BY Zenon, <1>3, <2>1 DEF KernelMoved
  <2>2. CASE d \notin C
    <3>1. cl'[d] = cl[d] /\ fs[cl[d].u].additional
      BY Zenon, <1>1, <1>3, <2>2 DEF OnlyClients, Mounted
    <3>2. cl[d].u \in Uuids
      BY Zenon, <1>3, <3>1 DEF ClOK, Granted, None
    <3>3. CASE cl[d].u = u
      BY Zenon, <1>3, <2>2, <3>1, <3>3
    <3>4. CASE cl[d].u # u
      BY Zenon, <3>1, <3>2, <3>4 DEF OnlyFs
    <3> QED BY Zenon, <3>3, <3>4
  <2> QED BY Zenon, <2>1, <2>2
<1>4. \A d \in Clients : /\ HbCtl(cl'[d]) => HbCtl(cl[d]) /\ cl'[d].u = cl[d].u
                         /\ cl'[d].up = "UNMOUNT" /\ cl'[d].s = "ocfs2" => cl'[d].pc = "leaving"
  BY Zenon, <1>1 DEF Unmounting, OnlyClients, KernelMoved
<1>5. Unmounting'
  BY Zenon, <1>1, <1>4 DEF Unmounting
<1> QED BY Zenon, <1>2, <1>3, <1>5 DEF Mounted

\* Both, for a step of the daemon.
LEMMA DaemonStep ==
    ASSUME ClOK(cl), Safe, daemon = "up", daemon' = daemon, kern' = kern,
           NEW u \in Uuids, OnlyFs(u), NEW C, OnlyClients(C), Phase(fs'[u]), Distinct(cl'),
           WillAnswer(fs'[u]) /\ fs'[u].ci # NoCi => \E d \in Clients : Owner(u, fs'[u], cl'[d]),
           \A c \in C : ClientMoved(c, u) /\ ("hb_ctl" \notin Faults => KernelMoved(c)),
           \A d \in Clients \ C : Granted(cl[d]) /\ cl[d].u = u => Kept(fs'[u], cl[d]),
           "hb_ctl" \notin Faults /\ kern[u].count > 0 =>
             /\ fs'[u].registered /\ fs'[u].notified /\ "ocfs2" \in fs'[u].services
             /\ fs[u].additional /\ (\E d \in Clients \ C : Granted(cl[d]) /\ cl[d].u = u) =>
                  fs'[u].additional
    PROVE  Safe'
<1>1. "hb_ctl" \notin Faults => Mounted' /\ Unmounting'
  BY Zenon, KernelStep
<1>2. KernelOK'
  BY Zenon, <1>1 DEF KernelOK
<1> QED BY Zenon, <1>2, SafeStep

\* What is known of the kernel's mounts before a step of the daemon.
LEMMA MountedNow ==
    ASSUME Inv, Safe, daemon = "up", "hb_ctl" \notin Faults, NEW u \in Uuids, kern[u].count > 0
    PROVE  /\ fs[u].registered /\ fs[u].notified /\ "ocfs2" \in fs[u].services /\ fs[u].mg
           /\ Live(fs[u]) \/ Busy(fs[u])
<1>1. fs[u].registered /\ fs[u].notified /\ "ocfs2" \in fs[u].services /\ Phase(fs[u])
  BY Zenon DEF Safe, KernelOK, Mounted, Phases
<1> QED BY Zenon, <1>1 DEF Phase, Absent, Joining, Abandoned, Registering, Leaving

-----------------------------------------------------------------------------
(* What the daemon does to its clients.                                    *)

\* q is client r once the daemon has read what it sent.
Heard(r, q) == q.pc = r.pc /\ q.u = r.u /\ q.s = r.s /\ q.ci = r.ci /\ q.up = None /\ q.ok = r.ok

\* q is client r with answer st, unless r has closed its connection.
Told(r, q, st) ==
    Heard(r, q) /\ (r.pc # "gone" => q.down = <<st>>) /\ (r.pc = "gone" => q.down = <<>>)

\* A sequence with one status.
LEMMA OneStatus ==
    ASSUME NEW st \in Status
    PROVE  /\ Append(<<>>, st) = <<st>> /\ <<st>> # <<>> /\ Len(<<st>>) = 1 /\ Head(<<st>>) = st
           /\ Tail(<<st>>) = <<>>
  OBVIOUS

\* A client that has been answered is as it should be.
LEMMA ToldOK ==
    ASSUME NEW r, NEW q, NEW st \in Status, Told(r, q, st), ClientOK(r),
           r.pc \in {"joining", "result", "leaving", "gone"}
    PROVE  ClientOK(q)
  BY Zenon, OneStatus DEF Told, Heard, ClientOK, None

\* Reading a message takes it from the client and changes nobody else.
LEMMA ReadStep ==
    ASSUME ClOK(cl), NEW c \in Clients, ClientOK(cl[c]), cl[c].up # None
    PROVE  /\ Heard(cl[c], Read(c)[c]) /\ Read(c)[c].down = <<>>
           /\ ClientOK(Read(c)[c])
           /\ \A d \in Clients : d # c => Read(c)[d] = cl[d]
<1>1. cl \in [Clients -> ClType] /\ cl[c] \in ClType
  BY Zenon DEF ClOK
<1>2. Read(c)[c] = [cl[c] EXCEPT !.up = None] /\ \A d \in Clients : d # c => Read(c)[d] = cl[d]
  BY Zenon, <1>1 DEF Read
<1> DEFINE q == [cl[c] EXCEPT !.up = None]
<1>3. Heard(cl[c], q) /\ q.down = cl[c].down
  BY Zenon, <1>1 DEF Heard, ClType
<1>4. cl[c].down = <<>> /\ cl[c].pc # "idle"
  BY Zenon DEF ClientOK
<1> HIDE DEF q
<1>5. ClientOK(q)
  BY Zenon, <1>3, <1>4 DEF Heard, ClientOK, None
<1> QED BY Zenon, <1>2, <1>3, <1>4, <1>5 DEF q

\* A message goes to the client at that entry of the array and to nobody else.
LEMMA SendStep ==
    ASSUME NEW k, ClOK(k), Distinct(k), NEW c \in Clients, k[c].ci # NoCi, k[c].down = <<>>,
           k[c].up = None, NEW st \in Status
    PROVE  /\ Told(k[c], send_message(k, k[c].ci, st)[c], st)
           /\ \A d \in Clients : d # c => send_message(k, k[c].ci, st)[d] = k[d]
<1> DEFINE n == send_message(k, k[c].ci, st)
<1>1. k \in [Clients -> ClType] /\ k[c] \in ClType
  BY Zenon DEF ClOK
<1>2. \A d \in Clients : d # c => n[d] = k[d]
  BY Zenon DEF Distinct, send_message, Reached
<1>3. CASE k[c].pc = "gone"
  <2>1. n[c] = k[c]
    BY Zenon, <1>3 DEF send_message, Reached
  <2> QED BY Zenon, <1>2, <1>3, <2>1 DEF Told, Heard
<1>4. CASE k[c].pc # "gone"
  <2>1. n[c] = [k[c] EXCEPT !.down = <<st>>]
    <3>1. n[c] = [k[c] EXCEPT !.down = Append(@, st)]
      BY Zenon, <1>4 DEF send_message, Reached
    <3> QED BY Zenon, <1>1, <3>1, OneStatus DEF ClType
  <2> HIDE DEF n
  <2>2. Told(k[c], n[c], st)
    BY Zenon, <1>1, <1>4, <2>1 DEF Told, Heard, ClType
  <2> QED BY Zenon, <1>2, <2>2 DEF n
<1> QED BY Zenon, <1>3, <1>4

\* The reply to the client whose message was just read.
LEMMA ReplyStep ==
    ASSUME ClOK(cl), Conns, NEW c \in Clients, cl[c].up # None, NEW st \in Status
    PROVE  LET n == send_message(Read(c), cl[c].ci, st)
           IN  /\ Told(cl[c], n[c], st) /\ ClientOK(n[c])
               /\ \A d \in Clients : d # c => n[d] = cl[d]
<1> DEFINE k == Read(c)
           n == send_message(k, cl[c].ci, st)
<1>1. ClientOK(cl[c]) /\ ClOK(k)
  BY Zenon, ReadType DEF Conns
<1>2. Heard(cl[c], k[c]) /\ k[c].down = <<>> /\ \A d \in Clients : d # c => k[d] = cl[d]
  BY Zenon, <1>1, ReadStep
<1> HIDE DEF k
<1>3. Distinct(k)
  BY <1>2 DEF Distinct, Heard, Conns
<1>4. k[c].ci = cl[c].ci /\ cl[c].ci # NoCi /\ k[c].up = None
  BY Zenon, <1>1, <1>2 DEF Heard, ClientOK
<1>5. Told(k[c], n[c], st) /\ \A d \in Clients : d # c => n[d] = k[d]
  BY <1>1, <1>2, <1>3, <1>4, SendStep
<1> HIDE DEF n
<1>6. Told(cl[c], n[c], st)
  BY Zenon, <1>2, <1>5 DEF Told, Heard
<1>7. cl[c].pc \in {"joining", "result", "leaving", "gone"}
  <2>1. cl[c].up \in {None, "MOUNT", "MRESULT0", "MRESULT1", "UNMOUNT"}
    BY Zenon DEF ClOK, ClType
  <2> QED BY Zenon, <1>1, <2>1 DEF ClientOK
<1>8. ClientOK(n[c])
  BY Zenon, <1>1, <1>6, <1>7, ToldOK
<1> QED BY Zenon, <1>2, <1>5, <1>6, <1>8 DEF n, k

\* Nobody is at entry -1.
LEMMA SendNobody ==
    ASSUME ClOK(cl), NEW st, NEW d \in Clients
    PROVE  send_message(cl, NoCi, st)[d] = cl[d] /\ connection_dead(cl, NoCi)[d] = cl[d]
  BY Zenon DEF send_message, Reached, connection_dead

\* Closing a connection only changes its client.
LEMMA DeadStep ==
    ASSUME ClOK(cl), Distinct(cl), NEW c \in Clients, cl[c].ci # NoCi
    PROVE  LET n == connection_dead(cl, cl[c].ci)
           IN  /\ cl[c].pc = "gone" => n[c] = IdleClient
               /\ cl[c].pc # "gone" => n[c] = [cl[c] EXCEPT !.ci = NoCi, !.up = None]
               /\ \A d \in Clients : d # c => n[d] = cl[d]
  BY Zenon DEF connection_dead, Distinct

\* A process that is not connected.
LEMMA IdleOK == ClientOK(IdleClient) /\ IdleClient.ci = NoCi /\ ~Granted(IdleClient)
                /\ IdleClient.s # "ocfs2"
  BY Zenon DEF ClientOK, IdleClient, Granted, None

-----------------------------------------------------------------------------
(* What the helpers do to a mountgroup.                                    *)

\* A status of the error field alone does not change the phase of a mountgroup
\* that has no answer to give.
LEMMA ErrPhase ==
    ASSUME NEW f \in FsType, Phase(f), NEW e \in {"ok", "error"},
           e = "ok" \/ Live(f) \/ Busy(f)
    PROVE  /\ Phase([f EXCEPT !.err = e])
           /\ Live(f) => Live([f EXCEPT !.err = e])
           /\ Busy(f) => Busy([f EXCEPT !.err = e])
<1> DEFINE g == [f EXCEPT !.err = e]
<1>1. /\ g.mg = f.mg /\ g.group = f.group /\ g.leave_on_join = f.leave_on_join
      /\ g.registered = f.registered /\ g.services = f.services
      /\ g.in_progress = f.in_progress /\ g.additional = f.additional /\ g.ci = f.ci
      /\ g.notified = f.notified /\ g.err = e /\ g.cg = f.cg /\ g.dfs = f.dfs
      /\ g.dlmc = f.dlmc /\ g.results = f.results
  BY Zenon DEF FsType
<1> HIDE DEF g
<1>2. Live(f) => Live(g)
  BY Zenon, <1>1 DEF Live
<1>3. Busy(f) => Busy(g)
  BY Zenon, <1>1 DEF Busy
<1>4. Absent(f) => Absent(g)
  BY Zenon, <1>1 DEF Absent
<1>5. e = "ok" => /\ Joining(f) => Joining(g)
                  /\ Abandoned(f) => Abandoned(g)
                  /\ Registering(f) => Registering(g)
                  /\ Leaving(f) => Leaving(g)
  BY Zenon, <1>1 DEF Joining, Abandoned, Registering, Leaving
<1>6. Phase(g)
  BY Zenon, <1>1, <1>2, <1>3, <1>4, <1>5 DEF Phase
<1> QED BY Zenon, <1>2, <1>3, <1>6 DEF g

\* dlmcontrol_unregister() only touches the registration.
LEMMA UnregisterFields ==
    ASSUME NEW f \in FsType
    PROVE  LET g == dlmcontrol_unregister(f)
           IN  /\ g \in FsType
               /\ g.mg = f.mg /\ g.group = f.group /\ g.leave_on_join = f.leave_on_join
               /\ g.services = f.services /\ g.additional = f.additional /\ g.ci = f.ci
               /\ g.notified = f.notified /\ g.err = f.err /\ g.cg = f.cg
               /\ g.results = f.results
<1>1. dlmcontrol_unregister(f) \in FsType
  BY Zenon, Unregister
<1>2. CASE f.dfs = <<>>
  BY Zenon, <1>1, <1>2 DEF dlmcontrol_unregister
<1>3. CASE f.dfs # <<>>
  <2> DEFINE t == Tail(f.dfs)
  <2>1. dlmcontrol_unregister(f) = [f EXCEPT !.dfs = t, !.dlmc = FALSE]
    BY Zenon, <1>3 DEF dlmcontrol_unregister, FsType
  <2> HIDE DEF t
  <2> QED BY ZenonT(60), <1>1, <2>1 DEF FsType
<1> QED BY Zenon, <1>2, <1>3

\* remove_service() of the last service: the group is left, at once or when it is
\* joined.
LEMMA RemoveLast ==
    ASSUME NEW f \in FsType, NEW s \in Services, f.services = {s}, NEW left \in BOOLEAN,
           f.additional => s = "ocfs2"
    PROVE  LET r == remove_service(f, s, left)
           IN  /\ r \in FsType
               /\ r.mg = f.mg /\ r.services = {} /\ r.in_progress = s /\ ~r.registered
               /\ ~r.additional /\ r.ci = f.ci /\ r.err = f.err /\ r.results = f.results
               /\ f.group => /\ r.group
                             /\ r.cg = f.cg \/ (f.cg = "joined" /\ r.cg = "leaving")
               /\ ~f.group => r.leave_on_join /\ ~r.group /\ r.cg = f.cg
<1> DEFINE g == [f EXCEPT !.services = {}, !.additional = FALSE]
           g1 == IF f.registered THEN dlmcontrol_unregister(g) ELSE g
           h == [g1 EXCEPT !.in_progress = s, !.registered = FALSE]
           r == remove_service(f, s, left)
<1>1. f.services \ {s} = {} /\ (f.additional /\ s # "ocfs2") = FALSE
  <2>1. f.additional \in BOOLEAN
    BY Zenon DEF FsType
  <2> QED BY Zenon, <2>1
<1>2. r = IF f.group THEN group_leave(h, left) ELSE [h EXCEPT !.leave_on_join = TRUE]
  <2>1. [f EXCEPT !.services = f.services \ {s}, !.additional = @ /\ s # "ocfs2"] = g
    BY Zenon, <1>1 DEF FsType
  <2> QED BY Zenon, <1>1, <2>1 DEF remove_service
<1>3. /\ g \in FsType /\ g.mg = f.mg /\ g.group = f.group /\ g.leave_on_join = f.leave_on_join
      /\ g.services = {} /\ ~g.additional /\ g.ci = f.ci /\ g.err = f.err /\ g.cg = f.cg
      /\ g.results = f.results
  BY ZenonT(60) DEF FsType
<1> HIDE DEF g
<1>4. /\ g1 \in FsType /\ g1.mg = f.mg /\ g1.group = f.group /\ g1.leave_on_join = f.leave_on_join
      /\ g1.services = {} /\ ~g1.additional /\ g1.ci = f.ci /\ g1.err = f.err /\ g1.cg = f.cg
      /\ g1.results = f.results
  BY Zenon, <1>3, UnregisterFields
<1> HIDE DEF g1
<1>5. /\ h \in FsType /\ h.mg = f.mg /\ h.group = f.group /\ h.services = {} /\ ~h.additional
      /\ h.ci = f.ci /\ h.err = f.err /\ h.cg = f.cg /\ h.results = f.results
      /\ h.in_progress = s /\ ~h.registered
  BY ZenonT(30), <1>4 DEF FsType
<1> HIDE DEF h, r
<1>6. CASE ~f.group
  <2>1. r = [h EXCEPT !.leave_on_join = TRUE]
    BY Zenon, <1>2, <1>6
  <2> QED BY ZenonT(30), <1>5, <1>6, <2>1 DEF FsType, r
<1>7. CASE f.group /\ left /\ h.cg = "joined"
  <2>1. r = [h EXCEPT !.cg = "leaving"]
    BY Zenon, <1>2, <1>7 DEF group_leave
  <2> QED BY ZenonT(30), <1>5, <1>7, <2>1 DEF FsType, r
<1>8. CASE f.group /\ ~(left /\ h.cg = "joined")
  <2>1. r = h
    BY Zenon, <1>2, <1>8 DEF group_leave
  <2> QED BY Zenon, <1>5, <1>8, <2>1 DEF r
<1> QED BY Zenon, <1>6, <1>7, <1>8

\* remove_service() of one service of several.
LEMMA RemoveOne ==
    ASSUME NEW f \in FsType, NEW s \in Services, s \in f.services, f.services # {s},
           NEW left \in BOOLEAN
    PROVE  LET r == remove_service(f, s, left)
           IN  /\ r.services = f.services \ {s} /\ r.services # {}
               /\ r.additional <=> f.additional /\ s # "ocfs2"
               /\ r.mg = f.mg /\ r.group = f.group /\ r.registered = f.registered
               /\ r.in_progress = f.in_progress /\ r.ci = f.ci /\ r.notified = f.notified
               /\ r.err = f.err /\ r.cg = f.cg /\ r.dlmc = f.dlmc /\ r.results = f.results
<1>1. f.services \ {s} # {}
  BY Zenon
<1> DEFINE r == remove_service(f, s, left)
<1>2. r = [f EXCEPT !.services = f.services \ {s}, !.additional = @ /\ s # "ocfs2"]
  BY Zenon, <1>1 DEF remove_service
<1> HIDE DEF r
<1> QED BY ZenonT(60), <1>1, <1>2 DEF FsType, r

\* A queue of length zero is empty.
LEMMA NoneLeft == ASSUME NEW S, NEW q \in Seq(S), Len(q) = 0 PROVE q = <<>>
  OBVIOUS

\* find_mg_by_client() finds a mountgroup with that mg_mount_ci when there is one.
LEMMA FoundMg ==
    ASSUME FsOK(mounts, fs), NEW ci
    PROVE  LET u == find_mg_by_client(ci)
           IN  /\ u = None => \A v \in Uuids : fs[v].mg => fs[v].ci # ci
               /\ u # None => u \in Uuids /\ fs[u].mg /\ fs[u].ci = ci
<1> DEFINE has(i) == fs[mounts[i]].ci = ci
           first(i) == has(i) /\ \A k \in 1..(i - 1) : ~has(k)
           u == find_mg_by_client(ci)
<1>1. DOMAIN mounts = 1..Len(mounts) /\ Len(mounts) \in Nat /\ mounts \in Seq(Uuids)
  BY DEF FsOK, Lists
<1>2. \A v \in Uuids : fs[v].mg <=> \E i \in DOMAIN mounts : mounts[i] = v
  BY Zenon DEF FsOK, Lists
<1>3. \A i \in DOMAIN mounts : mounts[i] \in Uuids /\ mounts[i] # None
  BY <1>1, ConstAssumption DEF None
<1>4. CASE \E i \in DOMAIN mounts : has(i)
  <2> DEFINE T == {k \in DOMAIN mounts : has(k)}
  <2>1. PICK i \in T : \A k \in T : i <= k
    <3>1. T \subseteq DOMAIN mounts /\ T # {}
      BY Zenon, <1>4
    <3>2. Lists(mounts, {v \in Uuids : fs[v].mg})
      BY Zenon DEF FsOK
    <3> HIDE DEF T
    <3> QED BY Zenon, <3>1, <3>2, FirstOf
  <2>2. \A k \in 1..(i - 1) : ~has(k)
    <3> SUFFICES ASSUME NEW k \in 1..(i - 1), has(k) PROVE FALSE
      BY Zenon
    <3>1. k \in DOMAIN mounts /\ k < i /\ k \in T /\ i \in Nat
      BY <1>1, <2>1
    <3> HIDE DEF has, T
    <3> QED BY <1>1, <2>1, <3>1
  <2>3. \E k \in DOMAIN mounts : first(k)
    BY Zenon, <2>1, <2>2
  <2>4. u = mounts[CHOOSE k \in DOMAIN mounts : first(k)]
    BY Zenon, <1>4 DEF find_mg_by_client
  <2>5. \E k \in DOMAIN mounts : u = mounts[k] /\ has(k)
    <3> DEFINE j == CHOOSE k \in DOMAIN mounts : first(k)
    <3>1. j \in DOMAIN mounts /\ first(j)
      <4> HIDE DEF first
      <4> QED BY Zenon, <2>3
    <3>2. has(j) /\ u = mounts[j]
      BY Zenon, <2>4, <3>1
    <3> HIDE DEF j, u, has
    <3> QED BY Zenon, <3>1, <3>2
  <2> QED BY Zenon, <1>2, <1>3, <2>5
<1>5. CASE ~\E i \in DOMAIN mounts : has(i)
  <2>1. u = None
    BY Zenon, <1>5 DEF find_mg_by_client
  <2> QED BY Zenon, <1>2, <1>5, <2>1
<1> QED BY Zenon, <1>4, <1>5

=============================================================================
