---------------------------- MODULE Protocol_proofs ----------------------------
(***************************************************************************)
(* Agreement for every cluster, every choice of maximum protocols and      *)
(* every fault.                                                            *)
(*                                                                         *)
(* Two daemons may run different versions only if the checkpoint changes   *)
(* between their reads.  A daemon that has read a section keeps the        *)
(* checkpoint open (Holds), so OpenAIS keeps it, and nobody stores again:  *)
(* a checkpoint is created only when nobody has it open, so there is one   *)
(* writer (OneWriter), and a section that a writer has yet to store is     *)
(* still missing (Writing).  Hence what was read still stands (Reading).   *)
(***************************************************************************)
EXTENDS Protocol, TLAPS

PcValues == {"down", "install_node", "setup_cpg", "create", "store_daemon", "store_fs", "open",
             "get_daemon", "get_fs", "serve", "running", "dying", "left"}

\* What a section may hold: nothing, or the text of a version.
Sections == {<<>>} \cup {proto_version_to_checkpoint(v) : v \in Version}

\* Every variable that matters has its type.
TypeOK ==
    /\ max \in [Nodes -> [daemon : Version, fs : Version]]
    /\ proto \in [Nodes -> [daemon : Version, fs : Version]]
    /\ pc \in [Nodes -> PcValues]
    /\ global \in [daemon : Sections, fs : Sections]
    /\ handles \subseteq Nodes /\ stale \subseteq Nodes

Writer(n) == pc[n] \in {"store_daemon", "store_fs"}

\* A daemon that writes, reads or has read has the checkpoint open.
Holds == \A n \in Nodes : Writer(n) \/ pc[n] \in {"get_daemon", "get_fs"} \/ Runs(n) => n \in handles

\* One daemon at a time writes.
OneWriter == \A m, n \in Nodes : Writer(m) /\ Writer(n) => m = n

\* A writer stores its own maximum, and what it has yet to store is missing.
Writing ==
    \A n \in Nodes :
        /\ Writer(n) => proto[n] = max[n] /\ global.fs = <<>>
        /\ pc[n] = "store_daemon" => global.daemon = <<>>
        /\ pc[n] = "store_fs" => global.daemon = proto_version_to_checkpoint(proto[n].daemon)

\* The version in section s is the one that n took, and n supports it.
Took(n, s) ==
    /\ global[s] = proto_version_to_checkpoint(proto[n][s])
    /\ protocol_compatible(proto[n][s], max[n][s])

\* What a daemon has read is still there.
Reading ==
    \A n \in Nodes :
        /\ pc[n] = "get_fs" \/ Runs(n) => Took(n, "daemon")
        /\ Runs(n) => Took(n, "fs")

IInv == TypeOK /\ Holds /\ OneWriter /\ Writing /\ Reading

-----------------------------------------------------------------------------
(* Versions as text.                                                       *)

\* checkpoint_to_proto_version() reads what proto_version_to_checkpoint() wrote,
\* which is well formed and not empty.
LEMMA RoundTrip ==
    ASSUME NEW v \in Version
    PROVE  /\ checkpoint_to_proto_version(proto_version_to_checkpoint(v)) = v
           /\ well_formed(proto_version_to_checkpoint(v))
           /\ proto_version_to_checkpoint(v) # <<>>
<1>1. \A k \in 0..255 : 16 * (k \div 16) + (k % 16) = k
  OBVIOUS
<1>2. v.major \in 0..255 /\ v.minor \in 0..255 /\ v = [major |-> v.major, minor |-> v.minor]
  BY Zenon DEF Version
<1> DEFINE s == proto_version_to_checkpoint(v)
<1>3. Len(s) = 6 /\ s[1] = v.major \div 16 /\ s[2] = v.major % 16 /\ s[3] = " "
      /\ s[4] = v.minor \div 16 /\ s[5] = v.minor % 16 /\ s[6] = ""
  BY Zenon DEF proto_version_to_checkpoint
<1>4. s # <<>>
  BY Zenon DEF proto_version_to_checkpoint
<1> HIDE DEF s
<1>5. checkpoint_to_proto_version(s) = v
  BY Zenon, <1>1, <1>2, <1>3 DEF checkpoint_to_proto_version
<1>6. well_formed(s)
  BY Zenon, <1>3 DEF well_formed
<1> QED BY Zenon, <1>4, <1>5, <1>6 DEF s

-----------------------------------------------------------------------------
(* The actions.                                                            *)

\* A daemon that goes where it neither writes nor has read keeps the invariant,
\* when the checkpoint and the handles of the others stay.
LEMMA QuietStep ==
    ASSUME IInv, NEW n \in Nodes,
           NEW to \in {"down", "install_node", "setup_cpg", "create", "open", "dying", "left"},
           Goto(n, to), UNCHANGED <<max, proto, global>>,
           handles \ {n} \subseteq handles', handles' \subseteq Nodes, stale' \subseteq Nodes
    PROVE  IInv'
<1> USE DEF IInv, Goto
<1>1. TypeOK'
  BY Zenon DEF TypeOK, PcValues
<1>2. pc'[n] = to /\ \A m \in Nodes \ {n} : pc'[m] = pc[m]
  BY Zenon DEF TypeOK
<1> HIDE DEF Goto
<1>3. Holds' /\ OneWriter'
  BY Zenon, <1>2 DEF Holds, OneWriter, Writer, Runs
<1>4. Writing' /\ Reading'
  BY Zenon, <1>2 DEF Writing, Reading, Writer, Runs, Took
<1> QED BY Zenon, <1>1, <1>3, <1>4

\* The checkpoint is created when nobody has it open.
LEMMA CreateStep ==
    ASSUME IInv, NEW n \in Nodes, create(n)
    PROVE  IInv'
<1> USE DEF IInv, create, Goto
<1>1. TypeOK'
  BY Zenon DEF TypeOK, PcValues, NoSections, Sections
<1>2. pc'[n] = "store_daemon" /\ proto'[n] = max[n]
      /\ \A m \in Nodes \ {n} : pc'[m] = pc[m] /\ proto'[m] = proto[m]
  BY Zenon DEF TypeOK
<1>3. \A m \in Nodes \ {n} : ~Writer(m)' /\ ~Runs(m)' /\ pc'[m] \notin {"get_daemon", "get_fs"}
  BY Zenon, <1>2 DEF Holds, Writer, Runs
<1>4. Holds' /\ OneWriter'
  BY Zenon, <1>2, <1>3 DEF Holds, OneWriter, Writer, Runs
<1>5. Writing' /\ Reading'
  BY Zenon, <1>2, <1>3 DEF Writing, Reading, Writer, Runs, NoSections
<1> QED BY Zenon, <1>1, <1>4, <1>5

\* The first section is stored while nobody has read any.
LEMMA StoreDaemonStep ==
    ASSUME IInv, NEW n \in Nodes, store_daemon(n)
    PROVE  IInv'
<1> USE DEF IInv, store_daemon, Goto
<1>1. TypeOK'
  BY Zenon DEF TypeOK, PcValues, Sections
<1>2. pc'[n] = "store_fs" /\ \A m \in Nodes \ {n} : pc'[m] = pc[m]
  BY Zenon DEF TypeOK
<1>3. global'.daemon = proto_version_to_checkpoint(proto[n].daemon) /\ global'.fs = global.fs
  BY Zenon DEF TypeOK
<1>4. Writer(n) /\ global.daemon = <<>> /\ global.fs = <<>> /\ proto[n] = max[n]
  BY Zenon DEF Writing, Writer
<1>5. \A m \in Nodes : pc[m] # "get_fs" /\ ~Runs(m)
  BY <1>4, RoundTrip DEF Reading, Took, TypeOK
<1>6. Holds' /\ OneWriter'
  BY Zenon, <1>2, <1>4 DEF Holds, OneWriter, Writer, Runs
<1>7. Writing'
  BY Zenon, <1>2, <1>3, <1>4 DEF Writing, OneWriter, Writer
<1>8. Reading'
  BY Zenon, <1>2, <1>5 DEF Reading, Runs
<1> QED BY Zenon, <1>1, <1>6, <1>7, <1>8

\* The second section is stored while nobody has read it.
LEMMA StoreFsStep ==
    ASSUME IInv, NEW n \in Nodes, store_fs(n)
    PROVE  IInv'
<1> USE DEF IInv, store_fs, Goto
<1>1. TypeOK'
  BY Zenon DEF TypeOK, PcValues, Sections
<1>2. pc'[n] = "serve" /\ \A m \in Nodes \ {n} : pc'[m] = pc[m]
  BY Zenon DEF TypeOK
<1>3. global'.fs = proto_version_to_checkpoint(proto[n].fs) /\ global'.daemon = global.daemon
      /\ global'["fs"] = global'.fs /\ global'["daemon"] = global'.daemon
  BY Zenon DEF TypeOK
<1>4. Writer(n) /\ global.fs = <<>> /\ proto[n] = max[n]
      /\ global.daemon = proto_version_to_checkpoint(proto[n].daemon)
  BY Zenon DEF Writing, Writer
<1>5. \A m \in Nodes : ~Runs(m)
  BY <1>4, RoundTrip DEF Reading, Took, TypeOK
<1>6. Holds' /\ OneWriter'
  BY Zenon, <1>2, <1>4 DEF Holds, OneWriter, Writer, Runs
<1>7. Writing'
  BY Zenon, <1>2, <1>4 DEF Writing, OneWriter, Writer
<1>8. Took(n, "daemon")' /\ Took(n, "fs")'
  <2>1. /\ max[n] \in [daemon : Version, fs : Version] /\ UNCHANGED <<max, proto>>
        /\ \A v \in Version : protocol_compatible(v, v)
    BY DEF TypeOK, protocol_compatible, Version
  <2> HIDE DEF IInv, store_fs
  <2> QED BY Zenon, <1>3, <1>4, <2>1 DEF Took
<1>9. Reading'
  <2>1. \A m \in Nodes \ {n} : ~Runs(m)' /\ (pc'[m] = "get_fs" => Took(m, "daemon")')
    BY Zenon, <1>2, <1>3, <1>5 DEF Reading, Runs, Took
  <2> QED BY Zenon, <1>2, <1>8, <2>1 DEF Reading
<1> QED BY Zenon, <1>1, <1>6, <1>7, <1>9

\* open() takes a handle, or stops.
LEMMA OpenStep ==
    ASSUME IInv, NEW n \in Nodes, open(n)
    PROVE  IInv'
<1>1. CASE ~Exists
  BY Zenon, <1>1, QuietStep DEF open, IInv, TypeOK
<1>2. CASE Exists
  <2> USE <1>2 DEF IInv, open, Goto
  <2>1. TypeOK'
    BY Zenon DEF TypeOK, PcValues
  <2>2. pc'[n] = "get_daemon" /\ \A m \in Nodes \ {n} : pc'[m] = pc[m]
    BY Zenon DEF TypeOK
  <2>3. Holds' /\ OneWriter'
    BY Zenon, <2>2 DEF Holds, OneWriter, Writer, Runs
  <2>4. Writing' /\ Reading'
    BY Zenon, <2>2 DEF Writing, Reading, Writer, Runs, Took
  <2> QED BY Zenon, <2>1, <2>3, <2>4
<1> QED BY Zenon, <1>1, <1>2

\* When the last handle is given up the checkpoint goes, but then nobody writes or
\* has read.
LEMMA ReleaseStep ==
    ASSUME IInv, NEW n \in Nodes, UNCHANGED <<max, proto>>,
           NEW h, h \subseteq Nodes, NEW s, s \subseteq Nodes,
           handles' = h, stale' = s, global' = Kept(h, s), handles \ {n} \subseteq h,
           \/ UNCHANGED <<pc, handles>>
           \/ Goto(n, "open")
    PROVE  IInv'
<1> USE DEF IInv
<1>1. TypeOK'
  BY Zenon DEF TypeOK, PcValues, Goto, Kept, NoSections, Sections
<1>2. \A m \in Nodes : \/ pc'[m] = pc[m] /\ (m \in handles => m \in handles')
                       \/ m = n /\ pc'[m] = "open"
  BY Zenon DEF TypeOK, Goto
<1>3. Holds' /\ OneWriter'
  BY Zenon, <1>2 DEF Holds, OneWriter, Writer, Runs
<1>4. CASE global' = global
  <2>1. Writing' /\ Reading'
    BY Zenon, <1>2, <1>4 DEF Writing, Reading, Writer, Runs, Took
  <2> QED BY Zenon, <1>1, <1>3, <2>1
<1>5. CASE global' # global
  <2>1. \A m \in Nodes : ~Writer(m)' /\ ~Runs(m)' /\ pc'[m] \notin {"get_daemon", "get_fs"}
    BY Zenon, <1>3, <1>5 DEF Holds, Kept
  <2> QED BY Zenon, <1>1, <1>3, <2>1 DEF Writing, Reading, Writer, Runs
<1> QED BY Zenon, <1>1, <1>3, <1>4, <1>5

\* A section is read: it is missing, or it cannot be run, or it is taken.
LEMMA SectionStep ==
    ASSUME IInv, NEW n \in Nodes, NEW s \in {"daemon", "fs"}, NEW next,
           \/ s = "daemon" /\ next = "get_fs" /\ pc[n] = "get_daemon"
           \/ s = "fs" /\ next = "serve" /\ pc[n] = "get_fs",
           get_section(n, s, next)
    PROVE  IInv'
<1> DEFINE v == checkpoint_to_proto_version(global[s])
<1>1. CASE global[s] = <<>>
  <2>1. retry(n) /\ UNCHANGED <<max, stale>>
    BY Zenon, <1>1 DEF get_section
  <2> QED BY Zenon, <2>1, ReleaseStep DEF retry, IInv, TypeOK
<1>2. CASE global[s] # <<>>
  <2>1. v \in Version /\ global[s] = proto_version_to_checkpoint(v) /\ well_formed(global[s])
    <3>1. PICK w \in Version : global[s] = proto_version_to_checkpoint(w)
      BY Zenon, <1>2 DEF IInv, TypeOK, Sections
    <3> QED BY Zenon, <3>1, RoundTrip
  <2>2. /\ proto' = [proto EXCEPT ![n][s] = v]
        /\ Goto(n, IF protocol_compatible(v, max[n][s]) THEN next ELSE "dying")
        /\ UNCHANGED <<max, handles, global, stale>>
    BY Zenon, <1>2, <2>1 DEF get_section
  <2> HIDE DEF v
  <2>3. TypeOK'
    BY Zenon, <2>1, <2>2 DEF IInv, TypeOK, Goto, PcValues
  <2>4. /\ pc'[n] = IF protocol_compatible(v, max[n][s]) THEN next ELSE "dying"
        /\ proto'[n][s] = v /\ \A t \in {"daemon", "fs"} \ {s} : proto'[n][t] = proto[n][t]
        /\ \A m \in Nodes \ {n} : pc'[m] = pc[m] /\ proto'[m] = proto[m]
    BY Zenon, <2>2 DEF IInv, TypeOK, Goto
  <2>5. Holds' /\ OneWriter'
    BY Zenon, <2>2, <2>4 DEF IInv, Holds, OneWriter, Writer, Runs
  <2>6. Writing'
    BY Zenon, <2>2, <2>4 DEF IInv, Writing, Writer
  <2>7. \A m \in Nodes \ {n}, t \in {"daemon", "fs"} : Took(m, t) => Took(m, t)'
    BY Zenon, <2>2, <2>4 DEF Took
  <2>8. pc'[n] # "dying" => Took(n, s)'
    BY Zenon, <2>1, <2>2, <2>4 DEF Took
  <2>9. s = "fs" => Took(n, "daemon")'
    BY Zenon, <2>2, <2>4 DEF IInv, Reading, Took
  <2>10. Reading'
    BY Zenon, <2>4, <2>7, <2>8, <2>9 DEF IInv, Reading, Runs
  <2> QED BY Zenon, <2>3, <2>5, <2>6, <2>10 DEF IInv
<1> QED BY Zenon, <1>1, <1>2

\* serve() changes nothing but where the daemon is.
LEMMA ServeStep ==
    ASSUME IInv, NEW n \in Nodes, serve(n)
    PROVE  IInv'
<1> USE DEF IInv, serve, Goto
<1>1. TypeOK'
  BY Zenon DEF TypeOK, PcValues
<1>2. pc'[n] = "running" /\ \A m \in Nodes \ {n} : pc'[m] = pc[m]
  BY Zenon DEF TypeOK
<1>3. Holds' /\ OneWriter' /\ Writing'
  BY ZenonT(30), <1>2 DEF Holds, OneWriter, Writing, Writer, Runs
<1>4. Reading'
  BY Zenon, <1>2 DEF Reading, Runs, Took
<1> QED BY Zenon, <1>1, <1>3, <1>4

\* Every step of a daemon and of OpenAIS keeps the invariant.
LEMMA NextOK == IInv /\ [Next]_vars => IInv'
<1> SUFFICES ASSUME IInv, [Next]_vars PROVE IInv'
  BY Zenon
<1>1. CASE UNCHANGED vars
  BY Zenon, <1>1 DEF vars, IInv, TypeOK, Holds, OneWriter, Writing, Reading, Writer, Runs, Took
<1>2. ASSUME NEW n \in Nodes,
             \/ start(n) \/ install_node_checkpoint(n) \/ setup_cpg(n) \/ exit_cpg(n)
             \/ shutdown_daemon(n)
      PROVE  IInv'
  BY Zenon, <1>2, QuietStep DEF start, install_node_checkpoint, setup_cpg, exit_cpg, shutdown_daemon,
     IInv, TypeOK
<1>3. ASSUME NEW n \in Nodes, exit_ckpt(n) \/ die(n) PROVE IInv'
  <2>1. Gone(n)
    BY Zenon, <1>3 DEF exit_ckpt, die
  <2>2. Goto(n, "down") /\ UNCHANGED <<max, proto, global>> /\ handles' = handles \ {n}
        /\ stale' \subseteq stale \cup {n}
    BY Zenon, <2>1 DEF Gone
  <2> QED BY Zenon, <2>2, QuietStep DEF IInv, TypeOK
<1>4. ASSUME NEW n \in Nodes, cpg_joined(n) PROVE IInv'
  <2>1. CASE create(n)
    BY Zenon, <2>1, CreateStep
  <2>2. CASE store_daemon(n)
    BY Zenon, <2>2, StoreDaemonStep
  <2>3. CASE store_fs(n)
    BY Zenon, <2>3, StoreFsStep
  <2>4. CASE open(n)
    BY Zenon, <2>4, OpenStep
  <2>5. CASE get_daemon(n)
    BY Zenon, <2>5, SectionStep DEF get_daemon
  <2>6. CASE get_fs(n)
    BY Zenon, <2>6, SectionStep DEF get_fs
  <2>7. CASE serve(n)
    BY Zenon, <2>7, ServeStep
  <2> QED BY Zenon, <1>4, <2>1, <2>2, <2>3, <2>4, <2>5, <2>6, <2>7 DEF cpg_joined
<1>5. ASSUME NEW n \in Nodes, ais_cleanup(n) PROVE IInv'
  <2>1. /\ UNCHANGED <<max, proto>> /\ UNCHANGED <<pc, handles>>
        /\ global' = Kept(handles, stale \ {n}) /\ stale' = stale \ {n}
    BY Zenon, <1>5 DEF ais_cleanup
  <2> DEFINE s == stale \ {n}
  <2>2. handles \subseteq Nodes /\ s \subseteq Nodes
    BY Zenon DEF IInv, TypeOK
  <2>3. stale' = s /\ global' = Kept(handles, s) /\ handles \ {n} \subseteq handles
    BY Zenon, <2>1
  <2> HIDE DEF s
  <2> QED BY Zenon, <2>1, <2>2, <2>3, ReleaseStep
<1>6. ASSUME NEW n \in Nodes, ais_cleanup_node(n) PROVE IInv'
  BY Zenon, <1>6 DEF ais_cleanup_node, IInv, TypeOK, Holds, OneWriter, Writing, Reading, Writer, Runs, Took
<1> QED BY Zenon, <1>1, <1>2, <1>3, <1>4, <1>5, <1>6 DEF Next, Progress

-----------------------------------------------------------------------------
(* The theorems.                                                           *)

\* The invariant implies Agreement: who runs has read both sections, and the same
\* ones.
LEMMA InvImplies == IInv => Agreement
<1> SUFFICES ASSUME IInv PROVE Agreement
  BY Zenon
<1>1. ASSUME NEW m \in Nodes, NEW n \in Nodes, Runs(m), Runs(n) PROVE proto[m] = proto[n]
  <2>1. \A s \in {"daemon", "fs"} : proto[m][s] = proto[n][s]
    <3> SUFFICES ASSUME NEW s \in {"daemon", "fs"} PROVE proto[m][s] = proto[n][s]
      BY Zenon
    <3>1. Took(m, s) /\ Took(n, s) /\ proto[m][s] \in Version /\ proto[n][s] \in Version
      BY Zenon, <1>1 DEF IInv, Reading, TypeOK
    <3> QED BY Zenon, <3>1, RoundTrip DEF Took
  <2> QED BY <2>1 DEF IInv, TypeOK
<1>2. ASSUME NEW n \in Nodes, NEW s \in {"daemon", "fs"}, Runs(n)
      PROVE  proto[n][s].major = max[n][s].major /\ proto[n][s].minor <= max[n][s].minor
  BY Zenon, <1>2 DEF IInv, Reading, Took, protocol_compatible
<1> QED BY Zenon, <1>1, <1>2 DEF Agreement

\* The invariant holds at first: no daemon runs, and no section is stored.
LEMMA InitOK == Init => IInv
<1> SUFFICES ASSUME Init PROVE IInv
  BY Zenon
<1>1. TypeOK
  BY Zenon, ConstAssumption DEF Init, TypeOK, PcValues, NoSections, Sections
<1>2. \A n \in Nodes : pc[n] = "down"
  BY Zenon DEF Init
<1> QED BY Zenon, <1>1, <1>2 DEF IInv, Holds, OneWriter, Writing, Reading, Writer, Runs

\* "All interaction takes place based on the running versions": for any number of
\* nodes and any maximum protocols, and whichever daemons end at whatever moment,
\* two daemons that run, run the same versions, and support them.
THEOREM VersionsAgree == Spec => []Agreement
  BY InitOK, NextOK, InvImplies, PTL DEF Spec

=============================================================================
