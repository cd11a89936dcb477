------------------------------ MODULE HbRegion ------------------------------
(***************************************************************************)
(* The heartbeat region of one filesystem on one node, o2cb stack with     *)
(* local heartbeat: o2cb_start_heartbeat() and o2cb_stop_heartbeat() of    *)
(* libo2cb/o2cb_abi.c, called by mount.ocfs2, by the tools (through        *)
(* ocfs2_initialize_dlm() and ocfs2_shutdown_dlm()) and by ocfs2_hb_ctl,   *)
(* which the kernel runs after the umount.                                 *)
(*                                                                         *)
(* A set of two SysV semaphores guards the region: semaphore 0 is a mutex, *)
(* semaphore 1 counts references.  The mutex and the references of tools   *)
(* are taken with SEM_UNDO, so the kernel returns them when their process  *)
(* dies.  The last user removes the region and then destroys the set;      *)
(* whoever waits for the mutex is woken with EIDRM and looks the set up    *)
(* again, whoever has looked it up and does not wait yet gets EINVAL.      *)
(***************************************************************************)
EXTENDS Naturals, FiniteSets

CONSTANTS
    Procs,      \* processes that run a tool, mount.ocfs2 or ocfs2_hb_ctl
    MaxLost,    \* bound: persistent references whose owner was killed
    Faults      \* what may go wrong

\* "die": a process is killed; "create", "remove": configfs or semctl() refuses;
\* "race": a tool is killed between another one's GETVAL and its semop();
\* "torn": a process is killed between mkdir() and the region's attributes;
\* "ref": semop() refuses to count another reference.
FaultKinds == {"die", "create", "remove", "race", "torn", "ref"}

ASSUME HbAssumption == IsFiniteSet(Procs) /\ MaxLost \in Nat /\ Faults \subseteq FaultKinds

VARIABLES
    sem,        \* the semaphore set of the region's key
    region,     \* the region's directory: "none", "dir" or "active" (dev attribute set)
    kern,       \* 1 while the kernel has the filesystem mounted
    lost,       \* persistent references nobody will return
    proc        \* the processes

vars == <<sem, region, kern, lost, proc>>

Idle == [pc |-> "idle", op |-> "none", persist |-> FALSE, stale |-> FALSE,
         ref |-> FALSE, hb_refs |-> 0, err |-> FALSE]

NoSem == [live |-> FALSE, mutex |-> 0, refs |-> 0]

Init ==
    /\ sem = NoSem /\ region = "none" /\ kern = 0 /\ lost = 0
    /\ proc = [p \in Procs |-> Idle]

\* p goes on at pc.
Goto(p, pc) == proc' = [proc EXCEPT ![p].pc = pc]

\* The processes that hold the mutex of some semaphore set.
Inside == {"mkdir", "attrs", "get_ref", "num_refs", "drop_ref", "remove", "destroy", "up"}

-----------------------------------------------------------------------------
(* Looking up the semaphore set and taking the mutex.                      *)

\* semget() with IPC_CREAT.
o2cb_get_semid(p) ==
    /\ proc[p].pc = "get_semid"
    /\ sem' = [sem EXCEPT !.live = TRUE]
    /\ proc' = [proc EXCEPT ![p].pc = IF proc[p].op = "info" THEN "get_num_refs" ELSE "down",
                            ![p].stale = FALSE]
    /\ UNCHANGED <<region, kern, lost>>

\* The call failed: o2cb_begin_group_join() or o2cb_group_leave() returns the error.  The
\* reference of a leaver stays behind.
Failed(p) ==
    /\ proc' = [proc EXCEPT ![p] = Idle]
    /\ lost' = lost + (IF proc[p].ref /\ proc[p].persist THEN 1 ELSE 0)

\* The semop() of o2cb_mutex_down(): wait for 0, add 1.
o2cb_mutex_down(p) ==
    /\ proc[p].pc \in {"down", "wait"} /\ ~proc[p].stale /\ sem.mutex = 0
    /\ sem' = [sem EXCEPT !.mutex = 1]
    /\ Goto(p, IF proc[p].op = "start" THEN "mkdir" ELSE "num_refs")
    /\ UNCHANGED <<region, kern, lost>>

o2cb_mutex_wait(p) ==
    /\ proc[p].pc = "down" /\ ~proc[p].stale /\ sem.mutex = 1
    /\ Goto(p, "wait")
    /\ UNCHANGED <<sem, region, kern, lost>>

\* EINVAL: the set was destroyed between semget() and semop().
o2cb_mutex_down_einval(p) ==
    /\ proc[p].pc = "down" /\ proc[p].stale
    /\ Failed(p)
    /\ UNCHANGED <<sem, region, kern>>

\* EIDRM: the set was destroyed while p was waiting; o2cb_mutex_down_lookup() loops.
o2cb_mutex_down_lookup(p) ==
    /\ proc[p].pc = "wait" /\ proc[p].stale
    /\ Goto(p, "get_semid")
    /\ UNCHANGED <<sem, region, kern, lost>>

\* Mutant: the mutex is kept when the call failed.
mutex_up_not_on_error(p) ==
    /\ proc[p].pc = "up"
    /\ sem' = [sem EXCEPT !.mutex = IF proc[p].err THEN @ ELSE 0]
    /\ IF proc[p].op = "start" /\ ~proc[p].err
       THEN Goto(p, "joined") /\ UNCHANGED lost
       ELSE Failed(p)
    /\ UNCHANGED <<region, kern>>

\* o2cb_mutex_up(), and the return from start or stop.
o2cb_mutex_up(p) ==
    /\ proc[p].pc = "up"
    /\ sem' = [sem EXCEPT !.mutex = 0]
    /\ IF proc[p].op = "start" /\ ~proc[p].err
       THEN Goto(p, "joined") /\ UNCHANGED lost
       ELSE Failed(p)
    /\ UNCHANGED <<region, kern>>

\* print_hb_ref_info() of ocfs2_hb_ctl: the count is read without the mutex.
o2cb_num_region_refs(p) ==
    /\ proc[p].pc = "get_num_refs"
    /\ proc' = [proc EXCEPT ![p] = Idle]
    /\ UNCHANGED <<sem, region, kern, lost>>


-----------------------------------------------------------------------------
(* o2cb_start_heartbeat().                                                 *)

\* mkdir() of the region, which may exist already.
create_heartbeat_region(p) ==
    /\ proc[p].pc = "mkdir"
    /\ \/ region = "none" /\ region' = "dir" /\ Goto(p, "attrs")
       \/ region # "none" /\ UNCHANGED region /\ Goto(p, "get_ref")
       \/ /\ "create" \in Faults /\ UNCHANGED region
          /\ proc' = [proc EXCEPT ![p].pc = "up", ![p].err = TRUE]
    /\ UNCHANGED <<sem, kern, lost>>

\* The attributes of a new region, "dev" last: this starts the heartbeat thread.  When one
\* cannot be written the directory is removed again.
set_region_attributes(p) ==
    /\ proc[p].pc = "attrs"
    /\ \/ region' = "active" /\ Goto(p, "get_ref")
       \/ /\ "create" \in Faults /\ region' = "none"
          /\ proc' = [proc EXCEPT ![p].pc = "up", ![p].err = TRUE]
    /\ UNCHANGED <<sem, kern, lost>>

\* A failure removes the region, no matter who created it.
get_ref(p) ==
    /\ proc[p].pc = "get_ref"
    /\ \/ /\ sem' = [sem EXCEPT !.refs = @ + 1]
          /\ proc' = [proc EXCEPT ![p].pc = "up", ![p].ref = TRUE]
          /\ UNCHANGED region
       \/ /\ "ref" \in Faults /\ region' = "none" /\ UNCHANGED sem
          /\ proc' = [proc EXCEPT ![p].pc = "up", ![p].err = TRUE]
    /\ UNCHANGED <<kern, lost>>

-----------------------------------------------------------------------------
(* o2cb_stop_heartbeat().                                                  *)

\* GETVAL of the references; a process that died may have left none.
get_num_refs(p) ==
    /\ proc[p].pc = "num_refs"
    /\ proc' = [proc EXCEPT ![p].pc = IF sem.refs > 0 THEN "drop_ref" ELSE "remove",
                            ![p].hb_refs = sem.refs]
    /\ UNCHANGED <<sem, region, kern, lost>>

\* Mutant: the remaining references are not looked at.
drop_ref_always_removes(p) ==
    /\ proc[p].pc = "drop_ref" /\ sem.refs > 0
    /\ sem' = [sem EXCEPT !.refs = @ - 1]
    /\ proc' = [proc EXCEPT ![p].pc = "remove", ![p].hb_refs = @ - 1, ![p].ref = FALSE]
    /\ UNCHANGED <<region, kern, lost>>

\* The semop() would wait for a reference if there were none.  What is left is not read
\* again but computed.
drop_ref(p) ==
    /\ proc[p].pc = "drop_ref" /\ sem.refs > 0
    /\ sem' = [sem EXCEPT !.refs = @ - 1]
    /\ proc' = [proc EXCEPT ![p].pc = IF proc[p].hb_refs = 1 THEN "remove" ELSE "up",
                            ![p].hb_refs = @ - 1, ![p].ref = FALSE]
    /\ UNCHANGED <<region, kern, lost>>

\* rmdir() of the region.
remove_heartbeat_region(p) ==
    /\ proc[p].pc = "remove"
    /\ \/ region # "none" /\ region' = "none" /\ Goto(p, "destroy")
       \/ /\ region = "none" \/ "remove" \in Faults
          /\ UNCHANGED region
          /\ proc' = [proc EXCEPT ![p].pc = "up", ![p].err = TRUE]
    /\ UNCHANGED <<sem, kern, lost>>

\* Mutant: "goto done" is missing after the set was destroyed.
destroy_sem_set_then_up(p) ==
    /\ proc[p].pc = "destroy"
    /\ sem' = NoSem
    /\ proc' = [q \in Procs |->
                  IF q = p THEN [proc[q] EXCEPT !.pc = "up"]
                  ELSE [proc[q] EXCEPT !.stale = @ \/ proc[q].pc \in {"down", "wait"}]]
    /\ UNCHANGED <<region, kern, lost>>

\* IPC_RMID, which takes the held mutex along.
destroy_sem_set(p) ==
    /\ proc[p].pc = "destroy"
    /\ \/ /\ sem' = NoSem
          /\ proc' = [q \in Procs |->
                        IF q = p THEN Idle
                        ELSE [proc[q] EXCEPT !.stale = @ \/ proc[q].pc \in {"down", "wait"}]]
       \/ /\ "remove" \in Faults /\ UNCHANGED sem
          /\ proc' = [proc EXCEPT ![p].pc = "up", ![p].err = TRUE]
    /\ UNCHANGED <<region, kern, lost>>

-----------------------------------------------------------------------------
(* The callers.                                                            *)

Begin(p, op, persist) ==
    proc' = [proc EXCEPT ![p].pc = "get_semid", ![p].op = op, ![p].persist = persist]

\* A tool or mount.ocfs2 starts heartbeat; "ocfs2_hb_ctl -I" asks for the number of
\* references.
begin_group_join(p) ==
    /\ proc[p].pc = "idle"
    /\ \/ \E persist \in BOOLEAN : Begin(p, "start", persist)
       \/ Begin(p, "info", FALSE)
    /\ UNCHANGED <<sem, region, kern, lost>>

\* mount(2), which refuses a second mount.  classic_complete_group_join() leaves the group
\* when it failed.
mount(p) ==
    /\ proc[p].pc = "joined" /\ proc[p].persist
    /\ \/ /\ kern = 0 /\ kern' = 1
          /\ proc' = [proc EXCEPT ![p] = Idle]
       \/ Begin(p, "stop", TRUE) /\ UNCHANGED kern
    /\ UNCHANGED <<sem, region, lost>>

\* The kernel runs "ocfs2_hb_ctl -K" once the filesystem is gone.
umount(p) ==
    /\ kern = 1 /\ proc[p].pc = "idle"
    /\ kern' = 0
    /\ proc' = [proc EXCEPT ![p].pc = "get_semid", ![p].op = "stop", ![p].persist = TRUE,
                            ![p].ref = TRUE]
    /\ UNCHANGED <<sem, region, lost>>

\* ocfs2_shutdown_dlm() of a tool, or a failed o2dlm_initialize().
shutdown_dlm(p) ==
    /\ proc[p].pc = "joined" /\ ~proc[p].persist
    /\ Begin(p, "stop", FALSE)
    /\ UNCHANGED <<sem, region, kern, lost>>

\* p is killed: the kernel undoes the mutex and the reference of a tool; a persistent
\* reference stays.
die(p) ==
    /\ "die" \in Faults /\ proc[p].pc # "idle"
    /\ proc[p].pc = "attrs" => "torn" \in Faults
    /\ proc[p].ref /\ ~proc[p].persist /\ (\E q \in Procs \ {p} : proc[q].pc = "drop_ref")
          => "race" \in Faults
    /\ sem' = [sem EXCEPT !.mutex = IF proc[p].pc \in Inside THEN 0 ELSE @,
                          !.refs = IF proc[p].ref /\ ~proc[p].persist THEN @ - 1 ELSE @]
    /\ Failed(p) /\ lost' <= MaxLost
    /\ UNCHANGED <<region, kern>>

Lookup(p) ==
    \/ o2cb_get_semid(p) \/ o2cb_mutex_wait(p) \/ o2cb_mutex_down_einval(p)
    \/ o2cb_mutex_down_lookup(p) \/ o2cb_num_region_refs(p)

start_heartbeat(p) ==
    create_heartbeat_region(p) \/ set_region_attributes(p) \/ get_ref(p)

stop_heartbeat(p) ==
    get_num_refs(p) \/ drop_ref(p) \/ remove_heartbeat_region(p) \/ destroy_sem_set(p)

Step(p) == Lookup(p) \/ start_heartbeat(p) \/ stop_heartbeat(p) \/ o2cb_mutex_up(p)

User(p) == begin_group_join(p) \/ mount(p) \/ umount(p) \/ shutdown_dlm(p)

Next == \E p \in Procs : Step(p) \/ o2cb_mutex_down(p) \/ User(p) \/ die(p)

Spec == Init /\ [][Next]_vars

\* A process that is not killed keeps running; the kernel serves the waiters of a semaphore
\* in turn.
FairSpec ==
    Spec /\ \A p \in Procs : WF_vars(Step(p)) /\ SF_vars(o2cb_mutex_down(p))

-----------------------------------------------------------------------------
(* Properties.                                                             *)

Pcs == Inside \cup {"idle", "get_semid", "down", "wait", "get_num_refs", "joined"}

\* Types of the semaphores, the region, the mount and the processes of o2cb_abi.c.
TypeOK ==
    /\ sem \in [live : BOOLEAN, mutex : 0..1, refs : Nat]
    /\ region \in {"none", "dir", "active"}
    /\ kern \in 0..1 /\ lost \in Nat
    /\ proc \in [Procs -> [pc : Pcs, op : {"none", "start", "stop", "info"}, persist : BOOLEAN,
                           stale : BOOLEAN, ref : BOOLEAN, hb_refs : Nat, err : BOOLEAN]]

\* The references the users of the region are entitled to.
Owed == kern + lost + Cardinality({p \in Procs : proc[p].ref})

\* The semaphore counts exactly the users, through deaths, failed calls and the destruction
\* and re-creation of the set by o2cb_stop_heartbeat() and o2cb_start_heartbeat().
RefsCounted == sem.refs = Owed

\* Whoever has been told that heartbeat runs (the kernel's mount, a tool that goes on, a
\* mount.ocfs2 about to call mount(2)) has it until they stop it themselves.
Heartbeating == Owed > 0 => region = "active"

\* Across destroyed and new semaphore sets, one process at a time is between
\* o2cb_mutex_down() and o2cb_mutex_up().
Exclusive ==
    \A p, q \in Procs : proc[p].pc \in Inside /\ proc[q].pc \in Inside => p = q

\* o2cb_stop_heartbeat() of a process that holds a reference finds the set it counted in: it
\* cannot be destroyed between its semget() and its semop().
LeaverFinds == \A p \in Procs : proc[p].ref => ~proc[p].stale

\* o2cb_stop_heartbeat() keeps the region only while somebody else has a reference: "this was
\* atomic so we know what the new value must be".
LastRemoves ==
    [][\A p \in Procs :
         proc[p].pc = "drop_ref" /\ proc'[p].pc = "up" => sem'.refs > 0]_vars

\* A process that starts or stops heartbeat returns, whoever dies with the mutex, unless
\* o2cb_mutex_down_lookup() meets a destroyed set again and again.
Returns ==
    \A p \in Procs :
      <>[](~proc[p].stale) => (proc[p].pc # "idle" ~> proc[p].pc \in {"idle", "joined"})

=============================================================================
