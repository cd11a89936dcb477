-------------------------- MODULE HbRegion_proofs --------------------------
(***************************************************************************)
(* For every set of processes, wherever they are killed: the semaphore     *)
(* counts the users of the heartbeat region, the region lives as long as   *)
(* one of them needs it, and one process at a time works on it, although   *)
(* the semaphores themselves are destroyed and created again.              *)
(*                                                                         *)
(* None of this is inductive alone.  ProcOK says, for each place in the    *)
(* code, what the process there knows: that it holds the mutex, whether a  *)
(* reference is its own, and what the region and the count must be.        *)
(***************************************************************************)
EXTENDS HbRegion, FiniteSetTheorems, TLAPS

\* A process is not killed inside o2cb_create_heartbeat_region(), and the semaphore can
\* count another reference.
WholeRegions == Faults \subseteq {"die", "create", "remove", "race"}

ProcType == [pc : Pcs, op : {"none", "start", "stop", "info"}, persist : BOOLEAN,
             stale : BOOLEAN, ref : BOOLEAN, hb_refs : Nat, err : BOOLEAN]

RefSet == {p \in Procs : proc[p].ref}

\* Which operation a process at pc is in, and whether it has a reference.
PlaceOK(p) ==
    /\ proc[p].pc = "idle" => proc[p] = Idle
    /\ proc[p].pc = "get_semid" => proc[p].op # "none" /\ (proc[p].ref <=> proc[p].op = "stop")
    /\ proc[p].pc \in {"down", "wait"} =>
         /\ proc[p].op \in {"start", "stop"}
         /\ proc[p].ref <=> proc[p].op = "stop"
    /\ proc[p].pc = "get_num_refs" => ~proc[p].ref
    /\ proc[p].pc \in {"mkdir", "attrs", "get_ref"} => proc[p].op = "start" /\ ~proc[p].ref
    /\ proc[p].pc \in {"num_refs", "drop_ref"} => proc[p].op = "stop" /\ proc[p].ref
    /\ proc[p].pc \in {"remove", "destroy"} => proc[p].op = "stop" /\ ~proc[p].ref
    /\ proc[p].pc = "up" => (proc[p].ref <=> proc[p].op = "start" /\ ~proc[p].err)
    /\ proc[p].pc = "joined" => proc[p].ref
    /\ proc[p].err => proc[p].pc = "up"
    /\ proc[p].stale => proc[p].pc \in {"get_semid", "down", "wait"} /\ ~proc[p].ref

\* What a process that holds the mutex knows of the region and the count.
HolderOK(p) ==
    /\ proc[p].pc \in Inside => sem.mutex = 1
    /\ proc[p].pc = "attrs" => sem.refs = 0
    /\ proc[p].pc = "get_ref" => region = "active"
    /\ proc[p].pc = "drop_ref" =>
         /\ proc[p].hb_refs >= sem.refs
         /\ "race" \notin Faults => proc[p].hb_refs = sem.refs
    /\ proc[p].pc \in {"remove", "destroy"} => sem.refs = 0

ProcOK == \A p \in Procs : PlaceOK(p) /\ HolderOK(p)

\* A directory without heartbeat is being worked on.
RegionOK ==
    /\ region = "dir" => \E p \in Procs : proc[p].pc = "attrs"
    /\ sem.refs > 0 => region = "active"

IInv == TypeOK /\ Exclusive /\ ProcOK /\ RegionOK /\ RefsCounted

-----------------------------------------------------------------------------
(* Counting references.                                                    *)

\* Owed is a sum of numbers.
LEMMA OwedType ==
    ASSUME TypeOK
    PROVE  /\ IsFiniteSet(RefSet) /\ Cardinality(RefSet) \in Nat
           /\ Owed = kern + lost + Cardinality(RefSet)
<1>1. RefSet \subseteq Procs /\ IsFiniteSet(Procs)
  BY Zenon, HbAssumption DEF RefSet
<1>2. IsFiniteSet(RefSet)
  BY Zenon, <1>1, FS_Subset
<1>3. QED
  BY Zenon, <1>2, FS_CardinalityType DEF RefSet, Owed

\* A user of the region is counted.
LEMMA CountedOne ==
    ASSUME TypeOK, RefsCounted, NEW p \in Procs, proc[p].ref
    PROVE  sem.refs > 0
<1>1. p \in RefSet
  BY Zenon DEF RefSet
<1>2. Cardinality(RefSet) # 0
  BY Zenon, <1>1, OwedType, FS_EmptySet
<1>3. QED
  BY <1>2, OwedType DEF RefsCounted, TypeOK

\* A step that changes no reference, count or mount keeps the semaphore exact.
LEMMA CountSame ==
    ASSUME RefsCounted, \A p \in Procs : proc'[p].ref = proc[p].ref,
           kern' = kern, lost' = lost, sem'.refs = sem.refs
    PROVE  RefsCounted'
<1>1. {p \in Procs : proc'[p].ref} = {p \in Procs : proc[p].ref}
  BY Zenon
<1>2. QED
  BY Zenon, <1>1 DEF RefsCounted, Owed

\* A process that gets a reference adds one to the number of holders.
LEMMA CountAdd ==
    ASSUME TypeOK, NEW p \in Procs, ~proc[p].ref, proc'[p].ref = TRUE,
           \A q \in Procs \ {p} : proc'[q].ref = proc[q].ref
    PROVE  Owed' = kern' + lost' + (Cardinality(RefSet) + 1)
<1>1. RefSet' = RefSet \cup {p} /\ p \notin RefSet
  BY Zenon DEF RefSet
<1>2. Cardinality(RefSet') = Cardinality(RefSet) + 1
  BY Zenon, <1>1, OwedType, FS_AddElement
<1>3. QED
  BY Zenon, <1>2, OwedType DEF RefSet, Owed

\* A process that loses its reference takes one off the number of holders.
LEMMA CountDrop ==
    ASSUME TypeOK, NEW p \in Procs, proc[p].ref, proc'[p].ref = FALSE,
           \A q \in Procs \ {p} : proc'[q].ref = proc[q].ref
    PROVE  Owed' = kern' + lost' + (Cardinality(RefSet) - 1)
<1>1. RefSet' = RefSet \ {p} /\ p \in RefSet
  BY Zenon DEF RefSet
<1>2. Cardinality(RefSet') = Cardinality(RefSet) - 1
  BY Zenon, <1>1, OwedType, FS_RemoveElement
<1>3. QED
  BY Zenon, <1>2, OwedType DEF RefSet, Owed

-----------------------------------------------------------------------------
(* The steps of one process.                                               *)

\* A process that moves on stays a process.
LEMMA MoveType ==
    ASSUME TypeOK, NEW p \in Procs, NEW r \in ProcType, proc' = [proc EXCEPT ![p] = r]
    PROVE  proc' \in [Procs -> ProcType] /\ proc'[p] = r
  BY Zenon DEF TypeOK, ProcType

\* A step of p keeps the invariant when it leaves the other processes where they are, what
\* the holder of the mutex knows stays true, and p enters only when nobody is inside.
LEMMA Moves ==
    ASSUME IInv, NEW p \in Procs, TypeOK',
           \A q \in Procs \ {p} : proc'[q] = proc[q],
           PlaceOK(p)', \A q \in Procs : HolderOK(q)',
           proc'[p].pc \in Inside => proc[p].pc \in Inside \/ sem.mutex = 0,
           RegionOK', RefsCounted'
    PROVE  IInv'
<1>1. Exclusive'
  <2> SUFFICES ASSUME NEW q \in Procs, NEW r \in Procs, proc'[q].pc \in Inside,
                      proc'[r].pc \in Inside, q # r
               PROVE  FALSE
    BY Zenon DEF Exclusive
  <2>1. \A x \in Procs : proc[x].pc \in Inside => sem.mutex = 1
    BY Zenon DEF IInv, ProcOK, HolderOK
  <2>2. QED
    BY <2>1 DEF IInv, Exclusive
<1>2. \A q \in Procs : PlaceOK(q)'
  BY DEF IInv, ProcOK, PlaceOK
<1>3. QED
  BY Zenon, <1>1, <1>2 DEF IInv, ProcOK

\* o2cb_get_semid() creates a set, or finds one.
LEMMA GetSemidInv ==
    ASSUME IInv, NEW p \in Procs, o2cb_get_semid(p)
    PROVE  IInv'
<1> DEFINE r == [proc[p] EXCEPT !.pc = IF proc[p].op = "info" THEN "get_num_refs" ELSE "down",
                              !.stale = FALSE]
<1>0. proc' = [proc EXCEPT ![p] = r]
  BY Zenon DEF o2cb_get_semid, IInv, TypeOK
<1>r. r \in ProcType /\ proc[p] \in ProcType
  <2>1. proc[p] \in ProcType
    BY Zenon DEF IInv, TypeOK, ProcType
  <2>2. (IF proc[p].op = "info" THEN "get_num_refs" ELSE "down") \in Pcs
    BY Zenon DEF Pcs, Inside
  <2>3. QED
    BY Zenon, <2>1, <2>2 DEF ProcType
<1>1. TypeOK'
  <2>1. proc' \in [Procs -> ProcType]
    BY Zenon, <1>0, <1>r, MoveType DEF IInv
  <2>2. sem' \in [live : BOOLEAN, mutex : 0..1, refs : Nat]
    BY Zenon DEF IInv, TypeOK, o2cb_get_semid
  <2>3. QED
    BY Zenon, <2>1, <2>2 DEF IInv, TypeOK, o2cb_get_semid, ProcType
<1>2. \A q \in Procs \ {p} : proc'[q] = proc[q]
  BY Zenon DEF IInv, TypeOK, o2cb_get_semid, Goto
<1>3. PlaceOK(p)'
  <2>1. proc'[p] = r
    BY Zenon, <1>0, <1>r, MoveType DEF IInv
  <2>2. /\ r.ref = proc[p].ref /\ r.op = proc[p].op /\ r.err = proc[p].err
        /\ r.stale = FALSE /\ r.pc = IF proc[p].op = "info" THEN "get_num_refs" ELSE "down"
    BY Zenon, <1>r DEF ProcType
  <2>3. PlaceOK(p) /\ proc[p].pc = "get_semid" /\ proc[p] \in ProcType
    BY Zenon, <1>r DEF IInv, ProcOK, o2cb_get_semid
  <2> HIDE DEF r
  <2>4. QED
    BY Zenon, <2>1, <2>2, <2>3 DEF ProcType, PlaceOK, Inside
<1>4. \A q \in Procs : HolderOK(q)'
  BY <1>2 DEF IInv, TypeOK, ProcOK, HolderOK, Exclusive, o2cb_get_semid, Goto, Inside
<1>5. RegionOK'
  BY Zenon, <1>2 DEF IInv, TypeOK, ProcOK, RegionOK, o2cb_get_semid, Goto
<1>6. RefsCounted'
  BY <1>2, CountSame DEF IInv, TypeOK, o2cb_get_semid, Goto
<1>7. QED
  BY ZenonT(30), <1>1, <1>2, <1>3, <1>4, <1>5, <1>6, Moves DEF o2cb_get_semid, Goto, Inside, IInv, TypeOK

\* o2cb_mutex_down() enters alone.
LEMMA MutexDownInv ==
    ASSUME IInv, NEW p \in Procs, o2cb_mutex_down(p)
    PROVE  IInv'
<1>1. TypeOK'
  BY DEF IInv, TypeOK, o2cb_mutex_down, Goto, Pcs, Inside
<1>2. \A q \in Procs \ {p} : proc'[q] = proc[q]
  BY Zenon DEF IInv, TypeOK, o2cb_mutex_down, Goto
<1>3. PlaceOK(p)'
  BY DEF IInv, TypeOK, ProcOK, PlaceOK, o2cb_mutex_down, Goto, Inside
<1>4. \A q \in Procs : HolderOK(q)'
  BY <1>2 DEF IInv, TypeOK, ProcOK, HolderOK, Exclusive, o2cb_mutex_down, Goto, Inside
<1>5. RegionOK'
  BY Zenon, <1>2 DEF IInv, TypeOK, ProcOK, RegionOK, o2cb_mutex_down, Goto
<1>6. RefsCounted'
  BY <1>2, CountSame DEF IInv, TypeOK, o2cb_mutex_down, Goto
<1>7. QED
  BY Zenon, <1>1, <1>2, <1>3, <1>4, <1>5, <1>6, Moves DEF o2cb_mutex_down, Goto, Inside, IInv, TypeOK

\* Waiting for the mutex changes nothing else.
LEMMA MutexWaitInv ==
    ASSUME IInv, NEW p \in Procs, o2cb_mutex_wait(p)
    PROVE  IInv'
<1>1. TypeOK'
  BY DEF IInv, TypeOK, o2cb_mutex_wait, Goto, Pcs, Inside
<1>2. \A q \in Procs \ {p} : proc'[q] = proc[q]
  BY Zenon DEF IInv, TypeOK, o2cb_mutex_wait, Goto
<1>3. PlaceOK(p)'
  BY DEF IInv, TypeOK, ProcOK, PlaceOK, o2cb_mutex_wait, Goto, Inside
<1>4. \A q \in Procs : HolderOK(q)'
  BY <1>2 DEF IInv, TypeOK, ProcOK, HolderOK, Exclusive, o2cb_mutex_wait, Goto, Inside
<1>5. RegionOK'
  BY Zenon, <1>2 DEF IInv, TypeOK, ProcOK, RegionOK, o2cb_mutex_wait, Goto
<1>6. RefsCounted'
  BY Zenon, <1>2, CountSame DEF IInv, TypeOK, o2cb_mutex_wait, Goto
<1>7. QED
  BY <1>1, <1>2, <1>3, <1>4, <1>5, <1>6, Moves DEF o2cb_mutex_wait, Goto, Inside, IInv, TypeOK

\* A process that meets EINVAL holds no reference that could be lost.
LEMMA EinvalInv ==
    ASSUME IInv, NEW p \in Procs, o2cb_mutex_down_einval(p)
    PROVE  IInv'
<1>1. TypeOK'
  BY DEF IInv, TypeOK, o2cb_mutex_down_einval, Goto, Pcs, Inside, Failed, Idle, ProcOK, PlaceOK
<1>2. \A q \in Procs \ {p} : proc'[q] = proc[q]
  BY Zenon DEF IInv, TypeOK, o2cb_mutex_down_einval, Goto, Failed, Idle, ProcOK, PlaceOK
<1>3. PlaceOK(p)'
  BY Zenon DEF IInv, TypeOK, ProcOK, PlaceOK, o2cb_mutex_down_einval, Goto, Inside, Failed, Idle, ProcOK, PlaceOK
<1>4. \A q \in Procs : HolderOK(q)'
  BY <1>2 DEF IInv, TypeOK, ProcOK, HolderOK, Exclusive, o2cb_mutex_down_einval, Goto, Inside, Failed, Idle, ProcOK, PlaceOK
<1>5. RegionOK'
  BY Zenon, <1>2 DEF IInv, TypeOK, ProcOK, RegionOK, o2cb_mutex_down_einval, Goto, Failed, Idle, ProcOK, PlaceOK
<1>6. RefsCounted'
  <2>1. ~proc[p].ref
    BY Zenon DEF IInv, ProcOK, PlaceOK, o2cb_mutex_down_einval
  <2>2. proc'[p].ref = FALSE /\ lost' = lost
    BY <2>1 DEF IInv, TypeOK, o2cb_mutex_down_einval, Failed, Idle
  <2>3. QED
    BY Zenon, <1>2, <2>1, <2>2, CountSame DEF IInv, TypeOK, o2cb_mutex_down_einval
<1>7. proc'[p].pc \notin Inside
  BY Zenon DEF o2cb_mutex_down_einval, Failed, Idle, Inside, IInv, TypeOK
<1>8. QED
  BY Zenon, <1>1, <1>2, <1>3, <1>4, <1>5, <1>6, <1>7, Moves

\* After EIDRM the set is looked up again.
LEMMA EidrmInv ==
    ASSUME IInv, NEW p \in Procs, o2cb_mutex_down_lookup(p)
    PROVE  IInv'
<1>1. TypeOK'
  BY DEF IInv, TypeOK, o2cb_mutex_down_lookup, Goto, Pcs, Inside
<1>2. \A q \in Procs \ {p} : proc'[q] = proc[q]
  BY Zenon DEF IInv, TypeOK, o2cb_mutex_down_lookup, Goto
<1>3. PlaceOK(p)'
  BY DEF IInv, TypeOK, ProcOK, PlaceOK, o2cb_mutex_down_lookup, Goto, Inside
<1>4. \A q \in Procs : HolderOK(q)'
  BY <1>2 DEF IInv, TypeOK, ProcOK, HolderOK, Exclusive, o2cb_mutex_down_lookup, Goto, Inside
<1>5. RegionOK'
  BY Zenon, <1>2 DEF IInv, TypeOK, ProcOK, RegionOK, o2cb_mutex_down_lookup, Goto
<1>6. RefsCounted'
  BY Zenon, <1>2, CountSame DEF IInv, TypeOK, o2cb_mutex_down_lookup, Goto
<1>7. QED
  BY <1>1, <1>2, <1>3, <1>4, <1>5, <1>6, Moves DEF o2cb_mutex_down_lookup, Goto, Inside, IInv, TypeOK

\* o2cb_mutex_up() leaves, and a call that failed has no reference.
LEMMA MutexUpInv ==
    ASSUME IInv, NEW p \in Procs, o2cb_mutex_up(p)
    PROVE  IInv'
<1>1. TypeOK'
  <2>1. CASE proc[p].op = "start" /\ ~proc[p].err
    BY <2>1 DEF IInv, TypeOK, o2cb_mutex_up, Goto, Pcs, Inside
  <2>2. CASE ~(proc[p].op = "start" /\ ~proc[p].err)
    <3>1. ~proc[p].ref
      BY Zenon, <2>2 DEF IInv, ProcOK, PlaceOK, o2cb_mutex_up
    <3>2. proc' = [proc EXCEPT ![p] = Idle] /\ lost' = lost
      BY <2>2, <3>1 DEF o2cb_mutex_up, Failed, IInv, TypeOK
    <3>3. QED
      BY <3>2 DEF IInv, TypeOK, o2cb_mutex_up, Goto, Pcs, Inside, Idle
  <2>3. QED
    BY Zenon, <2>1, <2>2
<1>2. \A q \in Procs \ {p} : proc'[q] = proc[q]
  BY Zenon DEF IInv, TypeOK, o2cb_mutex_up, Goto, Failed, Idle, ProcOK, PlaceOK
<1>3. PlaceOK(p)'
  <2>1. CASE proc[p].op = "start" /\ ~proc[p].err
    BY <2>1 DEF IInv, TypeOK, ProcOK, PlaceOK, o2cb_mutex_up, Goto, Inside
  <2>2. CASE ~(proc[p].op = "start" /\ ~proc[p].err)
    <3>1. ~proc[p].ref
      BY Zenon, <2>2 DEF IInv, ProcOK, PlaceOK, o2cb_mutex_up
    <3>2. proc' = [proc EXCEPT ![p] = Idle] /\ lost' = lost
      BY <2>2, <3>1 DEF o2cb_mutex_up, Failed, IInv, TypeOK
    <3>3. QED
      BY Zenon, <3>2 DEF IInv, TypeOK, ProcOK, PlaceOK, o2cb_mutex_up, Goto, Inside, Idle
  <2>3. QED
    BY Zenon, <2>1, <2>2
<1>4. \A q \in Procs : HolderOK(q)'
  BY <1>2 DEF IInv, TypeOK, ProcOK, HolderOK, Exclusive, o2cb_mutex_up, Goto, Inside, Failed, Idle, ProcOK, PlaceOK
<1>5. RegionOK'
  BY Zenon, <1>2 DEF IInv, TypeOK, ProcOK, RegionOK, o2cb_mutex_up, Goto, Failed, Idle, ProcOK, PlaceOK
<1>6. RefsCounted'
  <2>1. proc[p].ref <=> proc[p].op = "start" /\ ~proc[p].err
    BY Zenon DEF IInv, ProcOK, PlaceOK, o2cb_mutex_up
  <2>2. CASE proc[p].op = "start" /\ ~proc[p].err
    BY <1>2, <2>2, CountSame DEF IInv, TypeOK, o2cb_mutex_up, Goto
  <2>3. CASE ~(proc[p].op = "start" /\ ~proc[p].err)
    <3>1. proc'[p].ref = FALSE /\ lost' = lost /\ proc[p].ref = FALSE
      BY <2>1, <2>3 DEF IInv, TypeOK, o2cb_mutex_up, Failed, Idle
    <3>2. QED
      BY Zenon, <1>2, <3>1, CountSame DEF IInv, TypeOK, o2cb_mutex_up
  <2>4. QED
    BY Zenon, <2>2, <2>3
<1>7. QED
  BY Zenon, <1>1, <1>2, <1>3, <1>4, <1>5, <1>6, Moves DEF o2cb_mutex_up, Goto, Inside, IInv, TypeOK, Failed, Idle, ProcOK, PlaceOK

\* Asking for the number of references changes nothing.
LEMMA NumRegionRefsInv ==
    ASSUME IInv, NEW p \in Procs, o2cb_num_region_refs(p)
    PROVE  IInv'
<1>1. TypeOK'
  BY Zenon DEF IInv, TypeOK, o2cb_num_region_refs, Goto, Pcs, Inside, Idle, ProcOK, PlaceOK
<1>2. \A q \in Procs \ {p} : proc'[q] = proc[q]
  BY Zenon DEF IInv, TypeOK, o2cb_num_region_refs, Goto, Idle, ProcOK, PlaceOK
<1>3. PlaceOK(p)'
  BY Zenon DEF IInv, TypeOK, ProcOK, PlaceOK, o2cb_num_region_refs, Goto, Inside, Idle, ProcOK, PlaceOK
<1>4. \A q \in Procs : HolderOK(q)'
  BY Zenon, <1>2 DEF IInv, TypeOK, ProcOK, HolderOK, Exclusive, o2cb_num_region_refs, Goto, Inside, Idle, ProcOK, PlaceOK
<1>5. RegionOK'
  BY Zenon, <1>2 DEF IInv, TypeOK, ProcOK, RegionOK, o2cb_num_region_refs, Goto, Idle, ProcOK, PlaceOK
<1>6. RefsCounted'
  BY ZenonT(30), <1>2, CountSame DEF IInv, TypeOK, o2cb_num_region_refs, Goto, Idle, ProcOK, PlaceOK
<1>7. proc'[p].pc \notin Inside
  BY Zenon DEF o2cb_num_region_refs, Idle, Inside, IInv, TypeOK
<1>8. QED
  BY Zenon, <1>1, <1>2, <1>3, <1>4, <1>5, <1>6, <1>7, Moves

\* A region that exists when the mutex is held has its heartbeat.
LEMMA CreateInv ==
    ASSUME IInv, NEW p \in Procs, create_heartbeat_region(p)
    PROVE  IInv'
<1>1. TypeOK'
  BY DEF IInv, TypeOK, create_heartbeat_region, Goto, Pcs, Inside
<1>2. \A q \in Procs \ {p} : proc'[q] = proc[q]
  BY Zenon DEF IInv, TypeOK, create_heartbeat_region, Goto
<1>3. PlaceOK(p)'
  BY DEF IInv, TypeOK, ProcOK, PlaceOK, create_heartbeat_region, Goto, Inside
<1>4. \A q \in Procs : HolderOK(q)'
  <2>1. region # "none" => region = "active"
    BY Zenon DEF IInv, TypeOK, RegionOK, Exclusive, Inside, create_heartbeat_region
  <2>2. QED
    BY <1>2, <2>1 DEF IInv, TypeOK, ProcOK, HolderOK, RegionOK, Exclusive, Goto, Inside,
                      create_heartbeat_region
<1>5. RegionOK'
  BY Zenon, <1>2 DEF IInv, TypeOK, ProcOK, RegionOK, create_heartbeat_region, Goto
<1>6. RefsCounted'
  BY <1>2, CountSame DEF IInv, TypeOK, create_heartbeat_region, Goto
<1>7. QED
  BY Zenon, <1>1, <1>2, <1>3, <1>4, <1>5, <1>6, Moves DEF create_heartbeat_region, Goto, Inside, IInv, TypeOK

\* The attributes start the heartbeat, or the directory goes away with nobody using it.
LEMMA AttributesInv ==
    ASSUME IInv, NEW p \in Procs, set_region_attributes(p)
    PROVE  IInv'
<1>1. TypeOK'
  BY DEF IInv, TypeOK, set_region_attributes, Goto, Pcs, Inside
<1>2. \A q \in Procs \ {p} : proc'[q] = proc[q]
  BY Zenon DEF IInv, TypeOK, set_region_attributes, Goto
<1>3. PlaceOK(p)'
  BY DEF IInv, TypeOK, ProcOK, PlaceOK, set_region_attributes, Goto, Inside
<1>4. \A q \in Procs : HolderOK(q)'
  BY <1>2 DEF IInv, TypeOK, ProcOK, HolderOK, Exclusive, set_region_attributes, Goto, Inside
<1>5. RegionOK'
  BY <1>2 DEF IInv, TypeOK, ProcOK, HolderOK, RegionOK, set_region_attributes, Goto
<1>6. RefsCounted'
  BY <1>2, CountSame DEF IInv, TypeOK, set_region_attributes, Goto
<1>7. QED
  BY Zenon, <1>1, <1>2, <1>3, <1>4, <1>5, <1>6, Moves DEF set_region_attributes, Goto, Inside, IInv, TypeOK

\* GETVAL under the mutex is at least what is left when it is used.
LEMMA GetNumRefsInv ==
    ASSUME IInv, NEW p \in Procs, get_num_refs(p)
    PROVE  IInv'
<1> DEFINE r == [proc[p] EXCEPT !.pc = IF sem.refs > 0 THEN "drop_ref" ELSE "remove",
                              !.hb_refs = sem.refs]
<1>0. proc' = [proc EXCEPT ![p] = r]
  BY Zenon DEF get_num_refs, IInv, TypeOK
<1>r. r \in ProcType /\ proc[p] \in ProcType
  <2>1. proc[p] \in ProcType /\ sem.refs \in Nat
    BY Zenon DEF IInv, TypeOK, ProcType
  <2>2. (IF sem.refs > 0 THEN "drop_ref" ELSE "remove") \in Pcs
    BY Zenon DEF Pcs, Inside
  <2>3. QED
    BY Zenon, <2>1, <2>2 DEF ProcType
<1>1. TypeOK'
  <2>1. proc' \in [Procs -> ProcType]
    BY Zenon, <1>0, <1>r, MoveType DEF IInv
  <2>2. sem' \in [live : BOOLEAN, mutex : 0..1, refs : Nat]
    BY Zenon DEF IInv, TypeOK, get_num_refs
  <2>3. QED
    BY Zenon, <2>1, <2>2 DEF IInv, TypeOK, get_num_refs, ProcType
<1>2. \A q \in Procs \ {p} : proc'[q] = proc[q]
  BY Zenon DEF IInv, TypeOK, get_num_refs, Goto
<1>3. PlaceOK(p)'
  <2>1. proc'[p] = r
    BY Zenon, <1>0, <1>r, MoveType DEF IInv
  <2>2. /\ r.ref = proc[p].ref /\ r.op = proc[p].op /\ r.err = proc[p].err
        /\ r.stale = proc[p].stale /\ r.pc = IF sem.refs > 0 THEN "drop_ref" ELSE "remove"
    BY Zenon, <1>r DEF ProcType
  <2>3. PlaceOK(p) /\ proc[p].pc = "num_refs" /\ proc[p] \in ProcType
    BY Zenon, <1>r DEF IInv, ProcOK, get_num_refs
  <2>4. sem.refs > 0
    BY Zenon, <2>3, CountedOne DEF IInv, PlaceOK
  <2> HIDE DEF r
  <2>5. QED
    BY Zenon, <2>1, <2>2, <2>3, <2>4 DEF ProcType, PlaceOK, Inside
<1>4. \A q \in Procs : HolderOK(q)'
  BY <1>2 DEF IInv, TypeOK, ProcOK, HolderOK, Exclusive, get_num_refs, Goto, Inside
<1>5. RegionOK'
  BY Zenon, <1>2 DEF IInv, TypeOK, ProcOK, RegionOK, get_num_refs, Goto
<1>6. RefsCounted'
  BY <1>2, CountSame DEF IInv, TypeOK, get_num_refs, Goto
<1>7. QED
  BY Zenon, <1>1, <1>2, <1>3, <1>4, <1>5, <1>6, Moves DEF get_num_refs, Goto, Inside, IInv, TypeOK

\* The region is removed with no reference left.
LEMMA RemoveInv ==
    ASSUME IInv, NEW p \in Procs, remove_heartbeat_region(p)
    PROVE  IInv'
<1>1. TypeOK'
  BY DEF IInv, TypeOK, remove_heartbeat_region, Goto, Pcs, Inside
<1>2. \A q \in Procs \ {p} : proc'[q] = proc[q]
  BY Zenon DEF IInv, TypeOK, remove_heartbeat_region, Goto
<1>3. PlaceOK(p)'
  BY DEF IInv, TypeOK, ProcOK, PlaceOK, remove_heartbeat_region, Goto, Inside
<1>4. \A q \in Procs : HolderOK(q)'
  BY <1>2 DEF IInv, TypeOK, ProcOK, HolderOK, Exclusive, remove_heartbeat_region, Goto, Inside
<1>5. RegionOK'
  BY <1>2 DEF IInv, TypeOK, ProcOK, HolderOK, RegionOK, remove_heartbeat_region, Goto
<1>6. RefsCounted'
  BY <1>2, CountSame DEF IInv, TypeOK, remove_heartbeat_region, Goto
<1>7. QED
  BY Zenon, <1>1, <1>2, <1>3, <1>4, <1>5, <1>6, Moves DEF remove_heartbeat_region, Goto, Inside, IInv, TypeOK

\* A new reference is counted, and the region it is for has its heartbeat.
LEMMA GetRefInv ==
    ASSUME IInv, WholeRegions, NEW p \in Procs, get_ref(p)
    PROVE  IInv'
<1>0. /\ proc[p].pc = "get_ref" /\ UNCHANGED <<region, kern, lost>>
      /\ sem' = [sem EXCEPT !.refs = @ + 1]
      /\ proc' = [proc EXCEPT ![p].pc = "up", ![p].ref = TRUE]
  BY Zenon DEF get_ref, WholeRegions
<1>1. TypeOK'
  <2>1. sem' \in [live : BOOLEAN, mutex : 0..1, refs : Nat]
    BY <1>0 DEF IInv, TypeOK
  <2>2. proc' = [proc EXCEPT ![p] = [proc[p] EXCEPT !.pc = "up", !.ref = TRUE]]
    BY Zenon, <1>0 DEF IInv, TypeOK
  <2>3. proc' \in [Procs -> ProcType]
    <3>1. proc[p] \in ProcType /\ "up" \in Pcs
      BY Zenon DEF IInv, TypeOK, ProcType, Pcs, Inside
    <3>2. [proc[p] EXCEPT !.pc = "up", !.ref = TRUE] \in ProcType
      BY Zenon, <3>1 DEF ProcType
    <3>3. QED
      BY Zenon, <2>2, <3>2, MoveType DEF IInv
  <2>4. QED
    BY Zenon, <1>0, <2>1, <2>3 DEF IInv, TypeOK, ProcType
<1>2. \A q \in Procs \ {p} : proc'[q] = proc[q]
  BY Zenon, <1>0 DEF IInv, TypeOK
<1>3. PlaceOK(p)'
  BY <1>0 DEF IInv, TypeOK, ProcOK, PlaceOK, Inside
<1>4. \A q \in Procs : HolderOK(q)'
  BY <1>0, <1>2 DEF IInv, TypeOK, ProcOK, HolderOK, Exclusive, Inside
<1>5. RegionOK'
  BY Zenon, <1>0, <1>2 DEF IInv, TypeOK, ProcOK, HolderOK, RegionOK
<1>6. RefsCounted'
  <2>1. ~proc[p].ref /\ proc'[p].ref = TRUE
    BY Zenon, <1>0 DEF IInv, TypeOK, ProcOK, PlaceOK
  <2>2. Owed' = kern + lost + (Cardinality(RefSet) + 1)
    BY Zenon, <1>0, <1>2, <2>1, CountAdd DEF IInv
  <2>3. sem.refs = kern + lost + Cardinality(RefSet) /\ Cardinality(RefSet) \in Nat
    BY Zenon, OwedType DEF IInv, RefsCounted
  <2>4. QED
    BY <1>0, <2>2, <2>3 DEF IInv, TypeOK, RefsCounted
<1>7. QED
  BY Zenon, <1>0, <1>1, <1>2, <1>3, <1>4, <1>5, <1>6, Moves DEF Inside

\* A reference that is dropped was the process's own; when the computed rest is zero there
\* is none left.
LEMMA DropRefInv ==
    ASSUME IInv, NEW p \in Procs, drop_ref(p)
    PROVE  IInv'
<1> DEFINE r == [proc[p] EXCEPT !.pc = IF proc[p].hb_refs = 1 THEN "remove" ELSE "up",
                                !.hb_refs = @ - 1, !.ref = FALSE]
<1>0. /\ proc[p].pc = "drop_ref" /\ UNCHANGED <<region, kern, lost>>
      /\ sem' = [sem EXCEPT !.refs = @ - 1] /\ proc' = [proc EXCEPT ![p] = r]
  BY Zenon DEF drop_ref, IInv, TypeOK
<1>a. proc[p] \in ProcType /\ sem.refs \in Nat /\ sem.refs > 0
  BY Zenon DEF IInv, TypeOK, ProcType, drop_ref
<1>b. /\ proc[p].hb_refs >= sem.refs /\ proc[p].ref /\ proc[p].op = "stop" /\ ~proc[p].err
      /\ ~proc[p].stale
  BY Zenon, <1>0 DEF IInv, ProcOK, PlaceOK, HolderOK
<1>c. proc[p].hb_refs - 1 \in Nat
  BY <1>a, <1>b DEF ProcType
<1>r. r \in ProcType
  BY Zenon, <1>a, <1>c DEF ProcType, Pcs, Inside
<1>p. proc'[p] = r /\ proc' \in [Procs -> ProcType]
  BY Zenon, <1>0, <1>r, MoveType DEF IInv
<1>d. /\ r.ref = FALSE /\ r.op = "stop" /\ r.err = FALSE /\ r.stale = FALSE
      /\ r.pc = IF proc[p].hb_refs = 1 THEN "remove" ELSE "up"
  BY Zenon, <1>a, <1>b DEF ProcType
<1>e. sem' \in [live : BOOLEAN, mutex : 0..1, refs : Nat] /\ sem'.refs = sem.refs - 1
      /\ sem'.mutex = sem.mutex
  BY <1>0, <1>a DEF IInv, TypeOK
<1>2. \A q \in Procs \ {p} : proc'[q] = proc[q]
  BY Zenon, <1>0 DEF IInv, TypeOK
<1> HIDE DEF r
<1>1. TypeOK'
  BY Zenon, <1>0, <1>p, <1>e DEF IInv, TypeOK, ProcType
<1>3. PlaceOK(p)'
  BY Zenon, <1>p, <1>d DEF PlaceOK, Inside
<1>4. \A q \in Procs : HolderOK(q)'
  <2>1. \A q \in Procs \ {p} : proc[q].pc \notin Inside
    BY Zenon, <1>0 DEF IInv, Exclusive, Inside
  <2>2. \A q \in Procs \ {p} : HolderOK(q)'
    BY Zenon, <1>2, <2>1 DEF HolderOK, Inside
  <2>3. sem.mutex = 1
    BY Zenon, <1>0 DEF IInv, ProcOK, HolderOK, Inside
  <2>4. r.pc = "remove" => sem'.refs = 0
    BY <1>a, <1>b, <1>d, <1>e
  <2>5. HolderOK(p)'
    BY Zenon, <1>p, <1>d, <1>e, <2>3, <2>4 DEF HolderOK, Inside
  <2>6. QED
    BY Zenon, <2>2, <2>5
<1>5. RegionOK'
  BY Zenon, <1>0, <1>2, <1>a, <1>e DEF IInv, RegionOK
<1>6. RefsCounted'
  <2>2. Owed' = kern + lost + (Cardinality(RefSet) - 1)
    BY Zenon, <1>0, <1>2, <1>b, <1>p, <1>d, CountDrop DEF IInv
  <2>3. sem.refs = kern + lost + Cardinality(RefSet) /\ Cardinality(RefSet) \in Nat
    BY Zenon, OwedType DEF IInv, RefsCounted
  <2>4. QED
    BY <1>e, <2>2, <2>3 DEF IInv, TypeOK, RefsCounted
<1>7. QED
  BY Zenon, <1>0, <1>1, <1>2, <1>3, <1>4, <1>5, <1>6, Moves DEF Inside

\* The set is destroyed with nobody counted in it: those who are sent back hold nothing.
LEMMA DestroyInv ==
    ASSUME IInv, NEW p \in Procs, destroy_sem_set(p)
    PROVE  IInv'
<1>a. proc[p].pc = "destroy" /\ sem.refs = 0 /\ UNCHANGED <<region, kern, lost>>
  BY Zenon DEF IInv, ProcOK, HolderOK, destroy_sem_set
<1>b. \A q \in Procs : ~proc[q].ref
  BY <1>a, CountedOne DEF IInv
<1>c. \A q \in Procs \ {p} : proc[q].pc \notin Inside
  BY Zenon, <1>a DEF IInv, Exclusive, Inside
<1>1. CASE /\ sem' = NoSem
           /\ proc' = [q \in Procs |->
                         IF q = p THEN Idle
                         ELSE [proc[q] EXCEPT !.stale = @ \/ proc[q].pc \in {"down", "wait"}]]
  <2>1. proc'[p] = Idle
    BY Zenon, <1>1
  <2>2. ASSUME NEW q \in Procs \ {p}
        PROVE  /\ proc'[q] \in ProcType
               /\ proc'[q].pc = proc[q].pc /\ proc'[q].op = proc[q].op
               /\ proc'[q].ref = proc[q].ref /\ proc'[q].err = proc[q].err
               /\ proc'[q].stale <=> proc[q].stale \/ proc[q].pc \in {"down", "wait"}
               /\ proc[q].pc = "idle" => proc'[q] = proc[q]
    <3>1. proc'[q] = [proc[q] EXCEPT !.stale = @ \/ proc[q].pc \in {"down", "wait"}]
      BY Zenon, <1>1
    <3>2. proc[q] \in ProcType
      BY Zenon DEF IInv, TypeOK, ProcType
    <3>3. PICK b \in BOOLEAN : b = (proc[q].stale \/ proc[q].pc \in {"down", "wait"})
      BY Zenon
    <3>4. proc'[q] = [proc[q] EXCEPT !.stale = b]
      BY Zenon, <3>1, <3>3
    <3>5. proc'[q] \in ProcType /\ proc'[q].stale = b
      BY Zenon, <3>2, <3>4 DEF ProcType
    <3>6. /\ proc'[q].pc = proc[q].pc /\ proc'[q].op = proc[q].op
          /\ proc'[q].ref = proc[q].ref /\ proc'[q].err = proc[q].err
      BY Zenon, <3>2, <3>4 DEF ProcType
    <3>7. proc[q].pc = "idle" => proc'[q] = proc[q]
      <4> SUFFICES ASSUME proc[q].pc = "idle" PROVE proc'[q] = proc[q]
        BY Zenon
      <4>1. proc[q].stale = FALSE
        BY DEF IInv, ProcOK, PlaceOK, Idle
      <4>2. b = FALSE
        BY Zenon, <3>3, <4>1
      <4>3. QED
        BY Zenon, <3>2, <3>4, <4>1, <4>2 DEF ProcType
    <3>8. QED
      BY Zenon, <3>3, <3>5, <3>6, <3>7
  <2>3. TypeOK'
    <3>1. Idle \in ProcType
      BY Zenon DEF Idle, ProcType, Pcs
    <3>2. proc' \in [Procs -> ProcType]
      BY Zenon, <1>1, <2>1, <2>2, <3>1
    <3>3. sem' \in [live : BOOLEAN, mutex : 0..1, refs : Nat]
      BY <1>1 DEF NoSem
    <3>4. QED
      BY Zenon, <1>a, <3>2, <3>3 DEF IInv, TypeOK, ProcType
  <2>4. \A q \in Procs : proc'[q].pc \notin Inside
    BY <1>c, <2>1, <2>2 DEF Idle, Inside
  <2>5. Exclusive'
    BY Zenon, <2>4 DEF Exclusive
  <2>6. ProcOK'
    <3>1. PlaceOK(p)'
      BY <2>1 DEF PlaceOK, Idle, Inside
    <3>2. ASSUME NEW q \in Procs \ {p}
          PROVE  PlaceOK(q)'
      BY <1>b, <2>2 DEF IInv, ProcOK, PlaceOK
    <3>3. \A q \in Procs : HolderOK(q)'
      BY Zenon, <2>4 DEF HolderOK, Inside
    <3>4. QED
      BY Zenon, <3>1, <3>2, <3>3 DEF ProcOK
  <2>7. RegionOK'
    <3>1. region # "dir"
      BY Zenon, <1>a, <1>c DEF IInv, RegionOK, Inside
    <3>2. QED
      BY <1>1, <1>a, <3>1 DEF RegionOK, NoSem
  <2>8. RefsCounted'
    <3>1. \A q \in Procs : proc'[q].ref = proc[q].ref
      <4>1. proc'[p].ref = FALSE /\ proc[p].ref = FALSE
        BY <1>b, <2>1 DEF Idle, IInv, TypeOK
      <4>2. QED
        BY Zenon, <4>1, <2>2
    <3>2. QED
      BY Zenon, <1>1, <1>a, <3>1, CountSame DEF NoSem, IInv
  <2>9. QED
    BY Zenon, <2>3, <2>5, <2>6, <2>7, <2>8 DEF IInv
<1>2. CASE sem' = sem /\ proc' = [proc EXCEPT ![p].pc = "up", ![p].err = TRUE]
  <2>1. TypeOK'
    <3>1. proc' = [proc EXCEPT ![p] = [proc[p] EXCEPT !.pc = "up", !.err = TRUE]]
      BY Zenon, <1>2 DEF IInv, TypeOK
    <3>2. proc' \in [Procs -> ProcType]
      <4>1. proc[p] \in ProcType /\ "up" \in Pcs
        BY Zenon DEF IInv, TypeOK, ProcType, Pcs, Inside
      <4>2. [proc[p] EXCEPT !.pc = "up", !.err = TRUE] \in ProcType
        BY Zenon, <4>1 DEF ProcType
      <4>3. QED
        BY Zenon, <3>1, <4>2, MoveType DEF IInv
    <3>3. QED
      BY Zenon, <1>a, <1>2, <3>2 DEF IInv, TypeOK, ProcType
  <2>2. \A q \in Procs \ {p} : proc'[q] = proc[q]
    BY Zenon, <1>2 DEF IInv, TypeOK
  <2>3. PlaceOK(p)'
    BY <1>a, <1>2 DEF IInv, TypeOK, ProcOK, PlaceOK, Inside
  <2>4. \A q \in Procs : HolderOK(q)'
    BY <1>a, <1>2, <2>2 DEF IInv, TypeOK, ProcOK, HolderOK, Inside
  <2>5. RegionOK'
    BY Zenon, <1>a, <1>2, <2>2 DEF IInv, TypeOK, RegionOK
  <2>6. RefsCounted'
    BY <1>a, <1>2, <2>2, CountSame DEF IInv, TypeOK
  <2>7. QED
    BY Zenon, <1>a, <2>1, <2>2, <2>3, <2>4, <2>5, <2>6, Moves DEF Inside
<1>3. QED
  BY Zenon, <1>1, <1>2 DEF destroy_sem_set

-----------------------------------------------------------------------------
(* The callers and the death of a process.                                 *)

\* A process that begins a call has a reference exactly when it is to stop heartbeat.
LEMMA BeginInv ==
    ASSUME IInv, NEW p \in Procs, NEW op \in {"start", "stop", "info"}, NEW persist \in BOOLEAN,
           Begin(p, op, persist), UNCHANGED <<sem, region, kern, lost>>,
           proc[p].pc \in {"idle", "joined"}, proc[p].ref <=> op = "stop"
    PROVE  IInv'
<1> DEFINE r == [proc[p] EXCEPT !.pc = "get_semid", !.op = op, !.persist = persist]
<1>0. proc[p] \in ProcType /\ proc' = [proc EXCEPT ![p] = r]
  BY Zenon DEF Begin, IInv, TypeOK, ProcType
<1>r. r \in ProcType
  BY Zenon, <1>0 DEF ProcType, Pcs
<1>p. proc'[p] = r /\ proc' \in [Procs -> ProcType]
  BY Zenon, <1>0, <1>r, MoveType DEF IInv
<1>d. /\ r.pc = "get_semid" /\ r.op = op /\ r.ref = proc[p].ref /\ r.err = proc[p].err
      /\ r.stale = proc[p].stale
  BY Zenon, <1>0 DEF ProcType
<1>e. ~proc[p].err /\ ~proc[p].stale
  BY Zenon DEF IInv, ProcOK, PlaceOK
<1>2. \A q \in Procs \ {p} : proc'[q] = proc[q]
  BY Zenon, <1>0 DEF IInv, TypeOK
<1> HIDE DEF r
<1>1. TypeOK'
  BY Zenon, <1>p DEF IInv, TypeOK, ProcType
<1>3. PlaceOK(p)'
  BY Zenon, <1>p, <1>d, <1>e DEF PlaceOK, Inside
<1>4. \A q \in Procs : HolderOK(q)'
  BY ZenonT(30), <1>p, <1>d, <1>2 DEF IInv, ProcOK, HolderOK, Inside
<1>5. RegionOK'
  BY Zenon, <1>2 DEF IInv, RegionOK
<1>6. RefsCounted'
  BY Zenon, <1>2, <1>p, <1>d, CountSame DEF IInv
<1>7. QED
  BY Zenon, <1>p, <1>d, <1>1, <1>2, <1>3, <1>4, <1>5, <1>6, Moves DEF Inside

\* Starting, asking, leaving after a failed mount(2), and shutting down are such calls.
LEMMA CallInv ==
    ASSUME IInv, NEW p \in Procs,
           begin_group_join(p) \/ shutdown_dlm(p) \/ (mount(p) /\ Begin(p, "stop", TRUE) /\ kern' = kern)
    PROVE  IInv'
<1>1. proc[p].pc = "idle" => ~proc[p].ref
  BY DEF IInv, ProcOK, PlaceOK, Idle
<1>2. proc[p].pc = "joined" => proc[p].ref
  BY Zenon DEF IInv, ProcOK, PlaceOK
<1>3. CASE begin_group_join(p)
  BY Zenon, <1>1, <1>3, BeginInv DEF begin_group_join
<1>4. CASE shutdown_dlm(p)
  BY Zenon, <1>2, <1>4, BeginInv DEF shutdown_dlm
<1>5. CASE mount(p) /\ Begin(p, "stop", TRUE) /\ kern' = kern
  BY Zenon, <1>2, <1>5, BeginInv DEF mount
<1>6. QED
  BY Zenon, <1>3, <1>4, <1>5

\* mount(2) and umount(2) hand the reference over to the kernel and to ocfs2_hb_ctl.
LEMMA MountInv ==
    ASSUME IInv, NEW p \in Procs, mount(p) \/ umount(p)
    PROVE  IInv'
<1>a. proc[p] \in ProcType /\ sem.refs = kern + lost + Cardinality(RefSet)
      /\ Cardinality(RefSet) \in Nat /\ kern \in Nat /\ lost \in Nat
  BY OwedType DEF IInv, TypeOK, ProcType, RefsCounted
<1>1. CASE mount(p) /\ kern = 0 /\ kern' = 1 /\ proc' = [proc EXCEPT ![p] = Idle]
  <2>0. UNCHANGED <<sem, region, lost>> /\ proc[p].pc = "joined"
    BY Zenon, <1>1 DEF mount
  <2>p. Idle \in ProcType
    BY Zenon DEF Idle, ProcType, Pcs
  <2>q. proc' \in [Procs -> ProcType] /\ proc'[p] = Idle
    BY Zenon, <1>1, <2>p, MoveType DEF IInv
  <2>1. TypeOK'
    BY <1>1, <2>0, <2>q DEF IInv, TypeOK, ProcType
  <2>2. \A q \in Procs \ {p} : proc'[q] = proc[q]
    BY Zenon, <1>1 DEF IInv, TypeOK
  <2>3. PlaceOK(p)'
    BY <2>q DEF PlaceOK, Idle, Inside
  <2>4. \A q \in Procs : HolderOK(q)'
    BY <2>0, <2>q, <2>2 DEF IInv, ProcOK, HolderOK, Idle, Inside
  <2>5. RegionOK'
    BY Zenon, <2>0, <2>2 DEF IInv, RegionOK
  <2>6. RefsCounted'
    <3>1. proc[p].ref /\ proc'[p].ref = FALSE
      BY <2>0, <2>q DEF IInv, ProcOK, PlaceOK, Idle
    <3>2. Owed' = kern' + lost' + (Cardinality(RefSet) - 1)
      BY Zenon, <2>2, <3>1, CountDrop DEF IInv
    <3>3. QED
      BY <1>1, <1>a, <2>0, <3>2 DEF RefsCounted
  <2>7. QED
    BY <2>q, <2>1, <2>2, <2>3, <2>4, <2>5, <2>6, Moves DEF Idle, Inside
<1>2. CASE umount(p)
  <2> DEFINE r == [proc[p] EXCEPT !.pc = "get_semid", !.op = "stop", !.persist = TRUE,
                                  !.ref = TRUE]
  <2>0. /\ UNCHANGED <<sem, region, lost>> /\ proc[p].pc = "idle" /\ kern = 1 /\ kern' = 0
        /\ proc' = [proc EXCEPT ![p] = r]
    BY Zenon, <1>2 DEF umount, IInv, TypeOK
  <2>p. r \in ProcType
    BY Zenon, <1>a DEF ProcType, Pcs
  <2>q. proc' \in [Procs -> ProcType] /\ proc'[p] = r
    BY Zenon, <2>0, <2>p, MoveType DEF IInv
  <2>d. /\ r.pc = "get_semid" /\ r.op = "stop" /\ r.ref = TRUE /\ r.err = proc[p].err
        /\ r.stale = proc[p].stale
    BY Zenon, <1>a DEF ProcType
  <2>e. proc[p] = Idle
    BY Zenon, <2>0 DEF IInv, ProcOK, PlaceOK
  <2>2. \A q \in Procs \ {p} : proc'[q] = proc[q]
    BY Zenon, <2>0 DEF IInv, TypeOK
  <2> HIDE DEF r
  <2>1. TypeOK'
    BY <2>0, <2>q DEF IInv, TypeOK, ProcType
  <2>3. PlaceOK(p)'
    BY <2>q, <2>d, <2>e DEF PlaceOK, Idle, Inside
  <2>4. \A q \in Procs : HolderOK(q)'
    BY Zenon, <2>0, <2>q, <2>d, <2>2 DEF IInv, ProcOK, HolderOK, Inside
  <2>5. RegionOK'
    BY Zenon, <2>0, <2>2 DEF IInv, RegionOK
  <2>6. RefsCounted'
    <3>1. ~proc[p].ref /\ proc'[p].ref = TRUE
      BY <2>e, <2>q, <2>d DEF Idle
    <3>2. Owed' = kern' + lost' + (Cardinality(RefSet) + 1)
      BY Zenon, <2>2, <3>1, CountAdd DEF IInv
    <3>3. QED
      BY <1>a, <2>0, <3>2 DEF RefsCounted
  <2>7. QED
    BY Zenon, <2>q, <2>d, <2>1, <2>2, <2>3, <2>4, <2>5, <2>6, Moves DEF Inside
<1>3. CASE mount(p) /\ Begin(p, "stop", TRUE) /\ kern' = kern
  BY Zenon, <1>3, CallInv
<1>4. QED
  BY Zenon, <1>1, <1>2, <1>3 DEF mount

\* Whatever a killed process held, SEM_UNDO or the loss of a persistent reference keeps the
\* count exact, and the mutex comes back.
LEMMA DieInv ==
    ASSUME IInv, WholeRegions, NEW p \in Procs, die(p)
    PROVE  IInv'
<1> DEFINE tool == proc[p].ref /\ ~proc[p].persist
           kept == proc[p].ref /\ proc[p].persist
<1>0. /\ UNCHANGED <<region, kern>> /\ proc' = [proc EXCEPT ![p] = Idle]
      /\ proc[p].pc # "attrs"
  BY Zenon DEF die, Failed, WholeRegions
<1>a. proc[p] \in ProcType /\ sem.refs = kern + lost + Cardinality(RefSet)
      /\ Cardinality(RefSet) \in Nat /\ kern \in Nat /\ lost \in Nat
      /\ sem \in [live : BOOLEAN, mutex : 0..1, refs : Nat]
  BY OwedType DEF IInv, TypeOK, ProcType, RefsCounted
<1>b. proc[p].ref => sem.refs > 0
  BY Zenon, CountedOne DEF IInv
<1>c. /\ sem' \in [live : BOOLEAN, mutex : 0..1, refs : Nat]
      /\ tool => sem'.refs = sem.refs - 1
      /\ ~tool => sem'.refs = sem.refs
      /\ proc[p].pc \notin Inside => sem'.mutex = sem.mutex
  <2> DEFINE m == IF proc[p].pc \in Inside THEN 0 ELSE sem.mutex
             n == IF tool THEN sem.refs - 1 ELSE sem.refs
  <2>1. sem' = [sem EXCEPT !.mutex = m, !.refs = n]
    BY Zenon DEF die
  <2>2. m \in 0..1 /\ (proc[p].pc \notin Inside => m = sem.mutex)
    BY <1>a
  <2>3. n \in Nat /\ (tool => n = sem.refs - 1) /\ (~tool => n = sem.refs)
    BY <1>a, <1>b
  <2> HIDE DEF m, n
  <2>4. sem' \in [live : BOOLEAN, mutex : 0..1, refs : Nat] /\ sem'.mutex = m /\ sem'.refs = n
    BY Zenon, <1>a, <2>1, <2>2, <2>3
  <2> HIDE DEF tool
  <2>5. QED
    BY Zenon, <2>2, <2>3, <2>4
<1>d. lost' \in Nat /\ (kept => lost' = lost + 1) /\ (~kept => lost' = lost)
  BY <1>a DEF die, Failed
<1>e. Idle \in ProcType
  BY Zenon DEF Idle, ProcType, Pcs
<1>f. proc' \in [Procs -> ProcType] /\ proc'[p] = Idle
  BY Zenon, <1>0, <1>e, MoveType DEF IInv
<1>1. TypeOK'
  BY Zenon, <1>0, <1>c, <1>d, <1>f DEF IInv, TypeOK, ProcType
<1>2. \A q \in Procs \ {p} : proc'[q] = proc[q]
  BY Zenon, <1>0 DEF IInv, TypeOK
<1>3. PlaceOK(p)'
  BY <1>f DEF PlaceOK, Idle, Inside
<1>g. sem'.refs \in Nat /\ sem'.refs <= sem.refs
  BY <1>a, <1>c
<1>4. \A q \in Procs : HolderOK(q)'
  <2>1. HolderOK(p)'
    BY <1>f DEF HolderOK, Idle, Inside
  <2>2. ASSUME NEW q \in Procs \ {p}
        PROVE  HolderOK(q)'
    <3>1. CASE proc[q].pc \notin Inside
      BY Zenon, <1>2, <3>1 DEF HolderOK, Inside
    <3>2. CASE proc[q].pc \in Inside
      <4>1. proc[p].pc \notin Inside
        BY Zenon, <3>2 DEF IInv, Exclusive
      <4>2. sem'.mutex = sem.mutex
        BY Zenon, <1>c, <4>1
      <4>3. proc[q].hb_refs \in Nat
        BY Zenon DEF IInv, TypeOK
      <4>4. HolderOK(q)
        BY Zenon DEF IInv, ProcOK
      <4>5. proc'[q] = proc[q]
        BY Zenon, <1>2
      <4>6. proc[q].pc = "drop_ref" /\ "race" \notin Faults => sem'.refs = sem.refs
        BY Zenon, <1>c DEF die
      <4>7. QED
        BY <1>0, <1>a, <1>g, <4>2, <4>3, <4>4, <4>5, <4>6 DEF HolderOK
    <3>3. QED
      BY Zenon, <3>1, <3>2
  <2>3. QED
    BY Zenon, <2>1, <2>2
<1>5. RegionOK'
  BY <1>0, <1>2, <1>a, <1>g DEF IInv, RegionOK
<1>6. RefsCounted'
  <2>1. CASE proc[p].ref
    <3>1. proc'[p].ref = FALSE
      BY <1>f DEF Idle
    <3>2. Owed' = kern' + lost' + (Cardinality(RefSet) - 1)
      BY Zenon, <1>2, <2>1, <3>1, CountDrop DEF IInv
    <3>3. CASE tool
      BY <1>0, <1>a, <1>c, <1>d, <3>2, <3>3 DEF RefsCounted
    <3>4. CASE kept
      BY <1>0, <1>a, <1>c, <1>d, <3>2, <3>4 DEF RefsCounted
    <3>5. QED
      BY Zenon, <2>1, <3>3, <3>4
  <2>2. CASE ~proc[p].ref
    <3>1. proc'[p].ref = proc[p].ref
      <4>1. proc[p].ref \in BOOLEAN
        BY Zenon, <1>a DEF ProcType
      <4>2. proc'[p].ref = FALSE
        BY <1>f DEF Idle
      <4>3. QED
        BY Zenon, <2>2, <4>1, <4>2
    <3>2. QED
      BY Zenon, <1>0, <1>2, <1>c, <1>d, <2>2, <3>1, CountSame DEF IInv
  <2>3. QED
    BY Zenon, <2>1, <2>2
<1>7. QED
  BY <1>f, <1>1, <1>2, <1>3, <1>4, <1>5, <1>6, Moves DEF Idle, Inside

-----------------------------------------------------------------------------
(* The theorems.                                                           *)

\* The invariant holds on a node where nothing has started.
LEMMA InitInv == Init => IInv
<1> SUFFICES ASSUME Init PROVE IInv
  BY Zenon
<1>1. \A p \in Procs : proc[p] = Idle
  BY Zenon DEF Init
<1>2. TypeOK
  <2>1. Idle \in ProcType
    BY Zenon DEF Idle, ProcType, Pcs
  <2>2. proc \in [Procs -> ProcType]
    BY Zenon, <2>1 DEF Init
  <2>3. QED
    BY <2>2 DEF Init, NoSem, TypeOK, ProcType
<1>3. Exclusive
  BY <1>1 DEF Exclusive, Idle, Inside
<1>4. ProcOK
  BY <1>1 DEF ProcOK, PlaceOK, HolderOK, Idle, Inside
<1>5. RegionOK
  BY DEF RegionOK, Init, NoSem
<1>6. RefsCounted
  <2>1. RefSet = {}
    BY <1>1 DEF RefSet, Idle
  <2>2. QED
    BY <1>2, <2>1, OwedType, FS_EmptySet DEF RefsCounted, Init, NoSem
<1>7. QED
  BY Zenon, <1>2, <1>3, <1>4, <1>5, <1>6 DEF IInv

\* Every step keeps it.
LEMMA NextInv == WholeRegions /\ IInv /\ [Next]_vars => IInv'
<1> SUFFICES ASSUME WholeRegions, IInv, [Next]_vars PROVE IInv'
  BY Zenon
<1>1. CASE UNCHANGED vars
  <2>1. TypeOK' /\ Exclusive' /\ RegionOK'
    BY Zenon, <1>1 DEF vars, IInv, TypeOK, Exclusive, RegionOK
  <2>2. ProcOK'
    <3> SUFFICES ASSUME NEW p \in Procs PROVE PlaceOK(p)' /\ HolderOK(p)'
      BY Zenon DEF ProcOK
    <3>1. PlaceOK(p)'
      BY Zenon, <1>1, Zenon DEF vars, IInv, ProcOK, PlaceOK
    <3>2. HolderOK(p)'
      BY Zenon, <1>1, Zenon DEF vars, IInv, ProcOK, HolderOK
    <3>3. QED
      BY Zenon, <3>1, <3>2
  <2>3. RefsCounted'
    BY Zenon, <1>1 DEF vars, IInv, RefsCounted, Owed
  <2>4. QED
    BY Zenon, <2>1, <2>2, <2>3 DEF IInv
<1>2. ASSUME NEW p \in Procs, Lookup(p) PROVE IInv'
  BY Zenon, <1>2, GetSemidInv, MutexWaitInv, EinvalInv, EidrmInv, NumRegionRefsInv DEF Lookup
<1>3. ASSUME NEW p \in Procs, start_heartbeat(p) PROVE IInv'
  BY Zenon, <1>3, CreateInv, AttributesInv, GetRefInv DEF start_heartbeat
<1>4. ASSUME NEW p \in Procs, stop_heartbeat(p) PROVE IInv'
  BY Zenon, <1>4, GetNumRefsInv, DropRefInv, RemoveInv, DestroyInv DEF stop_heartbeat
<1>5. ASSUME NEW p \in Procs, User(p) PROVE IInv'
  BY Zenon, <1>5, CallInv, MountInv DEF User
<1>6. QED
  BY Zenon, <1>1, <1>2, <1>3, <1>4, <1>5, MutexUpInv, MutexDownInv, DieInv DEF Next, Step

\* The invariant holds throughout.
LEMMA InvHolds == WholeRegions => (Spec => []IInv)
<1> SUFFICES ASSUME WholeRegions PROVE Spec => []IInv
  BY Zenon
<1>1. IInv /\ [Next]_vars => IInv'
  BY Zenon, NextInv
<1>2. QED
  BY <1>1, InitInv, PTL DEF Spec

\* The semaphores, the region and the processes of o2cb_start_heartbeat() and
\* o2cb_stop_heartbeat() keep their types; in particular the count never drops below zero.
THEOREM TypeCorrect == WholeRegions => (Spec => []TypeOK)
<1>1. IInv => TypeOK
  BY Zenon DEF IInv
<1>2. QED
  BY <1>1, InvHolds, PTL

\* The semaphore counts exactly the users of the region, whoever is killed and however often
\* the set is destroyed and created.
THEOREM Counted == WholeRegions => (Spec => []RefsCounted)
<1>1. IInv => RefsCounted
  BY Zenon DEF IInv
<1>2. QED
  BY <1>1, InvHolds, PTL

\* Nobody loses the heartbeat they were told about before they stop it: for any number of
\* processes, and also when a tool is killed while another computes what is left.
THEOREM KeepsHeartbeat == WholeRegions => (Spec => []Heartbeating)
<1>1. IInv => Heartbeating
  BY Zenon DEF IInv, RegionOK, RefsCounted, Heartbeating
<1>2. QED
  BY <1>1, InvHolds, PTL

\* One process at a time is between o2cb_mutex_down() and o2cb_mutex_up(), across all
\* semaphore sets.
THEOREM MutualExclusion == WholeRegions => (Spec => []Exclusive)
<1>1. IInv => Exclusive
  BY Zenon DEF IInv
<1>2. QED
  BY <1>1, InvHolds, PTL

\* o2cb_stop_heartbeat() of a process with a reference never finds its set destroyed.
THEOREM SetStays == WholeRegions => (Spec => []LeaverFinds)
<1>1. IInv => LeaverFinds
  BY Zenon DEF IInv, ProcOK, PlaceOK, LeaverFinds
<1>2. QED
  BY <1>1, InvHolds, PTL

\* Unless a tool is killed between the two calls, the process that returns the last reference
\* goes on to remove the region: the value o2cb_stop_heartbeat() computes is the semaphore's.
THEOREM LastOneRemoves == WholeRegions /\ "race" \notin Faults => (Spec => LastRemoves)
<1> SUFFICES ASSUME WholeRegions, "race" \notin Faults PROVE Spec => LastRemoves
  BY Zenon
<1> DEFINE A == \A p \in Procs :
                  proc[p].pc = "drop_ref" /\ proc'[p].pc = "up" => sem'.refs > 0
<1>1. IInv /\ [Next]_vars => [A]_vars
  <2> SUFFICES ASSUME IInv, Next, NEW p \in Procs, proc[p].pc = "drop_ref", proc'[p].pc = "up"
               PROVE  sem'.refs > 0
    BY Zenon DEF vars
  <2>1. /\ proc \in [Procs -> ProcType] /\ sem \in [live : BOOLEAN, mutex : 0..1, refs : Nat]
        /\ proc[p].hb_refs = sem.refs /\ proc[p].hb_refs \in Nat
    BY Zenon DEF IInv, TypeOK, ProcType, ProcOK, HolderOK
  <2>2. PICK q \in Procs : Step(q) \/ o2cb_mutex_down(q) \/ User(q) \/ die(q)
    BY Zenon DEF Next
  <2>3. CASE q = p
    <3>1. drop_ref(p) \/ die(p)
      BY Zenon, <2>2, <2>3 DEF Step, Lookup, start_heartbeat, stop_heartbeat, User, o2cb_get_semid,
         o2cb_mutex_wait, o2cb_mutex_down_einval, o2cb_mutex_down_lookup, o2cb_num_region_refs,
         create_heartbeat_region, set_region_attributes, get_ref, get_num_refs,
         remove_heartbeat_region, destroy_sem_set, o2cb_mutex_up, o2cb_mutex_down,
         begin_group_join, mount, umount, shutdown_dlm
    <3>2. ~die(p)
      BY <2>1 DEF die, Failed, Idle
    <3>3. proc[p].hb_refs # 1 /\ sem.refs > 0 /\ sem'.refs = sem.refs - 1
      <4>1. sem.refs > 0 /\ sem' = [sem EXCEPT !.refs = @ - 1]
        BY Zenon, <3>1, <3>2 DEF drop_ref
      <4>2. proc' = [proc EXCEPT ![p] = [proc[p] EXCEPT
                       !.pc = IF proc[p].hb_refs = 1 THEN "remove" ELSE "up",
                       !.hb_refs = proc[p].hb_refs - 1, !.ref = FALSE]]
        BY Zenon, <3>1, <3>2, <2>1 DEF drop_ref
      <4>3. proc'[p].pc = IF proc[p].hb_refs = 1 THEN "remove" ELSE "up"
        BY ZenonT(30), <2>1, <4>2 DEF ProcType
      <4>4. QED
        BY Zenon, <2>1, <4>1, <4>3
    <3>4. QED
      BY <2>1, <3>3
  <2>4. CASE q # p
    <3>1. ASSUME Lookup(q) \/ o2cb_mutex_up(q) \/ o2cb_mutex_down(q) \/ die(q)
          PROVE  proc'[p] = proc[p]
      BY Zenon, <2>1, <2>4, <3>1 DEF Lookup, o2cb_get_semid, o2cb_mutex_wait, o2cb_mutex_down_einval,
         o2cb_mutex_down_lookup, o2cb_num_region_refs, o2cb_mutex_up, o2cb_mutex_down, die,
         Failed, Goto
    <3>2. ASSUME start_heartbeat(q) \/ User(q)
          PROVE  proc'[p] = proc[p]
      BY Zenon, <2>1, <2>4, <3>2 DEF start_heartbeat, create_heartbeat_region, set_region_attributes,
         get_ref, User, begin_group_join, mount, umount, shutdown_dlm, Goto, Begin
    <3>3. ASSUME get_num_refs(q) \/ drop_ref(q) \/ remove_heartbeat_region(q)
          PROVE  proc'[p] = proc[p]
      BY Zenon, <2>1, <2>4, <3>3 DEF get_num_refs, drop_ref, remove_heartbeat_region, Goto
    <3>4. ASSUME destroy_sem_set(q)
          PROVE  proc'[p].pc = proc[p].pc
      BY <2>1, <2>4, <3>4 DEF destroy_sem_set, ProcType
    <3>5. QED
      BY Zenon, <2>2, <3>1, <3>2, <3>3, <3>4 DEF Step, stop_heartbeat
  <2>5. QED
    BY Zenon, <2>3, <2>4
<1>2. QED
  BY <1>1, InvHolds, PTL DEF Spec, LastRemoves

=============================================================================
