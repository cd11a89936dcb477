----------------------------- MODULE ChainAlloc -----------------------------
(***************************************************************************)
(* The chain allocators of libocfs2 (chainalloc.c, alloc.c, bitmap.c,      *)
(* cached_inode.c): the global bitmap, which hands out clusters, and a      *)
(* suballocator, which takes groups of clusters from it and hands out       *)
(* their blocks as inodes.  An allocator on disk is an inode with chain     *)
(* records and one group descriptor per group; libocfs2 keeps both in       *)
(* memory, changes the memory and writes the blocks one by one.  A write    *)
(* or a read may fail, and the program may be killed between two writes.    *)
(*                                                                          *)
(* The bits of the global bitmap are clusters and it has one group, 0.  The *)
(* bits of the suballocator are blocks, and a group is named by its first   *)
(* cluster.  Groups are contiguous (no discontiguous block groups).         *)
(***************************************************************************)
EXTENDS Integers, FiniteSets, Sequences, FiniteSetsExt, SequencesExt, TLC

CONSTANTS NClusters,    \* fs_clusters
          Bpc,          \* cl_bpc of the suballocator: blocks in a cluster
          Cpg,          \* cl_cpg: clusters in a suballocator group
          ClCount,      \* cl_count: chain records in the suballocator
          Requests,     \* the <<min, requested>> asked of ocfs2_new_clusters
          MaxFaults,    \* bound on failing reads and writes and restarts
          MaxCalls,     \* bound on the calls made
          Modulus       \* 2^width of the on-disk counters

ASSUME ChainAllocAssumption ==
    /\ NClusters \in Nat \ {0, 1} /\ Bpc \in Nat \ {0, 1} /\ Cpg \in Nat \ {0}
    /\ ClCount \in Nat \ {0} /\ MaxFaults \in Nat /\ MaxCalls \in Nat
    /\ Requests \subseteq (1..NClusters) \X (1..NClusters)
    /\ Modulus > NClusters * Bpc

VARIABLES
  disk,     \* disk[a]: the allocator's inode and group descriptors on disk
  mem,      \* mem[a]: the cached inode and the bitmap regions, or Unloaded
  inode,    \* inode[b]: what a suballocated block holds on disk
  pc, op,   \* the call in progress: the next step of it, and its arguments
  data,     \* clusters returned by ocfs2_new_clusters and not freed since
  files,    \* blocks returned by ocfs2_new_inode and not deleted since
  lossy,    \* the error paths taken so far that do not restore what they undo
  faults, crashes, calls

vars == <<disk, mem, inode, pc, op, data, files, lossy, faults, crashes, calls>>

Allocators == {"global", "suballoc"}
Unloaded == [loaded |-> FALSE]
Clusters == 0..(NClusters - 1)

Wrap(n) == n % Modulus

(* ocfs2_clusters_to_blocks and ocfs2_blocks_to_clusters. *)
ToBlocks(c) == c * Bpc
ToClusters(b) == b \div Bpc

(* The bits of group g: chainalloc_get_next_region for a contiguous group. *)
Region(a, g) ==
  IF a = "global" THEN Clusters ELSE ToBlocks(g)..(ToBlocks(g + Cpg) - 1)

GroupClusters(g) == g..(g + Cpg - 1)

Blocks == 0..(ToBlocks(NClusters) - 1)

Idle == [kind |-> "none", min |-> 0, len |-> 0, start |-> 0, found |-> 0,
         blk |-> 0, chain |-> 0, old |-> 0, grown |-> FALSE]

-----------------------------------------------------------------------------
(* Chains.  A record with c_blkno = 0 ends a chain: 0 stands for no group.  *)

RECURSIVE ChainFrom(_, _, _)
ChainFrom(grp, g, n) ==
  IF g = 0 \/ g \notin DOMAIN grp \/ n = 0 THEN <<>>
  ELSE <<g>> \o ChainFrom(grp, grp[g].next, n - 1)

(* The groups in the order ocfs2_chain_iterate visits them.  The group of   *)
(* the global bitmap starts at block 0 and is not named by its record here. *)
Iterate(a, d) ==
  IF a = "global" THEN <<0>>
  ELSE FlattenSeq([i \in 1..d.ino.nfr |->
                     ChainFrom(d.grp, d.ino.recs[i - 1].blk, NClusters)])

Linked(d) == ToSet(Iterate("suballoc", d))

(* ocfs2_init_group_desc: the descriptor's own block is bit 0 of the group. *)
NewGroup(g, chain, next) ==
  [set |-> {ToBlocks(g)}, free |-> Cpg * Bpc - 1, chain |-> chain, next |-> next]

(* chainalloc_bit_change_notify for every bit set or cleared: group, chain  *)
(* record and inode count together, and group and allocator become dirty.   *)
Mark(m, g, bits) ==
  LET delta == Cardinality(bits) - Cardinality(m.grp[g].set)
      c == m.grp[g].chain
  IN IF bits = m.grp[g].set THEN m
     ELSE [m EXCEPT !.grp[g].set = bits,
                    !.grp[g].free = Wrap(@ - delta),
                    !.ino.recs[c].free = Wrap(@ - delta),
                    !.ino.used = Wrap(@ + delta),
                    !.dirty = @ \union {g},
                    !.cb_dirty = TRUE]

(* alloc_range_func: the first clear run of len bits; failing that, the     *)
(* first of the longest runs, if it has min bits.  <<0, 0>> when none has.  *)
AllocRange(clear, min, len) ==
  LET starts == {s \in clear : s - 1 \notin clear}
      run(s) == CHOOSE n \in 1..NClusters : /\ s..(s + n - 1) \subseteq clear
                                            /\ s + n \notin clear
      long == {s \in starts : run(s) >= len}
      best == {s \in starts : \A t \in starts : run(s) >= run(t)}
  IN IF long # {} THEN <<Min(long), len>>
     ELSE IF best # {} /\ run(Min(best)) >= min
       THEN <<Min(best), run(Min(best))>>
       ELSE <<0, 0>>

(* The clear bits of the regions in memory. *)
ClearBits(a) == UNION {Region(a, g) \ mem[a].grp[g].set : g \in DOMAIN mem[a].grp}

-----------------------------------------------------------------------------
(* Reads and writes. *)

Fault == faults < MaxFaults /\ faults' = faults + 1
NoFault == UNCHANGED faults

(* ocfs2_load_allocator: read the inode and walk the chains.  A descriptor  *)
(* that cannot be read ends the walk, and the error is lost: the iterator    *)
(* only reports OCFS2_CHAIN_ERROR, and chainalloc_process_group aborts.      *)
Load(a) ==
  LET order == Iterate(a, disk[a])
  IN /\ pc # "idle" /\ ~mem[a].loaded
     /\ \E n \in 0..Len(order) :
          /\ IF n = Len(order) THEN NoFault /\ UNCHANGED lossy
             ELSE Fault /\ lossy' = lossy \union {"partial"}
          /\ mem' = [mem EXCEPT ![a] =
               [loaded |-> TRUE, ino |-> disk[a].ino, dirty |-> {}, cb_dirty |-> FALSE,
                grp |-> [g \in {order[i] : i \in 1..n} |-> disk[a].grp[g]]]]
     /\ UNCHANGED <<disk, inode, pc, op, data, files, crashes, calls>>

(* Every call loads the allocators it uses before anything else; loading     *)
(* both at the start of the call changes nothing it can observe.             *)
At(label) == pc = label /\ \A a \in Allocators : mem[a].loaded

Goto(label) == pc' = label /\ UNCHANGED op

Return == pc' = "idle" /\ op' = Idle

(* Writing the inode only, as if no region were ever dirty. *)
WriteBitmapInodeOnly(a, Done, Failed) ==
  \/ /\ NoFault /\ Done
     /\ disk' = [disk EXCEPT ![a].ino = mem[a].ino]
     /\ mem' = [mem EXCEPT ![a].cb_dirty = FALSE, ![a].dirty = {}]
  \/ Fault /\ Failed /\ UNCHANGED <<disk, mem>>

(* A failed write that clears cb_dirty all the same. *)
WriteBitmapForgets(a, Done, Failed) ==
  \/ /\ NoFault /\ Done
     /\ disk' = [disk EXCEPT ![a].ino = mem[a].ino, ![a].grp = mem[a].grp @@ @]
     /\ mem' = [mem EXCEPT ![a].cb_dirty = FALSE, ![a].dirty = {}]
  \/ /\ Fault /\ Failed /\ UNCHANGED disk
     /\ mem' = [mem EXCEPT ![a].cb_dirty = FALSE, ![a].dirty = {}]

(* ocfs2_write_chain_allocator: nothing to do when clean; the dirty groups   *)
(* in the order of their bits, each a write; then the inode.  The first      *)
(* write that fails ends it and leaves the rest dirty.                       *)
WriteBitmap(a, Done, Failed) ==
  LET m == mem[a]
      g == Min(m.dirty)
  IN \/ /\ ~m.cb_dirty /\ NoFault /\ Done
        /\ UNCHANGED <<disk, mem>>
     \/ /\ m.cb_dirty /\ m.dirty # {} /\ NoFault
        /\ disk' = [disk EXCEPT ![a].grp = (g :> m.grp[g]) @@ @]
        /\ mem' = [mem EXCEPT ![a].dirty = @ \ {g}]
        /\ UNCHANGED <<pc, op, data, files, lossy>>
     \/ /\ m.cb_dirty /\ m.dirty = {} /\ NoFault
        /\ disk' = [disk EXCEPT ![a].ino = m.ino]
        /\ mem' = [mem EXCEPT ![a].cb_dirty = FALSE]
        /\ Done
     \/ /\ m.cb_dirty /\ Fault /\ Failed
        /\ UNCHANGED <<disk, mem>>

-----------------------------------------------------------------------------
(* Calls. *)

(* The undo paths that free what is in use, or leave in use what they free.  *)
(* Nothing is claimed of a volume after that, and no further call is made.   *)
Broken == lossy \intersect {"short", "specific", "linked"} # {}

Begin ==
  /\ pc = "idle" /\ ~Broken
  /\ calls < MaxCalls /\ calls' = calls + 1
  /\ UNCHANGED <<disk, mem, inode, lossy, faults, crashes>>

CallNewClusters ==
  /\ Begin
  /\ \E r \in Requests :
       /\ r[1] <= r[2]
       /\ op' = [Idle EXCEPT !.kind = "clusters", !.min = r[1], !.len = r[2]]
  /\ pc' = "new_clusters"
  /\ UNCHANGED <<data, files>>

(* ocfs2_new_specific_cluster, as ocfs2_set_backup_super_list calls it. *)
CallSpecific ==
  /\ Begin
  /\ \E c \in Clusters : op' = [Idle EXCEPT !.kind = "specific", !.start = c]
  /\ pc' = "specific"
  /\ UNCHANGED <<data, files>>

CallFree ==
  /\ Begin
  /\ \E c \in data :
       /\ op' = [Idle EXCEPT !.kind = "free", !.start = c, !.len = 1]
       /\ data' = data \ {c}
  /\ pc' = "free_clusters"
  /\ UNCHANGED files

(* An inode, or a block that nothing undoes when its write fails: a system   *)
(* inode, an extent block, a refcount block or an index root.                *)
CallNewInode ==
  /\ Begin
  /\ \E k \in {"inode", "block"} : op' = [Idle EXCEPT !.kind = k]
  /\ pc' = "chain_alloc"
  /\ UNCHANGED <<data, files>>

CallDelete ==
  /\ Begin
  /\ \E b \in files :
       /\ op' = [Idle EXCEPT !.blk = b,
                             !.kind = IF inode[b] = "block" THEN "free" ELSE "delete"]
       /\ files' = files \ {b}
  /\ pc' = "delete_inode"
  /\ UNCHANGED data

(* One turn of ocfs2_grow_chain_allocator. *)
CallGrow ==
  /\ Begin
  /\ op' = [Idle EXCEPT !.kind = "grow", !.min = Cpg, !.len = Cpg]
  /\ pc' = "new_clusters"
  /\ UNCHANGED <<data, files>>

-----------------------------------------------------------------------------
(* ocfs2_new_clusters, for a caller and for ocfs2_chain_add_group. *)

NewClusters ==
  LET r == AllocRange(ClearBits("global"), op.min, op.len)
      bits == r[1]..(r[1] + r[2] - 1)
  IN /\ At("new_clusters")
     /\ IF op.len >= NClusters \/ r[2] = 0
          THEN Return /\ UNCHANGED mem
          ELSE /\ mem' = [mem EXCEPT !["global"] = Mark(@, 0, @.grp[0].set \union bits)]
               /\ op' = [op EXCEPT !.start = r[1], !.found = r[2]]
               /\ pc' = "new_clusters_write"
     /\ UNCHANGED <<disk, inode, data, files, lossy, faults, crashes, calls>>

(* No undo when the write fails. *)
NewClustersWriteKeeps ==
  LET Done == IF op.kind = "clusters"
                THEN /\ data' = data \union (op.start..(op.start + op.found - 1))
                     /\ Return /\ UNCHANGED <<files, lossy>>
                ELSE Goto("add_group") /\ UNCHANGED <<data, files, lossy>>
      Failed == Return /\ UNCHANGED <<data, files, lossy>>
  IN /\ At("new_clusters_write")
     /\ WriteBitmap("global", Done, Failed)
     /\ UNCHANGED <<inode, crashes, calls>>

(* The undo of a failed write passes the clusters requested, not the         *)
(* clusters found, to ocfs2_free_clusters.                                   *)
NewClustersWrite ==
  LET Done == IF op.kind = "clusters"
                THEN /\ data' = data \union (op.start..(op.start + op.found - 1))
                     /\ Return /\ UNCHANGED <<files, lossy>>
                ELSE Goto("add_group") /\ UNCHANGED <<data, files, lossy>>
      Failed == /\ pc' = "free_clusters" /\ UNCHANGED <<op, data, files>>
                /\ lossy' = IF op.found < op.len THEN lossy \union {"short"} ELSE lossy
  IN /\ At("new_clusters_write")
     /\ WriteBitmap("global", Done, Failed)
     /\ UNCHANGED <<inode, crashes, calls>>

Specific ==
  /\ At("specific")
  /\ IF \/ 0 \notin DOMAIN mem["global"].grp
        \/ op.start \in mem["global"].grp[0].set
       THEN Return /\ UNCHANGED mem
       ELSE /\ mem' = [mem EXCEPT !["global"] = Mark(@, 0, @.grp[0].set \union {op.start})]
            /\ Goto("specific_write")
  /\ UNCHANGED <<disk, inode, data, files, lossy, faults, crashes, calls>>

(* The undo converts the cluster as if it were a block, and                  *)
(* ocfs2_free_clusters converts the result once more.                        *)
SpecificWrite ==
  LET Done == /\ data' = data \union {op.start}
              /\ Return /\ UNCHANGED <<files, lossy>>
      wrong == ToClusters(ToClusters(op.start))
      Failed == /\ pc' = "free_clusters"
                /\ op' = [op EXCEPT !.start = wrong, !.len = 1]
                /\ lossy' = IF wrong # op.start THEN lossy \union {"specific"} ELSE lossy
                /\ UNCHANGED <<data, files>>
  IN /\ At("specific_write")
     /\ WriteBitmap("global", Done, Failed)
     /\ UNCHANGED <<inode, crashes, calls>>

(* ocfs2_free_clusters: bits that are clear already are passed over. *)
FreeClusters ==
  LET bits == op.start..(op.start + op.len - 1)
  IN /\ At("free_clusters")
     /\ IF bits \subseteq Clusters /\ 0 \in DOMAIN mem["global"].grp
          THEN /\ mem' = [mem EXCEPT !["global"] = Mark(@, 0, @.grp[0].set \ bits)]
               /\ Goto("free_clusters_write")
          ELSE Return /\ UNCHANGED mem
     /\ UNCHANGED <<disk, inode, data, files, lossy, faults, crashes, calls>>

FreeClustersWrite ==
  LET Out == Return /\ UNCHANGED <<data, files, lossy>>
  IN /\ At("free_clusters_write")
     /\ WriteBitmap("global", Out, Out)
     /\ UNCHANGED <<inode, crashes, calls>>

-----------------------------------------------------------------------------
(* ocfs2_chain_add_group, once it has the clusters of the group. *)

(* Choose the chain and write a descriptor that points at the chain's old    *)
(* head.                                                                     *)
AddGroup ==
  LET ino == mem["suballoc"].ino
      chain == IF ino.nfr < ClCount THEN ino.nfr
               ELSE (ino.clusters \div Cpg) % ClCount
      old == ino.recs[chain].blk
      g == op.start
  IN /\ At("add_group")
     /\ op' = [op EXCEPT !.chain = chain, !.old = old]
     /\ \/ /\ NoFault
           /\ disk' = [disk EXCEPT !["suballoc"].grp = (g :> NewGroup(g, chain, old)) @@ @]
           /\ inode' = [inode EXCEPT ![ToBlocks(g)] = "group"]
           /\ pc' = "link" /\ UNCHANGED lossy
        \/ /\ Fault
           /\ pc' = "unlink" /\ lossy' = lossy \union {"counts"}
           /\ UNCHANGED <<disk, inode>>
     /\ UNCHANGED <<mem, data, files, crashes, calls>>

(* The inode with sign times the group's counts added and blk at the head of *)
(* the chain.                                                                *)
Counted(ino, chain, blk, sign) ==
  [ino EXCEPT !.recs[chain] = [blk |-> blk,
                               free |-> Wrap(@.free + sign * (Cpg * Bpc - 1)),
                               total |-> Wrap(@.total + sign * (Cpg * Bpc))],
              !.clusters = Wrap(@ + sign * Cpg),
              !.total = Wrap(@ + sign * (Cpg * Bpc)),
              !.used = Wrap(@ + sign)]

Link ==
  LET ino == Counted(mem["suballoc"].ino, op.chain, op.start, 1)
      new == [ino EXCEPT !.nfr = IF @ = op.chain THEN @ + 1 ELSE @]
  IN /\ At("link")
     /\ mem' = [mem EXCEPT !["suballoc"].ino = new]
     /\ \/ /\ NoFault /\ Goto("process_group")
           /\ disk' = [disk EXCEPT !["suballoc"].ino = new]
        \/ /\ Fault /\ Goto("unlink") /\ UNCHANGED disk
     /\ UNCHANGED <<inode, data, files, lossy, crashes, calls>>

ProcessGroup ==
  /\ At("process_group")
  /\ \/ /\ NoFault
        /\ mem' = [mem EXCEPT !["suballoc"].grp =
                     (op.start :> disk["suballoc"].grp[op.start]) @@ @]
        /\ IF op.kind = "grow" THEN Return
           ELSE pc' = "chain_alloc" /\ op' = [op EXCEPT !.grown = TRUE]
     \/ Fault /\ Goto("unlink") /\ UNCHANGED mem
  /\ UNCHANGED <<disk, inode, data, files, lossy, crashes, calls>>

(* The error path takes the counts back whether or not they were added, and  *)
(* frees the clusters whether or not the inode without the group is written. *)
Unlink ==
  LET ino == Counted(mem["suballoc"].ino, op.chain, op.old, -1)
      new == [ino EXCEPT !.nfr =
                IF @ = op.chain + 1 /\ op.old = 0 THEN op.chain ELSE @]
  IN /\ At("unlink")
     /\ mem' = [mem EXCEPT !["suballoc"].ino = new]
     /\ \/ /\ NoFault /\ UNCHANGED lossy
           /\ disk' = [disk EXCEPT !["suballoc"].ino = new]
        \/ Fault /\ UNCHANGED disk /\ lossy' = lossy \union {"linked"}
     /\ Goto("free_clusters")
     /\ UNCHANGED <<inode, data, files, crashes, calls>>

-----------------------------------------------------------------------------
(* ocfs2_new_inode and ocfs2_delete_inode. *)

(* ocfs2_chain_alloc takes the lowest clear bit; when there is none, add a   *)
(* group and try once more.                                                  *)
ChainAllocBit ==
  LET clear == ClearBits("suballoc")
      b == Min(clear)
      g == CHOOSE h \in DOMAIN mem["suballoc"].grp : b \in Region("suballoc", h)
  IN /\ At("chain_alloc")
     /\ \/ /\ clear # {}
           /\ mem' = [mem EXCEPT !["suballoc"] = Mark(@, g, @.grp[g].set \union {b})]
           /\ op' = [op EXCEPT !.blk = b]
           /\ pc' = "chain_alloc_write"
        \/ /\ clear = {} /\ ~op.grown
           /\ op' = [op EXCEPT !.min = Cpg, !.len = Cpg]
           /\ pc' = "new_clusters" /\ UNCHANGED mem
        \/ clear = {} /\ op.grown /\ Return /\ UNCHANGED mem
     /\ UNCHANGED <<disk, inode, data, files, lossy, faults, crashes, calls>>

ChainAllocWrite ==
  LET Done == Goto("init_inode") /\ UNCHANGED <<data, files, lossy>>
      Failed == Return /\ UNCHANGED <<data, files, lossy>>
  IN /\ At("chain_alloc_write")
     /\ WriteBitmap("suballoc", Done, Failed)
     /\ UNCHANGED <<inode, crashes, calls>>

InitInode ==
  /\ At("init_inode")
  /\ \/ /\ NoFault
        /\ inode' = [inode EXCEPT ![op.blk] = IF op.kind = "block" THEN "block" ELSE "valid"]
        /\ files' = files \union {op.blk}
        /\ Return
     \/ /\ Fault /\ UNCHANGED <<inode, files>>
        /\ IF op.kind = "block" THEN Return ELSE Goto("delete_inode")
  /\ UNCHANGED <<disk, mem, data, lossy, crashes, calls>>

(* ocfs2_delete_inode reads the block first: after a failed write of a new   *)
(* inode it may hold no inode at all, and the bit then stays set.  The bit   *)
(* is cleared, and written, before the inode loses its VALID flag.  Blocks   *)
(* that are not inodes keep what they hold.                                  *)
DeleteInode ==
  LET groups == {g \in DOMAIN mem["suballoc"].grp : op.blk \in Region("suballoc", g)}
      g == CHOOSE h \in groups : TRUE
  IN /\ At("delete_inode")
     /\ IF /\ inode[op.blk] \in IF op.kind = "free" THEN {"block"} ELSE {"valid", "deleted"}
           /\ groups # {} /\ op.blk \in mem["suballoc"].grp[g].set
          THEN /\ mem' = [mem EXCEPT !["suballoc"] = Mark(@, g, @.grp[g].set \ {op.blk})]
               /\ Goto("chain_free_write")
          ELSE Return /\ UNCHANGED mem
     /\ UNCHANGED <<disk, inode, data, files, lossy, faults, crashes, calls>>

ChainFreeWrite ==
  LET Done == /\ IF op.kind = "free" THEN Return ELSE Goto("invalidate")
              /\ UNCHANGED <<data, files, lossy>>
      Failed == Return /\ UNCHANGED <<data, files, lossy>>
  IN /\ At("chain_free_write")
     /\ WriteBitmap("suballoc", Done, Failed)
     /\ UNCHANGED <<inode, crashes, calls>>

Invalidate ==
  /\ At("invalidate")
  /\ \/ NoFault /\ inode' = [inode EXCEPT ![op.blk] = "deleted"]
     \/ Fault /\ UNCHANGED inode
  /\ Return
  /\ UNCHANGED <<disk, mem, data, files, lossy, crashes, calls>>

-----------------------------------------------------------------------------
(* The program is killed, and started again. *)
Crash ==
  /\ Fault /\ crashes' = crashes + 1
  /\ pc # "idle" /\ Return
  /\ mem' = [a \in Allocators |-> Unloaded]
  /\ UNCHANGED <<disk, inode, data, files, lossy, calls>>

(* A volume with only the descriptor of the global bitmap allocated, and a   *)
(* suballocator with no group: ocfs2_init_inode with OCFS2_CHAIN_FL.         *)
Init ==
  /\ disk = [global |->
               [ino |-> [recs |-> [c \in {0} |-> [blk |-> 0, free |-> NClusters - 1,
                                                  total |-> NClusters]],
                         nfr |-> 1, used |-> 1, total |-> NClusters,
                         clusters |-> NClusters],
                grp |-> [g \in {0} |-> [set |-> {0}, free |-> NClusters - 1,
                                        chain |-> 0, next |-> 0]]],
             suballoc |->
               [ino |-> [recs |-> [c \in 0..(ClCount - 1) |->
                                     [blk |-> 0, free |-> 0, total |-> 0]],
                         nfr |-> 0, used |-> 0, total |-> 0, clusters |-> 0],
                grp |-> <<>>]]
  /\ mem = [a \in Allocators |-> Unloaded]
  /\ inode = [b \in Blocks |-> "none"]
  /\ pc = "idle" /\ op = Idle
  /\ data = {} /\ files = {} /\ lossy = {}
  /\ faults = 0 /\ crashes = 0 /\ calls = 0

Steps ==
  \/ \E a \in Allocators : Load(a)
  \/ NewClusters \/ NewClustersWrite \/ Specific \/ SpecificWrite
  \/ FreeClusters \/ FreeClustersWrite
  \/ AddGroup \/ Link \/ ProcessGroup \/ Unlink
  \/ ChainAllocBit \/ ChainAllocWrite \/ InitInode
  \/ DeleteInode \/ ChainFreeWrite \/ Invalidate

Calls == \/ CallNewClusters \/ CallSpecific \/ CallFree
         \/ CallNewInode \/ CallDelete \/ CallGrow

Next == Calls \/ Steps \/ Crash

Spec == Init /\ [][Next]_vars
-----------------------------------------------------------------------------
(* What the allocators promise. *)

Quiet == pc = "idle" /\ ~Broken /\ \A a \in Allocators : mem[a].loaded

(* What ocfs2_new_clusters and ocfs2_new_inode have returned is allocated on *)
(* disk, wherever the program is killed and whichever write fails: the block *)
(* is set in a group that the chains reach, and the clusters of that group   *)
(* and of the file are set in the global bitmap.  The exceptions are the two *)
(* undo paths that free other clusters than were allocated, and a rollback   *)
(* of ocfs2_chain_add_group whose inode write failed.                        *)
AllocationDurable ==
  ~Broken =>
    /\ data \subseteq disk["global"].grp[0].set
    /\ \A b \in files : \E g \in Linked(disk["suballoc"]) :
         /\ b \in Region("suballoc", g) /\ b \in disk["suballoc"].grp[g].set
         /\ GroupClusters(g) \subseteq disk["global"].grp[0].set

(* No cluster is at once in a group the chains on disk reach and in a file,  *)
(* or in two groups: adding a group takes the clusters before it links them, *)
(* and the rollback unlinks them before it frees them.                       *)
NoSharedCluster ==
  ~Broken =>
    \A g \in Linked(disk["suballoc"]) :
      /\ GroupClusters(g) \intersect data = {}
      /\ \A h \in Linked(disk["suballoc"]) \ {g} : GroupClusters(g) \intersect GroupClusters(h) = {}

(* A descriptor's free count is that of its own bitmap, on disk and in       *)
(* memory, at every moment: ocfs2_bitmap_set and the range calls go through  *)
(* chainalloc_bit_change_notify, and both are in the one block.              *)
GroupExact ==
  \A a \in Allocators :
    /\ \A g \in DOMAIN disk[a].grp :
         disk[a].grp[g].free = Cardinality(Region(a, g) \ disk[a].grp[g].set)
    /\ mem[a].loaded => \A g \in DOMAIN mem[a].grp :
         mem[a].grp[g].free = Cardinality(Region(a, g) \ mem[a].grp[g].set)

(* Between calls a cached allocator that is not marked dirty is what is on   *)
(* disk, failed writes included: ocfs2_write_chain_allocator returns at once *)
(* when cb_dirty is clear, so a difference would never be written.           *)
CleanIsSame ==
  Quiet =>
    \A a \in Allocators : ~mem[a].cb_dirty =>
      /\ mem[a].ino = disk[a].ino
      /\ \A g \in DOMAIN mem[a].grp : mem[a].grp[g] = disk[a].grp[g]

(* Between calls the counts of the cached inode and of its chain records are *)
(* those of the bitmaps, as the comment on chainalloc_bit_change_notify      *)
(* says, whichever write failed on the way.  The exception is a descriptor   *)
(* write that fails in ocfs2_chain_add_group, which takes back counts it has *)
(* not added; a crash leaves the difference to fsck.ocfs2.                   *)
CountsAgree ==
  Quiet /\ crashes = 0 /\ lossy \intersect {"counts", "partial"} = {} =>
    \A a \in Allocators :
      LET m == mem[a]
          used(G) == FoldSet(LAMBDA g, n : n + Cardinality(m.grp[g].set), 0, G)
          free(G) == FoldSet(LAMBDA g, n : n + Cardinality(Region(a, g) \ m.grp[g].set), 0, G)
      IN /\ m.ino.used = used(DOMAIN m.grp)
         /\ \A c \in DOMAIN m.ino.recs :
              m.ino.recs[c].free = free({g \in DOMAIN m.grp : m.grp[g].chain = c})

(* No cluster is lost while the program lives: between calls every cluster   *)
(* the cached bitmap holds belongs to a file or to a group in a chain, or is *)
(* the descriptor's own, after every failed call too.                        *)
ClustersAccounted ==
  Quiet /\ crashes = 0 /\ "partial" \notin lossy =>
    mem["global"].grp[0].set =
      {0} \union data \union UNION {GroupClusters(g) : g \in DOMAIN mem["suballoc"].grp}

(* What was allocated stays allocated, and to one owner, across every crash  *)
(* and failed write of the calls of alloc.c and chainalloc.c.                *)
AllocationSafe == AllocationDurable /\ NoSharedCluster

(* The three places where chainalloc.c counts - descriptor, chain record and *)
(* inode - and the bitmaps they count tell the same, and hold no cluster     *)
(* that nobody owns, after failed calls too.                                 *)
Accounted == GroupExact /\ CountsAgree /\ ClustersAccounted
=============================================================================
