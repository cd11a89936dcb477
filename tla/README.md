# ocfs2-tools: models, model checking and proofs

This directory is a TLA+ development kept beside the userspace tools of the
OCFS2 cluster filesystem.  It models the parts of the tools whose correctness
depends on interleavings, failures, crashes and long sequences of calls, checks
them on small instances with TLC, and proves the central facts about the daemon,
the heartbeat and the block cache for every size with TLAPS.

## The system

| Part | Source | What it does |
|---|---|---|
| I/O channel, block cache | `libocfs2/unix_io.c` | reads and writes blocks of a device, optionally through a write-through LRU cache shared by several channels |
| on-disk structures | `libocfs2/*.c` | chain allocators, extent trees, refcount trees, directories, inodes, quota, slot map |
| ocfs2_controld | `ocfs2_controld/` | cluster daemon: one CPG group per mounted filesystem, membership, node-down notification to dlm_controld, protocol negotiation through checkpoints |
| libo2cb | `libo2cb/` | heartbeat regions in configfs, reference counts in SysV semaphores, client of ocfs2_controld |
| mount.ocfs2, ocfs2_hb_ctl | `mount.ocfs2/`, `ocfs2_hb_ctl/` | join the group or start heartbeat around mount(2) and umount(2) |
| fsck.ocfs2 | `fsck.ocfs2/` | replays journals, recovers the slots of dead nodes, checks and repairs a volume |
| mkfs, tunefs, debugfs, o2image and others | their directories | create, change and inspect a filesystem |

mount.ocfs2 asks ocfs2_controld (user stack) or libo2cb itself (o2cb stack) to
join the filesystem's group or heartbeat region, calls mount(2) and reports the
result; the kernel runs ocfs2_hb_ctl after the last umount to undo it.  The
offline tools change a volume through libocfs2, over one I/O channel; they can be
killed between any two writes, and fsck.ocfs2 has to cope with what that leaves.

## Modules

| Module | Models |
|---|---|
| `BlockDevice` | abstract: what callers of an I/O channel may see |
| `IoCache` | `libocfs2/unix_io.c`, and the cache sharing of `tunefs.ocfs2/libocfs2ne.c` |
| `Mountgroup` | `ocfs2_controld/mount.c` with `main.c`, `cpg.c`, `dlmcontrol.c` as it uses them; the clients of `libo2cb/o2cb_abi.c` |
| `Cpg` | `ocfs2_controld/cpg.c`, `loop()` of `main.c` |
| `Dlmcontrol` | `ocfs2_controld/dlmcontrol.c` |
| `Protocol` | `cpg_joined()` and its callees in `ocfs2_controld/main.c`, `ckpt.c` |
| `HbRegion` | heartbeat regions and semaphores of `libo2cb/o2cb_abi.c`, as `mount.ocfs2`, `ocfs2_hb_ctl` and `libocfs2/dlm.c` use them |
| `ChainAlloc` | `libocfs2/chainalloc.c`, `alloc.c`, `chain.c`, `bitmap.c`, `cached_inode.c` |
| `Recovery` | abstract: what fsck.ocfs2 promises of an unclean volume |
| `FsckRecovery` | `fsck.ocfs2/journal.c`, `slot_recovery.c`, the orphans of `pass4.c`, the order of `fsck.c` |
| `FsckTree` | name space: `fsck.ocfs2/pass1.c` to `pass4.c`, `icount.c`, `dirparents.c`, and the calls of libocfs2 they make |
| `ExtentTree` | `libocfs2/extent_tree.c`, as operators on one call's memory and log of writes |
| `ExtentFile` | a file under `extend_file.c`, `truncate.c`, `extents.c`, `extent_map.c`, over `ExtentTree` |
| `RefcountTree` | `libocfs2/refcount.c`, over `ExtentTree` |
| `RefcountFiles` | files that share clusters: `fsck.ocfs2/refcount.c`, `pass1b.c`, copy on write, truncation, `tunefs.ocfs2/feature_refcount.c`, over `RefcountTree` |
| `*_proofs` | theorems about the module of that name; `MountgroupPhases_proofs` and `MountgroupSafety_proofs` continue `Mountgroup_proofs` |
| `MC*` | instances for TLC |

How state and actions correspond to the code:

* **IoCache.**  The device (`disk`), the cache blocks (`icb_blkno`, `icb_buf`),
  the LRU list (`ic_lru`), the channels on the cache (`attached`,
  `ic_use_count`), the request being served (`op`) and what the last read
  returned (`ret`).  A request is a start action, which does the transfer, one
  action for each iteration of the loop that brings cache and buffer together,
  and a return.
* **Mountgroup.**  The list of mountgroups (`mounts`); for each filesystem its
  `struct mountgroup`, `struct cgroup` and registration (`fs`); the clients with
  what travels over their connections (`cl`); the kernel's mounts (`kern`), the
  groups held by tools (`held`) and the daemon (`daemon`).  `ProcessClient` is
  the daemon reading one request or noticing a closed connection, `GroupEvent`
  an event of CPG or dlm_controld, `ClientStep` a step of mount.ocfs2 or
  ocfs2_hb_ctl, `UserStep` what users and the kernel do.  Freed memory stays as a
  record that is no longer live; a callback that reaches it makes the daemon
  `"wild"`, which stands for whatever the build does then.
* **Cpg.**  Each daemon (`state`), corosync's view of every group (`member`),
  the changes each daemon has yet to read, one queue per group because each group
  has its own connection (`confchg`), the connections `poll()` found readable
  (`revents`), each daemon's `struct cgroup` (`cg`) and the node-down calls it
  made (`told`).  `process_cpg` is one dispatch with everything
  `process_configuration_change()` does, in the order of the client array.
* **Dlmcontrol.**  Registered filesystems with their pending notifications
  (`register_list`, `df_notifications`) and the two directions of the socket
  (`requests`, `results`).  A node's `life` counts its failures and returns;
  `seen`, `asked` and `noted` say which of them each side has dealt with.  The
  messages carry no such number: results are matched by name and node alone.
* **Protocol.**  Where each daemon is in `cpg_joined()` (`pc`), the daemon
  group, who is first, the checkpoints with their sections and handles, and
  handles of ended processes that OpenAIS has yet to clean up (`stale`).
  Versions are stored and parsed as hexadecimal digits, as the code does it.
* **HbRegion.**  The semaphore set of one region (`sem`), its directory in
  configfs (`region`), the kernel's mount (`kern`), persistent references whose
  owner was killed (`lost`) and the processes (`proc`).  Each system call is a
  step.  A process whose set was destroyed gets EIDRM if it was asleep and EINVAL
  if it was about to call `semop()`.
* **ChainAlloc.**  The inode and group descriptors of the global bitmap and of
  a suballocator, on disk (`disk`) and cached (`mem`), the inodes written
  (`inode`), the call in progress (`pc`, `op`) and what callers were given
  (`data`, `files`).  Every read and write is a step that may fail, and the
  program may be killed between two of them.
* **FsckRecovery.**  The blocks, the journals with their logs, the truncate
  logs, local allocs, orphan directories, inodes and the global bitmap, and
  fsck's memory (`m`), which is lost when it stops.  Every write is a step.
* **FsckTree.**  Inodes, directories and the root on disk; fsck's books of
  links and parents in `m`.  Every write is a step, the link into lost+found and
  the link count of pass 4 included, which are two.
* **ExtentTree, ExtentFile.**  `dev` is the tree on the device, `want` the
  mapping the callers asked for, `call` the call just made.  A step is a whole
  call.  The operators carry the memory of the call: paths are copies of blocks,
  as in the code, so that a stale copy is a stale copy here.  Every write goes to
  a log, from which the states a crash may leave are computed.
* **RefcountTree, RefcountFiles.**  The same for a refcount tree whose leaf
  blocks hang under an extent tree, the files' extent lists and the data of the
  clusters.

## What the runs check

Every run passes.  Properties that name exceptions do so because the code has
the behaviour excepted; they are collected below.

| Run | Properties | What it shows |
|---|---|---|
| `io_cache` | `CacheCoherent`, `AssertsHold`, `ImplementsDevice` | what is cached is on disk, the assertions of the LRU list hold, and callers see a plain block device (`BlockDevice`) |
| `mountgroup` | `KernelNeedsGroup`, `SetGroupStates`, `OneAnswer` | a mounted filesystem has its group and registration, `mount_set_group()` meets the states it expects, each question gets one answer |
| `mountgroup_live` | `GroupLive`, `Answered`, `NotBusyForever` | with mounters killed at any moment no cgroup outlives its mountgroup, each request is answered, no filesystem stays busy |
| `cpg` | `CaughtUp`, `SameOrder`, `NoFalseDown` | a daemon that has read everything agrees with corosync; failures are told in one order everywhere, and only of nodes that are gone |
| `dlmcontrol` | `NotForgotten`, `Completes` | no failure is forgotten before dlm_controld has noted it; notifications end |
| `protocol` | `Agreement`, `Served` | all daemons that run, run the same supported versions; negotiations end |
| `hb_region` | `Heartbeating`, `Exclusive`, `Returns` | nobody loses the heartbeat they rely on, one process at a time works on the region across destroyed semaphore sets, calls return |
| `chain_alloc` | `AllocationSafe`, `CleanIsSame`, `Accounted` | what was allocated stays so, to one owner, across crashes and failed writes; caches and counts agree with the bitmaps |
| `fsck_recovery` | `ContentsKept`, `FilesKept`, `EndsClean`, `ImplementsRecovery` | interrupted and repeated recovery ends as one uninterrupted recovery would (`Recovery`), and harms no live file |
| `fsck_tree` | `TreeWhole`, `LinksTrue`, `Converged`, `NothingLost` | the passes leave one tree with true link counts, lose nothing, write nothing to a sound volume, and two complete runs are enough |
| `extent_file` | `Mapping`, `Shape`, `CrashSafe`, `Accounted`, `OnlyTheseFail` | every sequence of calls maps what was asked for, a crash leaves the old or the new mapping, no block or cluster is leaked, and three failures are the only ones |
| `refcount` | `Checked`, `Isolated`, `Accounted`, `CrashSafe`, `Ordered` | the check makes counts and references agree, sharing is invisible to writers, and counts, references and free clusters agree after each call |

### Bounds, and why they are enough

* `io_cache`: three blocks, two values, two buffers, requests of up to three
  blocks, two channels.  A request can be longer than the cache and push out a
  block it has itself brought in; the cache can be shared and lose its owner.
* `mountgroup`: one filesystem, three clients (a mount, an unmount and a tool
  meet), two services, two mounts, six slots of the client table.  `MaxDfs`
  bounds registrations left behind.  `mountgroup_live`: two clients, so that one
  dies in each phase of the other.  Two filesystems with killed clients or with
  a failed mount show the defect of `complete_mount()` below.
* `cpg`: three daemons, two filesystems, two failures, two joins or leaves: a
  node can come back before the others have handled its failure, and two
  survivors can disagree about two failures.
* `dlmcontrol`: one node that fails, returns and fails again (`MaxLife` 3), two
  filesystems, two registrations.
* `protocol`: three daemons whose versions are compatible in one direction only
  or not at all; four starts, so that one comes back.
* `hb_region`: three processes: one that destroys the set, one that waits for
  it, one that creates it anew.  One persistent reference may be lost.
* `chain_alloc`: four clusters of two blocks, groups of one cluster, four calls,
  two faults: the suballocator grows, is rolled back, and fails in the rollback.
* `fsck_recovery`: two slots, logs of nine blocks with sequence numbers modulo
  8, so that both wrap; 200 images, two runs, two faults.
* `fsck_tree`: nine inodes, 2300 damaged volumes, three runs of which one is
  interrupted.  Two complete runs remain, which is what `Converged` is about.
* `extent_file`: seven clusters, a root of two records and blocks of three, so
  that trees of depth two appear; an allocator with none, one or enough blocks
  left at each call.  Block numbers are given anew between calls, which no
  property tells apart.
* `refcount`: three files over nine clusters, shared in six ways; two wrong
  counts, every set of answers, then one call; leaves of four records, so that
  they divide and the tree gets extent blocks.

Symmetry is used in `mountgroup` and `cpg`, over sets the specifications do not
tell apart.  `CHECK_DEADLOCK FALSE` is set where a bound ends all activity or a
program ends; `io_cache` and `hb_region` never stop and are checked for deadlock.

### Fairness, and why the code justifies it

Four specifications have a `FairSpec`; the others have only safety properties.

* `Mountgroup`: strong fairness for the daemon serving each client, since
  `loop()` visits every readable connection of the table in each pass but may
  find that what it can do for a client changes in between; weak fairness for
  corosync's and dlm_controld's events and for the clients' own steps.  Nothing
  is assumed of users.
* `Dlmcontrol`: both daemons read their socket, and dlm_controld hears of every
  failure from corosync on its own.
* `Protocol`: a daemon that runs goes on (its loops retry without limit), and
  OpenAIS cleans up after ended processes at last.
* `HbRegion`: a process goes on unless it is killed; strong fairness for taking
  the mutex, as the kernel queues the waiters of a semaphore.  `Returns` excludes
  a process that meets a destroyed set again and again:
  `o2cb_mutex_down_lookup()` has no bound.

### What the code does not survive

Faults are members of the constant `Faults`, so that a run says what it assumes.
These are left out of the runs because a property fails with them:

* `IoCache` `"torn"`: a write stops inside a block, and the cache keeps the old
  block.  `"aio"`: a request of a vectored read fails, the event's result is not
  looked at, and an unread buffer is cached (`CacheCoherent`).
* `Mountgroup` `"overlap"`: a MOUNT read during a LEAVE of the same filesystem
  frees a mountgroup that is called back later.  `"late"`: a mounter's death is
  read before the answer to its registration (`KernelNeedsGroup`, `OneAnswer`,
  `SetGroupStates`).  `"hb_ctl"`: ocfs2_hb_ctl is killed, which the kernel cannot
  tell (`KernelNeedsGroup`).
* `Mountgroup` with two filesystems: after a failed MRESULT with other services
  left, `complete_mount()` keeps `mg_mount_ci` and `mg_mount_fd` (`mount.c:766`
  to 774).  `find_mg_by_client()` then finds that mountgroup for a client that
  works on another filesystem.  A request can stay unanswered, and with killed
  clients `OneAnswer` fails.
* `Cpg` `"late"`: a node fails before its join was handled, stays in `cg_nodes`,
  and its next join ends the daemon.  `"stop"`: a daemon ends while it joins a
  filesystem's group (`CaughtUp`).
* `Dlmcontrol` `"again"`: a node fails again while the answer to its first
  failure is under way; that answer completes the second notification.
* `HbRegion` `"race"`: a tool is killed between another one's GETVAL and
  `semop()`, and the region stays in vain.  `"torn"`: a process is killed between
  `mkdir()` and the attributes.  `"ref"`: a reference cannot be counted and the
  error path removes a region others use.

These are part of the models, and the properties name them as exceptions:

* `Protocol`: the first daemon ends before its checkpoint is complete, and the
  others wait for ever (`Stranded`).
* `ChainAlloc`: undo paths that free other clusters than were allocated, and the
  rollback of `ocfs2_chain_add_group()` (`lossy`).
* `FsckRecovery`: revokes of an uncommitted transaction, and 4-byte revoke
  records read half (`misread`); a direct-I/O orphan replayed twice (`recut`).
* `FsckTree`: a directory below itself (`Cyclic`), which `connect_directory()`
  does not see; the link a new lost+found gives the root, in none of the books.
* `ExtentFile` (`OnlyTheseFail`): an assertion in a split into three when the
  rightmost leaf has one record left; an append that overfills a full leaf, after
  a truncation left a hole under the last interior record; a truncation of a deep
  tree to nothing, which ends with BAD_BLKNO and leaves an inode no later call
  works on.  Further: copied leaves lost when a copy of a tree of depth two is
  given up; an insertion frees the old tree before the inode is written.
* `RefcountFiles`: a hole said to reach into the next extent block (`over`);
  offsets lost by `remove_refcounted_extent()`; counts before a last extent
  claimed twice; a crash while a leaf is divided; the callback's error that a
  truncation reads from a field nobody set (`missed`).

Two of these end the history of a file in `ExtentFile`: calls on a file with an
overfull leaf, and on a tree changed in place in which an assertion failed
half-way, are not modelled.  The overfull append stores a record behind the
block's buffer, which is undefined; the outcome modelled is that nothing else is
hit: the leaf is written with a count too large, and cannot be read again.

## What is proved

The theorems hold for every value of the constants that satisfies the named
`ASSUME` of the component's module, under the hypotheses in their statements.

**IoCache_proofs** (`CleanFaults`: no `"torn"`, no `"aio"`).  `CacheCoherent`
says nothing while a request runs, so it is not inductive.  `IInv` adds `Fresh`
(a stale buffer belongs to a block the request has still to visit), `DataOK`
(what it will put there is what the device holds), `PrefixOK` (the prefix a read
found in the cache is still there) and `Unique`.  From it follow `TypeCorrect`,
`Coherence`, `Asserts`, `LruKeepsAll` and `Refinement`, where each step is a step
of `BlockDevice` or leaves its variables alone.  `Nocache`, an action property,
needs no assumption.

**Mountgroup_proofs** to **MountgroupSafety_proofs**.  `TypeCorrect` and
`ListCorrect` hold whatever fails; `CallbacksLive` (`GroupLive`) assumes
`NoOverlap`.  `GroupStates` (`SetGroupStates`), `AnswersOnce` (`OneAnswer`) and
`NeverWild` assume `Tame`: no `"overlap"`, and if clients or ocfs2_hb_ctl may be
killed, no `"late"` and one filesystem.  `KernelCovered` (`KernelNeedsGroup`)
assumes besides that ocfs2_hb_ctl is not killed.  The properties see only single
moments; the invariant `Safe` says what connects them: each mountgroup is in one
of a few phases (joining, registering, busy with a mount, live, leaving), an
answer still to be sent has an owner who waits for it, a client told to go on
belongs to a busy mountgroup, and a kernel mount has a live one.
`MountgroupPhases_proofs` shows that the handlers of messages keep it,
`MountgroupSafety_proofs` the events, the clients and the kernel.

**Cpg_proofs**.  `TellInOrder` (`SameOrder`) has no hypothesis; `ToldTruly`
(`NoFalseDown`) excludes `"late"`, `NodesFollow` (`CaughtUp`) also `"stop"`.  What
makes the two connections agree is a statement about each node in each queue
(`Idea`, `QueueOK`): playing the queued joins and leaves over `cg_nodes` gives
the members, but for nodes whose failure is yet to be read.

**Dlmcontrol_proofs**.  `NeverForgotten` (`NotForgotten`) excludes `"again"`.  A
message about a node is under way only while that node is down (`Odd`), so a
success is about the failure asked about last (`Current`).

**Protocol_proofs**.  `VersionsAgree` (`Agreement`), for all faults.  A daemon
that has read a section keeps the checkpoint open (`Holds`), there is one writer
(`OneWriter`), and what it has yet to store is missing (`Writing`); so what was
read still stands (`Reading`).

**HbRegion_proofs** (`WholeRegions`: no `"torn"`, no `"ref"`).  The reference
count, `Heartbeating` and `Exclusive` depend on each other.  `IInv` joins them
with `ProcOK`, which says for each place in the code whether the process there
has a reference and what it knows of the mutex, the region and the count.
`TypeCorrect`, `Counted`, `KeepsHeartbeat`, `MutualExclusion` and `SetStays`
follow; `LastOneRemoves` also excludes `"race"`.

Only model-checked:

* liveness (`Answered`, `NotBusyForever`, `Completes`, `Served`, `Returns`),
  which the prover does not support;
* `ChainAlloc`, `FsckTree`, `ExtentTree`, `ExtentFile`, `RefcountTree` and
  `RefcountFiles`, which are built on recursive operators the prover cannot
  handle;
* `FsckRecovery` and its refinement of `Recovery`: no proof exists yet.

## What is not modelled

`PROJECT.json` lists every part of the system with its status.  Left out: message
texts, options, logging, the graphical console, tools that only print
structures, byte swapping and single-structure I/O, and the checks of single
structures in fsck.ocfs2.  Of the parts that keep state, these are not modelled:
libo2dlm and the cluster lock-down of the offline tools, the client table of
ocfs2_controld, indexed directories and extended attributes, quota, the
operations of tunefs.ocfs2 other than removing refcounts, and the global
heartbeat mode of libo2cb.

Within the modelled parts: `FsckTree` is a volume without inline data and
indexed directories; `RefcountTree` one without metadata checksums (with them,
the root that `ocfs2_adjust_refcount_rec()` writes as an extent block would get
a wrong one); shared extents are written ones; errors of the device are modelled in
`IoCache`, `ChainAlloc` and `FsckRecovery` only.

External, and modelled from how the code uses them: corosync, dlm_controld,
OpenAIS, the kernel's mount and configfs, and SysV semaphores.

## Running

    tlc -workers 2 -config MCHbRegion.cfg MCHbRegion
    tlapm HbRegion_proofs.tla

Each entry of `runs` in `PROJECT.json` names its module and configuration.  Some
definitions are plausible mistakes in the one they precede, such as
`LastFull_Late` before `LastFull`; `mutants` in `PROJECT.json` lists them with the
property that catches each.
