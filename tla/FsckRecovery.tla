---------------------------- MODULE FsckRecovery ----------------------------
(***************************************************************************)
(* fsck.ocfs2 on a volume some nodes did not unmount cleanly: the replay   *)
(* of the slots' JBD2 journals (fsck.ocfs2/journal.c), the recovery of     *)
(* local allocs, truncate logs and orphans (slot_recovery.c, pass4.c), the *)
(* forced check that repairs what recovery could not (pass1.c, pass2.c)    *)
(* and the order main() does it in (fsck.c).  Every write of the device is *)
(* a step: fsck can be interrupted after any of them and run again, and an *)
(* I/O call can fail.  The user answers yes to every prompt.               *)
(***************************************************************************)
EXTENDS Integers, Sequences, FiniteSets, FiniteSetsExt, SequencesExt

CONSTANTS
    NSlots,        \* s_max_slots
    Blocks,        \* metadata blocks the journals log
    LogLen,        \* blocks of a journal, the superblock not counted
    SeqRange,        \* 2^32 in the code: transaction numbers wrap
    Images,        \* the unclean volumes fsck is started on, numbered
    MaxRuns,       \* times fsck is started
    MaxFaults      \* failed I/O calls and interruptions

Slots == 0..(NSlots - 1)

VARIABLES
    img,           \* number of the image fsck started from
    blk,           \* contents of the metadata blocks
    start,         \* s_start of each journal superblock
    sseq,          \* s_sequence of each journal superblock
    dirty,         \* OCFS2_JOURNAL_DIRTY_FL of each journal inode
    bitmap,        \* clusters set in the global bitmap
    lalloc,        \* local alloc of each slot: [off, total, used]
    tlog,          \* truncate log of each slot: sequence of [start, len]
    orphan,        \* orphan directory of each slot: sequence of [ino, dio]
    inode,         \* the inodes: see InodeType
    inprog,        \* RESIZE_INPROG, TUNEFS_INPROG or OCFS2_ERROR_FS
    m,             \* fsck's memory, lost when it stops
    outcome,       \* how the last run of fsck ended
    trouble,       \* history: an I/O call failed
    misread,       \* history: the revokes taken are not the committed ones
    foreign,       \* slots another node used during a run of fsck
    recut,         \* history: a direct-I/O orphan was replayed a second time
    runs, faults

disk == <<blk, start, sseq, dirty, bitmap, lalloc, tlog, orphan, inode, inprog>>
hist == <<trouble, misread, foreign, recut>>
vars == <<img, disk, m, outcome, hist, runs, faults>>

-----------------------------------------------------------------------------
(* Journals. *)

\* The blocks jbd2 leaves in the log for transaction t, number q, of slot s.
\* The revoke block of a transaction comes first.
TxnBlocks(s, t, q) ==
    (IF t.revokes = <<>> THEN <<>>
     ELSE <<[type |-> "revoke", seq |-> q, blocks |-> t.revokes]>>)
    \o (IF t.tags = <<>> THEN <<>>
        ELSE <<[type |-> "desc", seq |-> q, tags |-> t.tags]>>
             \o [i \in 1..Len(t.tags) |->
                   [type |-> "data", ver |-> <<s, q>>,
                    head |-> IF t.tags[i].esc THEN "zero" ELSE "plain"]])
    \o (IF t.done THEN <<[type |-> "commit", seq |-> q]>> ELSE <<>>)

TxnSeq(j, i) == (j.seq + i - 1) % SeqRange

\* The on-disk logs: the transactions of each slot from block j.first on,
\* the rest holding a commit block of an earlier round.
Logs == [n \in DOMAIN Images |-> [s \in Slots |->
    LET j    == Images[n].journal[s]
        live == FlattenSeq([i \in 1..Len(j.txns) |->
                              TxnBlocks(s, j.txns[i], TxnSeq(j, i))])
    IN  [p \in 1..LogLen |->
           LET o == ((p - j.first) % LogLen) + 1
           IN  IF o <= Len(live) THEN live[o]
               ELSE [type |-> "commit", seq |-> (j.seq - 1) % SeqRange]]]]

\* What transaction number q of slot s made of the block of tag t.
Content(s, q, t) ==
    [ver |-> <<s, q>>, head |-> IF t.esc THEN "magic" ELSE "plain"]

\* What the journals hold for each block by jbd2's rules: the last committed
\* copy that no later or equal committed transaction revokes, if any.
Logged == [n \in DOMAIN Images |-> [s \in Slots |-> [b \in Blocks |->
    LET j == Images[n].journal[s]
        L == {i \in 1..Len(j.txns) :
                /\ j.txns[i].done
                /\ \E t \in ToSet(j.txns[i].tags) : t.b = b
                /\ \A k \in i..Len(j.txns) :
                      j.txns[k].done => b \notin ToSet(j.txns[k].revokes)}
    IN  IF L = {} THEN {}
        ELSE LET i == Max(L)
             IN  {Content(s, TxnSeq(j, i), t) :
                    t \in {x \in ToSet(j.txns[i].tags) : x.b = b}}]]]

\* The slots whose journals hold transactions of image n.
Loaded(n) == {s \in Slots : Images[n].dirty[s] /\ Images[n].journal[s].txns # <<>>}

\* What blocks of contents c hold once the journals of slots J are replayed.
Recovered(c, J) ==
    [b \in Blocks |->
       LET S == {s \in J : Logged[img][s][b] # {}}
       IN  IF S = {} THEN c[b]
           ELSE CHOOSE x \in Logged[img][CHOOSE s \in S : TRUE][b] : TRUE]

Pending(s) == dirty[s] /\ start[s] # 0
View == Recovered(blk, {s \in Slots : Pending(s)})

\* Transaction number q of slot s is complete in the log.
Committed(s, q) == \E p \in 1..LogLen : Logs[img][s][p] = [type |-> "commit", seq |-> q]

\* seq_gt(), seq_geq(): the difference as a signed number of the same width.
SeqGt(x, y) == (x - y) % SeqRange \in 1..(SeqRange \div 2 - 1)
\* Mutant: sequence numbers compared without the wrap.
SeqGeqPlain(x, y) == x >= y

SeqGeq(x, y) == (x - y) % SeqRange < SeqRange \div 2

Jwrap(p) == ((p - 1) % LogLen) + 1

NoRevoke == [b \in Blocks |-> -1]

\* revoke_insert(): a block keeps its latest revoke.
RevokeInsert(rv, b, q) ==
    IF rv[b] = -1 \/ SeqGt(q, rv[b]) THEN [rv EXCEPT ![b] = q] ELSE rv

\* add_revoke_records(): the records are 4 bytes long, their number is
\* computed with the size of a pointer of the build.
RecordsRead(r) == SubSeq(r.blocks, 1, (4 * Len(r.blocks)) \div Images[img].ptr)

AddRevokeRecords(rv, r) ==
    FoldLeft(LAMBDA acc, b : RevokeInsert(acc, b, r.seq), rv, RecordsRead(r))

\* revoke_this_block(): "yes", "no", or "loop" when the tree holds the block
\* with an older revoke: the search neither returns nor moves on.
RevokeThisBlock(rv, b, q) ==
    IF rv[b] = -1 THEN "no" ELSE IF ~SeqGt(q, rv[b]) THEN "yes" ELSE "loop"

-----------------------------------------------------------------------------
(* fsck's memory and the ways a step can end. *)

Idle == [pc |-> "off", slot |-> 0, pos |-> 0, nseq |-> 0, tags |-> <<>>,
         ret |-> FALSE, replay |-> {}, final |-> [s \in Slots |-> -1],
         revoke |-> [s \in Slots |-> NoRevoke], replayed |-> FALSE,
         hasDirty |-> FALSE, force |-> FALSE, slotErr |-> FALSE,
         again |-> FALSE, pass4 |-> FALSE, k |-> 1, failed |-> FALSE,
         zero |-> {}, orphErr |-> FALSE, lastErr |-> FALSE]

At(pc) == m.pc = pc
s0 == m.slot
Goto(pc) == m' = [m EXCEPT !.pc = pc]
Enter(pc) == m' = [m EXCEPT !.pc = pc, !.slot = 0, !.k = 1]
NextSlot(pc) == m' = [m EXCEPT !.pc = pc, !.slot = s0 + 1, !.k = 1]

\* The I/O call of this step fails.
IoFails == /\ faults < MaxFaults
           /\ faults' = faults + 1
           /\ trouble' = TRUE
           /\ UNCHANGED <<img, disk, misread, foreign, recut, runs>>
Works == UNCHANGED <<img, hist, runs, faults>>
Reads == Works /\ UNCHANGED <<disk, outcome>>

\* main() returns.
Stops(how) == m' = Idle /\ outcome' = how
StaysUp == UNCHANGED outcome

-----------------------------------------------------------------------------
(* Journal replay. *)

\* fsck.ocfs2 [-f] is started and locks the volume.
Run == /\ At("off") /\ runs < MaxRuns
       /\ m' = [Idle EXCEPT !.pc = "should", !.force = Images[img].force]
       /\ outcome' = "running" /\ runs' = runs + 1
       /\ UNCHANGED <<img, disk, hist, faults>>

\* o2fsck_should_replay_journals()
Should ==
    /\ At("should")
    /\ \/ /\ m' = [m EXCEPT !.hasDirty = \E s \in Slots : dirty[s],
                             !.pc = IF \E s \in Slots : Pending(s)
                                    THEN "prep" ELSE "la"]
          /\ Reads
       \/ IoFails /\ Stops("error")

\* prep_journal_info() for the slot, and the start of its first walk.
Prep ==
    /\ At("prep") /\ s0 < NSlots
    /\ \/ ~dirty[s0] /\ NextSlot("prep") /\ Reads
       \/ /\ dirty[s0]
          /\ m' = [m EXCEPT !.replay = @ \cup {s0}, !.pos = start[s0],
                           !.nseq = sseq[s0],
                           !.pc = IF start[s0] = 0 THEN "prep" ELSE "scan",
                           !.slot = IF start[s0] = 0 THEN s0 + 1 ELSE s0]
          /\ Reads
       \/ dirty[s0] /\ IoFails /\ NextSlot("prep") /\ StaysUp

PrepDone == At("prep") /\ s0 = NSlots /\ Enter("replay") /\ Reads

\* The journal block read; a slot another node used holds one empty
\* transaction of that node.
Here == IF s0 \in foreign THEN [type |-> "commit", seq |-> sseq[s0]]
        ELSE Logs[img][s0][m.pos]
Ours(b) == b.type # "data" /\ b.seq = m.nseq

\* A commit or a revoke block, in either walk.
WalkCommit == /\ Here.type = "commit"
              /\ m' = [m EXCEPT !.nseq = (@ + 1) % SeqRange, !.pos = Jwrap(@ + 1)]
              /\ Reads
WalkRevoke == /\ Here.type = "revoke"
              /\ m' = [m EXCEPT !.revoke[s0] = AddRevokeRecords(@, Here),
                               !.pos = Jwrap(@ + 1)]
              /\ misread' = (misread \/ Len(RecordsRead(Here)) < Len(Here.blocks)
                                  \/ ~Committed(s0, Here.seq))
              /\ UNCHANGED <<img, disk, outcome, trouble, foreign, recut, runs, faults>>

\* walk_journal(), recover == 0: one block.  The walk ends at the first
\* block that is not of the expected transaction, or cannot be read, and
\* the transaction it stopped in is the first that is not replayed.
ScanEnds == m' = [m EXCEPT !.final[s0] = m.nseq, !.pc = "prep", !.slot = s0 + 1]
Scan ==
    /\ At("scan")
    /\ \/ ~Ours(Here) /\ ScanEnds /\ Reads
       \/ /\ Ours(Here) /\ Here.type = "desc"
          /\ m' = [m EXCEPT !.pos = Jwrap(Jwrap(@ + 1) + Len(Here.tags))]
          /\ Reads
       \/ Ours(Here) /\ (WalkCommit \/ WalkRevoke)
       \/ IoFails /\ ScanEnds /\ StaysUp

\* The second loop of o2fsck_replay_journals(): ji_replay decides, whatever
\* became of the first walk.
Replay ==
    /\ At("replay") /\ s0 < NSlots
    /\ IF s0 \in m.replay
       THEN m' = [m EXCEPT !.pc = IF start[s0] = 0 THEN "jsb" ELSE "walk",
                           !.pos = start[s0], !.nseq = sseq[s0], !.ret = FALSE]
       ELSE NextSlot("replay")
    /\ Reads

ReplayDone ==
    /\ At("replay") /\ s0 = NSlots
    /\ IF m.replayed THEN Goto("reopen") ELSE Enter("la")
    /\ Reads

\* walk_journal(), recover == 1.  A walk that stops early is not an error:
\* the code sets err where it returns ret.
WalkEnds == IF m.ret THEN NextSlot("replay") ELSE Goto("jsb")
Walk ==
    LET more == ~SeqGeq(m.nseq, m.final[s0])
    IN  /\ At("walk")
        /\ \/ ~(more /\ Ours(Here)) /\ WalkEnds /\ Reads
           \/ /\ more /\ Ours(Here) /\ Here.type = "desc"
              /\ m' = [m EXCEPT !.pc = "tags", !.tags = Here.tags,
                               !.pos = Jwrap(@ + 1)]
              /\ Reads
           \/ more /\ Ours(Here) /\ (WalkCommit \/ WalkRevoke)
           \/ more /\ IoFails /\ NextSlot("replay") /\ StaysUp

\* replay_blocks(): one tag.
TagDone(err) ==
    m' = [m EXCEPT !.tags = Tail(@), !.pos = Jwrap(@ + 1), !.ret = @ \/ err,
                   !.pc = IF Len(m.tags) = 1 THEN "walk" ELSE "tags"]
ReplayBlock ==
    LET t == Head(m.tags)
        revoked == RevokeThisBlock(m.revoke[s0], t.b, m.nseq)
    IN  /\ At("tags")
        /\ \/ revoked = "yes" /\ TagDone(FALSE) /\ Reads
           \/ revoked = "loop" /\ Goto("hang") /\ Reads
           \/ /\ revoked = "no"
              /\ blk' = [blk EXCEPT ![t.b] =
                           [ver |-> Here.ver,
                            head |-> IF t.esc THEN "magic" ELSE Here.head]]
              /\ TagDone(FALSE) /\ Works /\ StaysUp
              /\ UNCHANGED <<start, sseq, dirty, bitmap, lalloc, tlog, orphan,
                             inode, inprog>>
           \/ revoked = "no" /\ IoFails /\ TagDone(TRUE) /\ StaysUp

\* Mutant: the emptied journal is marked clean at once.
ResetJournalClean ==
    /\ At("jsb")
    /\ start' = [start EXCEPT ![s0] = 0]
    /\ dirty' = [dirty EXCEPT ![s0] = FALSE]
    /\ m' = [m EXCEPT !.replayed = TRUE, !.pc = "replay", !.slot = s0 + 1]
    /\ Works /\ StaysUp
    /\ UNCHANGED <<blk, sseq, bitmap, lalloc, tlog, orphan, inode, inprog>>

\* The journal is emptied; its dirty flag stays.
ResetJournal ==
    /\ At("jsb")
    /\ \/ /\ start' = [start EXCEPT ![s0] = 0]
          /\ sseq' = [sseq EXCEPT ![s0] = IF m.final[s0] = -1 THEN @
                                          ELSE (m.final[s0] + 1) % SeqRange]
          /\ m' = [m EXCEPT !.replayed = TRUE, !.pc = "replay", !.slot = s0 + 1]
          /\ Works /\ StaysUp
          /\ UNCHANGED <<blk, dirty, bitmap, lalloc, tlog, orphan, inode, inprog>>
       \/ IoFails /\ NextSlot("replay") /\ StaysUp

\* maybe_replay_journals() unlocks, closes, opens and locks the volume again.
\* Meanwhile another node may mount it: it still has it and the lock fails,
\* or it died and left a transaction in the journal of the slot it took, the
\* first one.
ReopenForeign ==
    /\ start' = [start EXCEPT ![0] = 1]
    /\ dirty' = [dirty EXCEPT ![0] = TRUE]
    /\ foreign' = {0}
    /\ UNCHANGED <<blk, sseq, bitmap, lalloc, tlog, orphan, inode, inprog>>
Reopen ==
    /\ At("reopen")
    /\ \/ Enter("la") /\ Reads
       \/ /\ ReopenForeign
          /\ Enter("la")
          /\ UNCHANGED <<img, outcome, trouble, misread, recut, runs, faults>>
       \/ /\ Stops("error") /\ runs' = MaxRuns
          /\ UNCHANGED <<img, disk, hist, faults>>

-----------------------------------------------------------------------------
(* Slot recovery. *)

Interval(a, n) == a..(a + n - 1)

\* The runs of clear bits of a local alloc, in order: clusters the slot
\* reserved and did not use.
ClearRuns(la) ==
    LET clear == Interval(0, la.total) \ la.used
        runStarts == {b \in clear : b - 1 \notin clear}
        runEnd(b) == Min({e \in b..la.total : e \notin clear})
    IN  [i \in 1..Cardinality(runStarts) |->
           LET b == SetToSortSeq(runStarts, <)[i]
           IN  Interval(la.off + b, runEnd(b) - b)]

NoAlloc == [off |-> 0, total |-> 0, used |-> {}]

\* Mutant: an error of the recovery is ignored.
SlotFailsQuietly == m' = [m EXCEPT !.pc = "clean", !.force = FALSE] /\ StaysUp

\* o2fsck_slot_recovery() fails: a check is forced; after the check, the
\* second failure ends fsck with the journals still marked dirty.
SlotFails ==
    \/ m.again /\ Stops("unfinished")
    \/ /\ ~m.again /\ StaysUp
       /\ m' = [m EXCEPT !.slotErr = TRUE, !.force = TRUE, !.pc = "clean"]

\* A range of clusters is tested and freed (ocfs2_test_clusters(),
\* ocfs2_free_clusters()): it must be allocated.
FreeTested(C) ==
    \/ /\ C \subseteq bitmap
       /\ bitmap' = bitmap \ C
       /\ m' = [m EXCEPT !.k = @ + 1]
       /\ Works /\ StaysUp
       /\ UNCHANGED <<blk, start, sseq, dirty, lalloc, tlog, orphan, inode, inprog>>
    \/ ~(C \subseteq bitmap) /\ SlotFails /\ Works /\ UNCHANGED disk
    \/ IoFails /\ SlotFails

\* ocfs2_clear_local_alloc() for each slot.
ClearLocalAlloc ==
    LET la == lalloc[s0]
        free == ClearRuns(la)
    IN  /\ At("la") /\ s0 < NSlots
        /\ \/ la.total = 0 /\ NextSlot("la") /\ Reads
           \/ m.k <= Len(free) /\ FreeTested(free[m.k])
           \/ /\ la.total # 0 /\ m.k > Len(free)
              /\ lalloc' = [lalloc EXCEPT ![s0] = NoAlloc]
              /\ NextSlot("la") /\ Works /\ StaysUp
              /\ UNCHANGED <<blk, start, sseq, dirty, bitmap, tlog, orphan,
                             inode, inprog>>
           \/ la.total # 0 /\ m.k > Len(free) /\ IoFails /\ SlotFails

LocalAllocsDone == At("la") /\ s0 = NSlots /\ Enter("tl") /\ Reads

\* ocfs2_clear_truncate_log() for each slot: every record's clusters are
\* freed, then the log is emptied in one write.
ClearTruncateLog ==
    LET tl == tlog[s0]
    IN  /\ At("tl") /\ s0 < NSlots
        /\ \/ /\ m.k <= Len(tl) /\ tl[m.k].start = 0
              /\ m' = [m EXCEPT !.k = @ + 1] /\ Reads
           \/ /\ m.k <= Len(tl) /\ tl[m.k].start # 0
              /\ FreeTested(Interval(tl[m.k].start, tl[m.k].len))
           \/ /\ m.k > Len(tl)
              /\ tlog' = [tlog EXCEPT ![s0] = <<>>]
              /\ NextSlot("tl") /\ Works /\ StaysUp
              /\ UNCHANGED <<blk, start, sseq, dirty, bitmap, lalloc, orphan,
                             inode, inprog>>
           \/ m.k > Len(tl) /\ IoFails /\ SlotFails

\* Orphans come now, unless the full check will replay them.
TruncateLogsDone ==
    /\ At("tl") /\ s0 = NSlots
    /\ IF m.again THEN Enter("flags")
       ELSE IF m.force THEN Goto("clean") ELSE Enter("orph")
    /\ Reads

\* replay_orphan_dir() and replay_orphan_iterate().  The entry is truncated
\* (its clusters are freed, then the inode is written) and, unless it is a
\* direct-I/O entry, deleted (its bit in the inode allocator is cleared,
\* then the inode is written).  Entries leave the directory block together.
Entry == orphan[s0][m.k]
Orphan == inode[Entry.ino]
OrphanAborts == m' = [m EXCEPT !.orphErr = TRUE, !.pc = "orphblk"] /\ StaysUp
EntryDone == m' = [m EXCEPT !.zero = @ \cup {m.k}, !.k = @ + 1, !.pc = "orph"]
PutInode(i) == inode' = [inode EXCEPT ![Entry.ino] = i]
InodeWrite == /\ Works /\ StaysUp
              /\ UNCHANGED <<blk, start, sseq, dirty, bitmap, lalloc, tlog,
                             orphan, inprog>>

\* ocfs2_truncate_full() to size 0; an inode still marked as a direct-I/O
\* orphan is cut back to its size.
CutOff(i) == IF i.dio THEN i.tail ELSE i.clus \cup i.tail
OrphanTruncate ==
    /\ At("orph") /\ s0 < NSlots /\ m.k <= Len(orphan[s0])
    /\ \/ ~Orphan.dio /\ CutOff(Orphan) = {} /\ Goto("orphdel") /\ Reads
       \/ /\ Orphan.dio \/ CutOff(Orphan) # {}
          /\ bitmap' = bitmap \ CutOff(Orphan)
          /\ recut' = (recut \/ (Entry.dio /\ ~Orphan.dio))
          /\ Goto("orphino") /\ StaysUp
          /\ UNCHANGED <<img, trouble, misread, foreign, runs, faults>>
          /\ UNCHANGED <<blk, start, sseq, dirty, lalloc, tlog, orphan, inode,
                         inprog>>
       \/ IoFails /\ OrphanAborts

OrphanTruncated ==
    /\ At("orphino")
    /\ \/ /\ PutInode([Orphan EXCEPT !.clus = IF Orphan.dio THEN @ ELSE {},
                                      !.tail = {}, !.dio = FALSE])
          /\ Goto("orphdel") /\ InodeWrite
       \/ IoFails /\ OrphanAborts

\* Mutant: direct-I/O entries are deleted like the others.
OrphanDeleteAll ==
    /\ At("orphdel") /\ Orphan.bit
    /\ PutInode([Orphan EXCEPT !.bit = FALSE])
    /\ Goto("orphval") /\ InodeWrite

OrphanDelete ==
    /\ At("orphdel")
    /\ \/ Entry.dio /\ EntryDone /\ Reads
       \/ ~Entry.dio /\ ~Orphan.bit /\ OrphanAborts /\ Works /\ UNCHANGED disk
       \/ /\ ~Entry.dio /\ Orphan.bit
          /\ PutInode([Orphan EXCEPT !.bit = FALSE])
          /\ Goto("orphval") /\ InodeWrite
       \/ ~Entry.dio /\ IoFails /\ OrphanAborts

OrphanInvalid ==
    /\ At("orphval")
    /\ \/ PutInode([Orphan EXCEPT !.valid = FALSE]) /\ EntryDone /\ InodeWrite
       \/ IoFails /\ OrphanAborts

OrphansRead ==
    /\ At("orph") /\ s0 < NSlots /\ m.k > Len(orphan[s0])
    /\ Goto("orphblk") /\ Reads

\* The end of a slot's orphan directory.  In slot recovery an error stops
\* the replay; in pass 4 only the last slot's error is kept.
OrphanDirEnds(err) ==
    IF err /\ ~m.pass4 THEN SlotFails
    ELSE /\ m' = [m EXCEPT !.pc = "orph", !.slot = s0 + 1, !.k = 1, !.zero = {},
                          !.orphErr = FALSE, !.lastErr = err]
         /\ StaysUp
Kept(q, Z) == LET live == SetToSortSeq(DOMAIN q \ Z, <)
              IN  [i \in 1..Len(live) |-> q[live[i]]]
OrphanDirBlock ==
    /\ At("orphblk")
    /\ \/ /\ orphan' = [orphan EXCEPT ![s0] = Kept(@, m.zero)]
          /\ OrphanDirEnds(m.orphErr) /\ Works
          /\ UNCHANGED <<blk, start, sseq, dirty, bitmap, lalloc, tlog, inode,
                         inprog>>
       \/ m.zero # {} /\ IoFails /\ OrphanDirEnds(TRUE)

OrphansDone ==
    /\ At("orph") /\ s0 = NSlots
    /\ m' = IF m.pass4 THEN [m EXCEPT !.pc = "super", !.failed = m.lastErr]
            ELSE [m EXCEPT !.pc = "clean"]
    /\ Reads

-----------------------------------------------------------------------------
(* The check and the end of main(). *)

\* fs_is_clean()
IsClean ==
    /\ At("clean")
    /\ Goto(IF m.force \/ inprog THEN "pass1" ELSE "super")
    /\ Reads

\* Pass 1 makes the global bitmap what valid inodes, local allocs and
\* truncate logs use, and the inode allocators what inodes are valid.  An
\* error of the scan ends the check; an error of the writes is only printed.
ValidInodes == {i \in DOMAIN inode : inode[i].valid}
TlClusters(s) == UNION {Interval(r.start, r.len) :
                          r \in {x \in ToSet(tlog[s]) : x.start # 0}}
LaClusters(s) == UNION ToSet(ClearRuns(lalloc[s]))
InUse == UNION {inode[i].clus \cup inode[i].tail : i \in ValidInodes}
         \cup UNION {TlClusters(s) \cup LaClusters(s) : s \in Slots}
CheckFails == IoFails /\ StaysUp
              /\ m' = [m EXCEPT !.pc = "super", !.failed = TRUE]
Pass1Clusters ==
    /\ At("pass1")
    /\ \/ /\ bitmap' = InUse
          /\ Goto("pass1i") /\ Works /\ StaysUp
          /\ UNCHANGED <<blk, start, sseq, dirty, lalloc, tlog, orphan, inode,
                         inprog>>
       \/ IoFails /\ Goto("pass1i") /\ StaysUp
       \/ CheckFails
Pass1Inodes ==
    /\ At("pass1i")
    /\ \/ /\ inode' = [i \in DOMAIN inode |->
                        [inode[i] EXCEPT !.bit = inode[i].valid]]
          /\ Enter("pass2") /\ InodeWrite
       \/ IoFails /\ Enter("pass2") /\ StaysUp

\* Pass 2 clears the entries of inodes that are not allocated.
Pass2 ==
    /\ At("pass2") /\ s0 < NSlots
    /\ \/ /\ orphan' = [orphan EXCEPT ![s0] =
                         Kept(@, {k \in DOMAIN @ : ~inode[@[k].ino].bit})]
          /\ NextSlot("pass2") /\ Works /\ StaysUp
          /\ UNCHANGED <<blk, start, sseq, dirty, bitmap, lalloc, tlog, inode,
                         inprog>>
       \/ IoFails /\ NextSlot("pass2") /\ StaysUp
Pass4 ==
    /\ At("pass2") /\ s0 = NSlots
    /\ m' = [m EXCEPT !.pc = "orph", !.slot = 0, !.k = 1, !.pass4 = TRUE,
                     !.zero = {}, !.orphErr = FALSE, !.lastErr = FALSE]
    /\ Reads

\* write_out_superblock(), then the second slot recovery or the flags.
WriteSuper ==
    /\ At("super")
    /\ \/ Works /\ inprog' = FALSE
          /\ UNCHANGED <<blk, start, sseq, dirty, bitmap, lalloc, tlog, orphan,
                         inode>>
       \/ IoFails
    /\ IF m.failed THEN Stops("error")
       ELSE /\ StaysUp
            /\ m' = [m EXCEPT !.pc = IF m.slotErr THEN "la" ELSE "flags",
                             !.again = m.slotErr, !.slot = 0, !.k = 1]

\* o2fsck_clear_journal_flags(), slot by slot, then the slot map.
ClearFlags ==
    /\ At("flags") /\ m.hasDirty /\ s0 < NSlots
    /\ \/ /\ dirty' = [dirty EXCEPT ![s0] = FALSE]
          /\ NextSlot("flags") /\ Works /\ StaysUp
          /\ UNCHANGED <<blk, start, sseq, bitmap, lalloc, tlog, orphan, inode,
                         inprog>>
       \/ dirty[s0] /\ IoFails /\ Stops("unfinished")
Done ==
    /\ At("flags") /\ (m.hasDirty => s0 = NSlots)
    /\ Stops("ok") /\ Works /\ UNCHANGED disk

OldBlocks == [b \in Blocks |-> [ver |-> <<>>, head |-> "plain"]]

\* A signal, a crash, or the user tired of waiting.
Interrupted ==
    /\ ~At("off") /\ faults < MaxFaults
    /\ Stops("interrupted")
    /\ faults' = faults + 1
    /\ UNCHANGED <<img, disk, hist, runs>>

Init ==
    /\ img \in DOMAIN Images
    /\ LET i == Images[img]
       IN  /\ sseq = [s \in Slots |-> i.journal[s].seq]
           /\ start = [s \in Slots |-> IF s \in Loaded(img)
                                       THEN i.journal[s].first ELSE 0]
           /\ dirty = i.dirty /\ bitmap = i.bitmap /\ lalloc = i.lalloc
           /\ tlog = i.tlog /\ orphan = i.orphan /\ inode = i.inode
           /\ inprog = i.inprog
    /\ blk = OldBlocks
    /\ m = Idle /\ outcome = "none"
    /\ trouble = FALSE /\ misread = FALSE /\ foreign = {} /\ recut = FALSE
    /\ runs = 0 /\ faults = 0

Journals == \/ Should \/ Prep \/ PrepDone \/ Scan \/ Replay \/ ReplayDone
            \/ Walk \/ ReplayBlock \/ ResetJournal \/ Reopen
SlotRecovery ==
    \/ ClearLocalAlloc \/ LocalAllocsDone \/ ClearTruncateLog
    \/ TruncateLogsDone \/ OrphanTruncate \/ OrphanTruncated \/ OrphanDelete
    \/ OrphanInvalid \/ OrphansRead \/ OrphanDirBlock \/ OrphansDone
Check == \/ IsClean \/ Pass1Clusters \/ Pass1Inodes \/ Pass2 \/ Pass4
         \/ WriteSuper \/ ClearFlags \/ Done

Step == Journals \/ SlotRecovery \/ Check

Next == Run \/ Step \/ Interrupted

Spec == Init /\ [][Next]_vars

-----------------------------------------------------------------------------
(* Properties. *)

WorkItems == {"journal", "lalloc", "tlog", "orphan"} \X Slots
Todo == {w \in WorkItems :
           CASE w[1] = "journal" -> Pending(w[2])
             [] w[1] = "lalloc"  -> lalloc[w[2]].total # 0
             [] w[1] = "tlog"    -> tlog[w[2]] # <<>>
             [] w[1] = "orphan"  -> orphan[w[2]] # <<>>}

\* Replaying the journals is idempotent (walk_journal(), replay_blocks()): at
\* every step, after any interruption and across the wrap of the sequence
\* numbers, what the blocks hold or the journals still say they hold is what
\* the committed transactions of the crashed nodes made of them.
ContentsKept ==
    trouble \/ misread \/ foreign # {} \/ View = Recovered(OldBlocks, Loaded(img))

\* When fsck ends well no journal is dirty and nothing is left to recover,
\* also when recovery failed half way, a check was forced and recovery was
\* run again (main(), slot_recover_err).
CleanMeansDone ==
    outcome = "ok" /\ ~trouble /\ foreign = {} =>
        Todo = {} /\ \A s \in Slots : ~dirty[s]

\* The clusters of a file that is not an orphan are never free in the global
\* bitmap, whatever fails and whenever fsck is interrupted.
LiveClustersKept ==
    \A i \in DOMAIN inode :
        (\A s \in Slots : \A e \in ToSet(Images[img].orphan[s]) : e.ino # i)
        => inode[i] = Images[img].inode[i] /\ inode[i].clus \subseteq bitmap

\* A file that only waited for the end of a direct write keeps its contents
\* and its inode, unless its orphan entry was replayed twice.
DioFileKept ==
    recut \/ \A i \in DOMAIN inode : Images[img].inode[i].dio =>
        /\ inode[i].valid /\ inode[i].clus = Images[img].inode[i].clus
        /\ inode[i].clus \subseteq bitmap

\* When fsck ends well the global bitmap holds exactly the clusters of valid
\* inodes: nothing a truncate log, a local alloc or an orphan held is leaked
\* and nothing is freed twice, however often fsck had to start again.
NothingLeaked ==
    outcome = "ok" /\ ~trouble =>
        /\ bitmap = UNION {inode[i].clus \cup inode[i].tail : i \in ValidInodes}
        /\ \A i \in DOMAIN inode : inode[i].bit = inode[i].valid

\* Recovery (slot_recovery.c, replay_orphan_dir()) touches no file that is in
\* use: not its clusters, not its inode.
FilesKept == LiveClustersKept /\ DioFileKept

\* A run of main() that ends well is complete: nothing is left to recover, and
\* what the slots held is back in the bitmap, once.
EndsClean == CleanMeansDone /\ NothingLeaked

\* fsck of an unclean volume is a recovery in the sense of Recovery.
Abstract == INSTANCE Recovery WITH
    Nodes <- Slots, Work <- WorkItems, view <- View, todo <- Todo,
    unclean <- {s \in Slots : dirty[s]},
    released <- trouble \/ misread \/ foreign # {}
ImplementsRecovery == Abstract!Spec

=============================================================================
