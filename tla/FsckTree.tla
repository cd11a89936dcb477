------------------------------ MODULE FsckTree ------------------------------
(***************************************************************************)
(* The passes of fsck.ocfs2 that repair the name space: the counts taken   *)
(* by pass 1, the directory entries of pass 2, the connectivity of pass 3  *)
(* (with a new root or lost+found where there is none), the orphans and    *)
(* the link counts of pass 4.  fsck is started on a damaged volume, the    *)
(* user answers yes to every prompt, every write of the device is a step,  *)
(* and fsck can be interrupted at any step and started again.  Names and   *)
(* the layout of a directory block are left out: a directory is its "."    *)
(* and ".." entries and the sequence of its other entries.                 *)
(***************************************************************************)
EXTENDS Integers, Sequences, FiniteSets, FiniteSetsExt, SequencesExt

CONSTANTS
    Damages,       \* what is wrong with the volume
    Image(_),      \* a damaged volume: [inode, dir, down]
    MaxIno,        \* inode numbers the volume has room for
    MaxRuns,       \* times fsck is started
    MaxStops       \* times it is interrupted

Inos == 1..MaxIno
Sys == 2           \* fs_sysdir_blkno
Orph == 3          \* the orphan directory of slot 0
CountRange == 65536    \* link counts are 16 bits wide

VARIABLES
    down,          \* the directories' blocks lie in descending order of inodes
    root,          \* s_root_blkno
    inode,         \* [kind, links, orph] of each inode
    dir,           \* [block, dot, dotdot, ents] of each inode
    m,             \* fsck's memory, lost when it stops
    outcome,       \* how the last run ended
    before,        \* the disk when the last run was started
    sound,         \* whether that disk was consistent
    runs, stops

disk == <<root, inode, dir>>
vars == <<down, disk, m, outcome, before, sound, runs, stops>>

-----------------------------------------------------------------------------
(* The volume. *)

Free == [kind |-> "free", links |-> 0, orph |-> FALSE]
NoDir == [block |-> FALSE, dot |-> 0, dotdot |-> 0, ents |-> <<>>]
Valid(i) == i \in Inos /\ inode[i].kind # "free"
IsDir(i) == i \in Inos /\ inode[i].kind = "dir"
FreeIno == Min({i \in Inos \ (1..Orph) : ~Valid(i)})

\* The entries of directory d, and those of the root called lost+found.
Targets(d) == {dir[d].ents[k].ino : k \in DOMAIN dir[d].ents}
Lookup == {k \in DOMAIN dir[root].ents : dir[root].ents[k].lf}

Dirs == {i \in Inos : IsDir(i) /\ dir[i].block}
Files == {i \in Inos : Valid(i)}
\* The inodes reached from those of S through directory entries.
RECURSIVE Below(_)
Below(S) == LET T == S \cup UNION {Targets(d) : d \in S \cap Dirs}
            IN  IF T = S THEN S ELSE Below(T)
Cyclic == {d \in Dirs : d \in Below(Targets(d))}
\* The entries that point to i, without and with the dot entries.
EntriesIn(d, i) == Quantify(DOMAIN dir[d].ents, LAMBDA k : dir[d].ents[k].ino = i)
RefsIn(d, i) == EntriesIn(d, i) + (IF dir[d].dot = i THEN 1 ELSE 0)
                                + (IF dir[d].dotdot = i THEN 1 ELSE 0)
Entries(i) == MapThenSumSet(LAMBDA d : EntriesIn(d, i), Dirs)
NumRefs(i) == MapThenSumSet(LAMBDA d : RefsIn(d, i), Dirs)

\* A consistent volume: a tree of directories below the root and the system
\* directory, no orphans, and the right link counts.
Magics == {root, Sys}
HasParent(d) == LET up == dir[d].dotdot
                IN  Entries(d) = 1 /\ up \in Dirs /\ d \in Targets(up)
LfDir == \E k \in Lookup : IsDir(dir[root].ents[k].ino)
Sound ==
    /\ Magics \subseteq Dirs /\ LfDir
    /\ dir[Orph].ents = <<>>
    /\ \A i \in Files : IsDir(i) => /\ dir[i].block /\ dir[i].dot = i
                                    /\ Targets(i) \subseteq Files \ Magics
                                    /\ ~inode[i].orph
    /\ \A d \in Dirs \ Magics : HasParent(d)
    /\ \A d \in Magics : dir[d].dotdot = d
    /\ Files \subseteq Below(Magics)
    /\ \A i \in Files : inode[i].links = NumRefs(i)

-----------------------------------------------------------------------------
(* fsck's memory: the reference counts of the entries and of the inodes     *)
(* (ost_icount_refs, ost_icount_in_inodes), the parents of the directories *)
(* (ost_dir_parents) and the cursor of the pass.                           *)

NoCount == [i \in 0..MaxIno |-> 0]
Idle == [pc |-> "off", cur |-> 0, at |-> 0, new |-> 0, lf |-> 0, loop |-> 0,
         refs |-> NoCount, inn |-> NoCount, par |-> <<>>, fail |-> FALSE]
At(pc) == m.pc = pc

\* o2fsck_icount_delta(): the counts wrap.
Delta(c, i, n) == [c EXCEPT ![i] = (@ + n) % CountRange]

\* o2fsck_add_dir_parent()
Parent(dd, dirent, orph) == [dd |-> dd, dirent |-> dirent, conn |-> FALSE,
                             loop |-> 0, orph |-> orph]
AddParent(par, i, p) == [j \in DOMAIN par \cup {i} |-> IF j = i THEN p ELSE par[j]]

\* The first number of S above i, or 0.
NextIn(S, i) == IF \E j \in S : j > i THEN Min({j \in S : j > i}) ELSE 0

Stops(how) == m' = Idle /\ outcome' = how
Reads == UNCHANGED <<down, disk, before, sound, runs, stops>>
Writes == UNCHANGED <<down, before, sound, runs, stops>>
StaysUp == UNCHANGED outcome
Goto(pc) == m' = [m EXCEPT !.pc = pc] /\ StaysUp

-----------------------------------------------------------------------------
(* Passes 1 and 2. *)

Run == /\ At("off") /\ runs < MaxRuns
       /\ m' = [Idle EXCEPT !.pc = "pass1"]
       /\ outcome' = "running" /\ runs' = runs + 1
       /\ before' = disk /\ sound' = Sound
       /\ UNCHANGED <<down, disk, stops>>

\* o2fsck_verify_inode_fields() and o2fsck_check_blocks(): a root that is not
\* a directory and a directory without a block are cleared, the others are
\* counted, and the directories get a parent record.
Cleared == {i \in Inos : \/ i = root /\ inode[i].kind = "file"
                         \/ IsDir(i) /\ ~dir[i].block}
Pass1 ==
    LET live == {i \in Inos : Valid(i)} \ Cleared
        dirs == {i \in live : IsDir(i)}
    IN  /\ At("pass1")
        /\ inode' = [i \in Inos |-> IF i \in Cleared THEN Free ELSE inode[i]]
        /\ m' = [m EXCEPT
                   !.pc = "pass2", !.cur = IF down THEN MaxIno + 1 ELSE 0,
                   !.inn = [i \in 0..MaxIno |->
                              IF i \notin live THEN 0
                              ELSE IF inode[i].orph /\ inode[i].links = 0 THEN 1
                              ELSE inode[i].links],
                   !.par = [i \in dirs |->
                              Parent(0, IF i \in {root, Sys} THEN i ELSE 0,
                                     inode[i].orph)]]
        /\ StaysUp /\ Writes /\ UNCHANGED <<root, dir>>

\* The checks of one entry of directory d that is not a dot entry:
\* fix_dirent_inode() clears an entry of a free inode, fix_dirent_linkage()
\* one of a directory that has a parent already.  The others are counted.
Takes(acc, e) ==
    /\ Valid(e.ino)
    /\ IsDir(e.ino) => acc.par[e.ino].dirent = 0
CheckEntry(d, acc, e) ==
    IF ~Takes(acc, e) THEN acc
    ELSE [acc EXCEPT
            !.refs = Delta(@, e.ino, 1),
            !.ents = Append(@, e),
            !.par = IF IsDir(e.ino) THEN [@ EXCEPT ![e.ino].dirent = d] ELSE @]

\* pass2_dir_block_iterate(): "." is made to point to the directory, ".." is
\* recorded, and cleared if its inode is free.
CheckDir(d) ==
    LET dd == dir[d].dotdot
        ok == Valid(dd)
        dots == Delta(m.refs, d, 1)
    IN  FoldLeft(LAMBDA acc, e : CheckEntry(d, acc, e),
                 [refs |-> IF ok THEN Delta(dots, dd, 1) ELSE dots,
                  par  |-> [m.par EXCEPT ![d].dd = dd],
                  dotdot |-> IF ok THEN dd ELSE 0,
                  ents |-> <<>>],
                 dir[d].ents)

\* The order of the directory blocks on the device need not be that of the
\* inodes: o2fsck_dir_block_iterate() takes them by block number.
NextBlock == IF down THEN LET S == {d \in DOMAIN m.par : d < m.cur}
                          IN  IF S = {} THEN 0 ELSE Max(S)
             ELSE NextIn(DOMAIN m.par, m.cur)
Pass2 ==
    LET d == NextBlock
        c == CheckDir(d)
    IN  /\ At("pass2")
        /\ \/ d = 0 /\ Goto("root") /\ Reads
           \/ /\ d # 0
              /\ dir' = [dir EXCEPT ![d].dot = d, ![d].dotdot = c.dotdot,
                                    ![d].ents = c.ents]
              /\ m' = [m EXCEPT !.cur = d, !.refs = c.refs, !.par = c.par]
              /\ StaysUp /\ Writes /\ UNCHANGED <<root, inode>>

-----------------------------------------------------------------------------
(* Pass 3. *)

\* ocfs2_new_inode(), then in ocfs2_init_dir() ocfs2_expand_dir(), which
\* gives the directory an empty block that its i_size makes part of it, and the
\* two dot entries.  The parent's link count follows (ParentLink); the i_size
\* written behind it is the one the directory has.  The volume is one without
\* inline data and without indexed directories.
NewInode(pc) ==
    /\ inode' = [inode EXCEPT ![FreeIno] = [kind |-> "dir", links |-> 2,
                                            orph |-> FALSE]]
    /\ dir' = [dir EXCEPT ![FreeIno] = NoDir]
    /\ m' = [m EXCEPT !.pc = pc, !.new = FreeIno]
    /\ StaysUp /\ Writes /\ UNCHANGED root
ExpandDir(pc) ==
    /\ dir' = [dir EXCEPT ![m.new].block = TRUE]
    /\ Goto(pc) /\ Writes /\ UNCHANGED <<root, inode>>
InitialDirents(pc, parent) ==
    /\ dir' = [dir EXCEPT ![m.new].dot = m.new, ![m.new].dotdot = parent]
    /\ Goto(pc) /\ Writes /\ UNCHANGED <<root, inode>>

\* check_root(): a new root directory, then the superblock.  The link that
\* ocfs2_init_dir() adds to the parent is lost, since the parent is the
\* directory itself and is written again from an older copy.
CheckRoot ==
    /\ At("root")
    /\ IF Valid(root) THEN Goto("lf") /\ Reads ELSE NewInode("rootblk")
ExpandRoot == At("rootblk") /\ ExpandDir("rootdots")
InitRoot == At("rootdots") /\ InitialDirents("rootsb", m.new)
WriteRoot ==
    /\ At("rootsb")
    /\ root' = m.new
    /\ m' = [m EXCEPT !.pc = "lf", !.inn[m.new] = 1, !.refs[m.new] = 1,
                     !.par = AddParent(@, m.new, Parent(root, root, FALSE))]
    /\ StaysUp /\ Writes /\ UNCHANGED <<inode, dir>>

\* check_lostfound(): the entry called lost+found, whatever it is, or a new
\* directory.  ocfs2_init_dir() raises the link count of the root on disk,
\* not in the books.
CheckLostfound ==
    /\ At("lf")
    /\ IF Lookup # {}
       THEN /\ m' = [m EXCEPT !.pc = "magic",
                             !.lf = dir[root].ents[Min(Lookup)].ino]
            /\ StaysUp /\ Reads
       ELSE NewInode("lfblk")
ExpandLostfound == At("lfblk") /\ ExpandDir("lfdots")
InitLostfound == At("lfdots") /\ InitialDirents("lfparent", root)
ParentLink ==
    /\ At("lfparent")
    /\ inode' = [inode EXCEPT ![root].links = (@ + 1) % CountRange]
    /\ Goto("lflink") /\ Writes /\ UNCHANGED <<root, dir>>
LinkLostfound ==
    /\ At("lflink")
    /\ dir' = [dir EXCEPT ![root].ents =
                 Append(@, [ino |-> m.new, lf |-> TRUE, dio |-> FALSE])]
    /\ m' = [m EXCEPT !.pc = "magic", !.lf = m.new,
                     !.inn[m.new] = 2, !.refs[m.new] = 2,
                     !.par = AddParent(@, m.new, Parent(root, root, FALSE))]
    /\ StaysUp /\ Writes /\ UNCHANGED <<root, inode>>

\* The root and the system directory are connected by definition.
Magic ==
    /\ At("magic")
    /\ IF {root, Sys} \subseteq DOMAIN m.par
       THEN /\ m' = [m EXCEPT !.pc = "connect", !.cur = 0,
                             !.par[root].conn = TRUE, !.par[Sys].conn = TRUE]
            /\ StaysUp
       ELSE Stops("error")
    /\ Reads

\* o2fsck_reconnect_file(): inode i gets an entry in lost+found, if that is a
\* directory.  An entry i has elsewhere stays.
Reconnects(i) == IsDir(m.lf) /\ dir[m.lf].block
LinkInto(i) == dir' = [dir EXCEPT ![m.lf].ents =
                         Append(@, [ino |-> i, lf |-> FALSE, dio |-> FALSE])]

\* connect_directory() for the next directory.
Connect ==
    LET d == NextIn(DOMAIN m.par, m.cur)
    IN  /\ At("connect")
        /\ m' = IF d = 0 THEN [m EXCEPT !.pc = "orph", !.cur = 1]
                ELSE [m EXCEPT !.pc = "ascend", !.cur = d, !.at = d, !.loop = @ + 1]
        /\ StaysUp /\ Reads

\* One turn of its loop: up to a parent that is connected, or seen before in
\* this climb; the directory the climb starts from is not marked as seen.
Ascend ==
    LET p  == m.par[m.at]
        up == p.dirent
        climbs == up # 0 /\ m.par[up].loop # m.loop
    IN  /\ At("ascend")
        /\ \/ p.conn /\ Goto("dotdot") /\ Reads
           \/ /\ ~p.conn /\ climbs
              /\ m' = [m EXCEPT !.at = up, !.par[m.at].conn = TRUE,
                               !.par[up].loop = m.loop]
              /\ StaysUp /\ Reads
           \/ /\ ~p.conn /\ ~climbs
              /\ IF Reconnects(m.at)
                 THEN /\ LinkInto(m.at)
                      /\ m' = [m EXCEPT !.pc = "dotdot", !.par[m.at].conn = TRUE,
                                       !.par[m.at].dirent = m.lf,
                                       !.refs = Delta(@, m.at, 1)]
                      /\ Writes /\ UNCHANGED <<root, inode>>
                 ELSE /\ m' = [m EXCEPT !.pc = "dotdot", !.par[m.at].conn = TRUE]
                      /\ Reads
              /\ StaysUp

\* Its end: the ".." of an orphan is only fixed in the books, that of the
\* others on disk (fix_dot_dot_dirent()).
MovedOnly(refs, old, new) == Delta(refs, new, 1)
Moved(refs, old, new) == Delta(IF old = 0 THEN refs ELSE Delta(refs, old, -1), new, 1)
DotDotBooks ==
    /\ At("dotdot")
    /\ m' = [m EXCEPT !.pc = "connect",
                     !.refs = Moved(@, m.par[m.cur].dd, m.par[m.cur].dirent)]
    /\ StaysUp /\ Reads
DotDot ==
    LET d == m.cur
        p == m.par[d]
    IN  /\ At("dotdot")
        /\ \/ /\ p.orph
              /\ m' = [m EXCEPT !.pc = "connect", !.par[d].dd = p.dirent,
                               !.refs = Moved(@, p.dd, p.dirent)]
              /\ Reads
           \/ /\ ~p.orph /\ p.dirent = p.dd
              /\ m' = [m EXCEPT !.pc = "connect"] /\ Reads
           \/ /\ ~p.orph /\ p.dirent # p.dd
              /\ dir' = [dir EXCEPT ![d].dotdot = p.dirent]
              /\ m' = [m EXCEPT !.pc = "connect", !.par[d].dd = p.dirent,
                               !.refs = Moved(@, dir[d].dotdot, p.dirent)]
              /\ Writes /\ UNCHANGED <<root, inode>>
        /\ StaysUp

-----------------------------------------------------------------------------
(* Pass 4. *)

\* replay_orphan_iterate() for the next entry of the orphan directory: the
\* inode is deleted, unless the entry is one of a direct write, and its
\* references are taken out of the books.
OrphanAll ==
    /\ At("orph") /\ m.cur <= Len(dir[Orph].ents)
    /\ inode' = [inode EXCEPT ![dir[Orph].ents[m.cur].ino] = Free]
    /\ m' = [m EXCEPT !.cur = @ + 1]
    /\ StaysUp /\ Writes /\ UNCHANGED <<root, dir>>
Orphan ==
    LET e == dir[Orph].ents[m.cur]
    IN  /\ At("orph") /\ m.cur <= Len(dir[Orph].ents)
        /\ IF ~e.dio /\ ~Valid(e.ino)
           THEN m' = [m EXCEPT !.pc = "orphblk", !.fail = TRUE] /\ Reads
           ELSE /\ inode' = IF e.dio THEN inode ELSE [inode EXCEPT ![e.ino] = Free]
                /\ m' = [m EXCEPT
                           !.cur = @ + 1,
                           !.inn = Delta(@, e.ino, -1),
                           !.refs = IF IsDir(e.ino)
                                    THEN Delta(Delta(@, e.ino, -2), Orph, -1)
                                    ELSE Delta(@, e.ino, -1)]
                /\ Writes /\ UNCHANGED <<root, dir>>
        /\ StaysUp
OrphansRead == /\ At("orph") /\ m.cur > Len(dir[Orph].ents)
               /\ Goto("orphblk") /\ Reads
\* The block is written; an error of the last step ends the pass.
OrphanBlock ==
    /\ At("orphblk")
    /\ dir' = [dir EXCEPT ![Orph].ents = SubSeq(@, m.cur, Len(@))]
    /\ IF m.fail THEN Stops("error")
       ELSE m' = [m EXCEPT !.pc = "links", !.cur = -1] /\ StaysUp
    /\ Writes /\ UNCHANGED <<root, inode>>

\* check_link_counts() for the next inode with a count: one without entries
\* goes to lost+found first, then the count of the entries is written.
CountedRefs == {i \in 0..MaxIno : m.refs[i] # 0}
Counted == {i \in 0..MaxIno : m.refs[i] # 0 \/ m.inn[i] # 0}
LostRefs(i) == m.refs[i] = 0 /\ Reconnects(i)
UpdateLinks(i) ==
    IF Valid(i) /\ m.refs[i] # m.inn[i]
    THEN /\ inode' = [inode EXCEPT ![i].links = m.refs[i]]
         /\ m' = [m EXCEPT !.cur = i, !.inn[i] = m.refs[i]]
         /\ Writes
    ELSE m' = [m EXCEPT !.cur = i] /\ Reads
Links ==
    LET more == {i \in Counted : i > m.cur}
        i == Min(more)
    IN  /\ At("links")
        /\ IF more = {} THEN Stops("ok") /\ Reads
           ELSE IF LostRefs(i)
           THEN /\ LinkInto(i)
                /\ m' = [m EXCEPT !.refs[i] = 1]
                /\ StaysUp /\ Writes /\ UNCHANGED <<root, inode>>
           ELSE UpdateLinks(i) /\ StaysUp /\ UNCHANGED <<root, dir>>

-----------------------------------------------------------------------------
Interrupted ==
    /\ ~At("off") /\ stops < MaxStops
    /\ Stops("interrupted")
    /\ stops' = stops + 1
    /\ UNCHANGED <<down, disk, before, sound, runs>>

Init ==
    /\ \E x \in Damages : LET i == Image(x)
                          IN  inode = i.inode /\ dir = i.dir /\ down = i.down
    /\ root = 1
    /\ m = Idle /\ outcome = "none" /\ before = disk /\ sound = FALSE
    /\ runs = 0 /\ stops = 0

Step == \/ Pass1 \/ Pass2
        \/ CheckRoot \/ ExpandRoot \/ InitRoot \/ WriteRoot
        \/ CheckLostfound \/ ExpandLostfound \/ InitLostfound
        \/ ParentLink \/ LinkLostfound
        \/ Magic \/ Connect \/ Ascend \/ DotDot
        \/ Orphan \/ OrphansRead \/ OrphanBlock \/ Links
Next == Run \/ Step \/ Interrupted

Spec == Init /\ [][Next]_vars

-----------------------------------------------------------------------------
(* Properties.  Most are about the volume that a run leaves when it ends well. *)

Done == outcome = "ok"
Was(i) == before[2][i].kind
WasEnts(d) == Range(before[3][d].ents)
\* What only the next run looks at: the entries of the directories that this
\* one has deleted, and the files of direct writes.
Late == UNION {Targets(d) : d \in {x \in Inos : Was(x) = "dir" /\ ~Valid(x)}}
        \cup {e.ino : e \in {x \in WasEnts(Orph) : x.dio}}
\* The run has found lost+found, not made it.
HadLf == \E k \in Lookup : LET e == dir[root].ents[k]
                           IN  Was(e.ino) # "free" /\ e \in WasEnts(root)

\* After passes 1 to 4 every inode in use is below the root or the system
\* directory, whatever entries were lost and wherever an earlier run was
\* interrupted.  The exceptions are what connect_directory() does not see, a
\* directory that is below itself, what waits for the next run, and a
\* lost+found that is not a directory, into which nothing can be linked.
Reach == Done /\ LfDir => Files \subseteq Below(Magics \cup Cyclic \cup Late)

\* After pass 4 the link count of an inode is the number of its entries: the
\* books that passes 1 to 4a keep by increments agree with the volume they
\* describe.  check_lostfound() does not count the link it gives to the root,
\* so the root's count may be one short when lost+found is new.
LinksTrue ==
    Done /\ LfDir => \A i \in Files \ Late :
                        (i = root => HadLf) => inode[i].links = NumRefs(i)

\* After pass 3 a directory has one entry, in the directory that its ".."
\* names.  A cycle that hangs on no other directory is left alone, and one
\* with a tail is linked to lost+found without losing its old entry.
TreeTrue ==
    Done /\ LfDir => \A d \in Dirs \ (Magics \cup Below(Cyclic \cup Late)) : HasParent(d)

\* fsck started on a consistent volume writes nothing that changes it, in no
\* pass and at no time.
Untouched == sound => disk = before

\* Two runs that end well are enough: what the first one leaves undone, the
\* second one finds, and no repair undoes another.
Converged == Done /\ runs > stops + 1 /\ LfDir /\ Cyclic = {} => Sound

\* No repair loses a file or a name.  An inode goes only if it is an orphan,
\* a root that is no directory, or a directory without a block; an entry of
\* an inode in use goes only from the orphan directory, or because the inode
\* is a directory that has another entry or is the root.
Kept ==
    /\ \A i \in Inos : Was(i) # "free" /\ ~Valid(i) =>
          \/ \E e \in WasEnts(Orph) : e.ino = i /\ ~e.dio
          \/ i = before[1] /\ Was(i) = "file"
          \/ Was(i) = "dir" /\ ~before[3][i].block
    /\ \A d \in Inos \ {Orph} : \A e \in WasEnts(d) :
          Valid(d) /\ Valid(e.ino) /\ Was(e.ino) # "free" =>
             \/ e \in Range(dir[d].ents)
             \/ IsDir(e.ino) /\ (e.ino \in Magics \cup Late \/ Entries(e.ino) > 0)

\* What passes 1 to 4 are for: every inode in use hangs in one tree, and each
\* directory of it in one place.
TreeWhole == Reach /\ TreeTrue

\* What the passes must never do, on a damaged volume or a sound one.
NothingLost == Kept /\ Untouched
=============================================================================
