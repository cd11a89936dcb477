----------------------------- MODULE ExtentFile -----------------------------
(***************************************************************************)
(* One file of an offline volume and the calls of libocfs2 that change its *)
(* extents: ocfs2_inode_insert_extent (extend_file.c), the change of an    *)
(* extent's flag (ocfs2_mark_extent_written and its converse), truncation  *)
(* (truncate.c over the iterator of extents.c); and the lookup of a        *)
(* cluster (extent_map.c).  A step is one whole call: what a crash in the  *)
(* middle of it leaves is read off the call's log of writes.               *)
(***************************************************************************)
EXTENDS ExtentTree

CONSTANTS
    N,             \* the clusters of the file: 0 .. N-1
    Phys(_),       \* where on the volume a cluster's data is put
    Rooms          \* how many extent blocks the allocator may have left

VARIABLES
    dev,           \* the device: the root, the extent blocks, those in use
    want,          \* what the file is to be: <<cluster, place, flag>>
    call           \* the call just made and what it came to
vars == <<dev, want, call>>

Offsets == 0..(N - 1)
NoMore == 99       \* UINT32_MAX: the hole has no end
Corrupt == -1      \* instead of a length: CORRUPT_EXTENT_BLOCK
Idle == [op |-> "idle"]

-----------------------------------------------------------------------------
(* The device under a log of writes. *)

Apply(d, w) ==
    CASE w.do = "new"   -> [d EXCEPT !.used = @ \cup {w.n.blk}, !.disk[w.n.blk] = w.n]
      [] w.do = "write" -> [d EXCEPT !.disk[w.n.blk] = w.n]
      [] w.do = "free"  -> [d EXCEPT !.used = @ \ {w.n.blk}]
      [] w.do = "root"  -> [root |-> w.n.root, last |-> w.n.last, clusters |-> w.n.clusters,
                            disk |-> d.disk, used |-> d.used]

Begin(room) == [freed |-> {}] @@ Call("dinode", dev, room)

\* What a reader of all the leaves that can be read finds.
Reading(d) ==
    LET ls == IF d.root.depth = 0 THEN <<d.root>>
              ELSE SelectSeq(Leaves(d.disk, d.root), Readable)
    IN  UNION {{<<c, r.blk + (c - r.cpos), r.flag>> : c \in r.cpos..(End(r) - 1)} :
                  r \in UNION {ToSet(ls[i].recs) : i \in DOMAIN ls}}
Overfull(d) == \E b \in Below(d.disk, d.root) : ~Readable(d.disk[b])
\* A deep tree truncated to nothing: its depth stays, and i_last_eb_blk is 0.
Emptied(d) == d.root.depth > 0 /\ d.root.recs = <<>>

\* What a crash after any number of the call's writes leaves on the device.
Crashes(d, log) ==
    LET upto == FoldLeft(LAMBDA ds, w : Append(ds, Apply(Last(ds), w)), <<d>>, log)
    IN  ToSet(upto)

-----------------------------------------------------------------------------
(* Looking up a cluster. *)

HoleIndex(recs, c) ==
    LET k == SelectInSeq(recs, LAMBDA r : c < r.cpos) IN IF k = 0 THEN Len(recs) + 1 ELSE k
FigureHoleClusters(d, el, c) ==
    LET i == HoleIndex(el.recs, c)
        next == d.disk[el.next].recs
        Size(recs, j) == IF j > Len(recs) THEN NoMore ELSE recs[j].cpos - c
    IN  IF i <= Len(el.recs) \/ d.root.depth = 0 \/ el.next = 0 THEN Size(el.recs, i)
        ELSE IF HoleIndex(next, c) = 1 \/ (HoleIndex(next, c) = 2 /\ next[1].len = 0)
             THEN Size(next, HoleIndex(next, c))
        ELSE Corrupt
GetClusters(d, c) ==
    LET At(el, k) ==
            LET r == el.recs[k]
            IN  IF k = 0 THEN [blk |-> 0, len |-> FigureHoleClusters(d, el, c), flag |-> 0]
                ELSE [blk |-> r.blk + (c - r.cpos), len |-> End(r) - c, flag |-> r.flag]
    IN  IF Emptied(d) THEN [blk |-> 0, len |-> Corrupt, flag |-> 0]
        ELSE With(IF d.root.depth = 0 THEN d.root ELSE Last(Descend(d.disk, d.root, c)),
                  LAMBDA el : At(el, SearchList(el.recs, c)))

-----------------------------------------------------------------------------
(* Truncation to n clusters: a walk in depth, changing the tree in place.  *)

FreeClusters(t, r, from) ==
    [t EXCEPT !.freed = @ \cup {r.blk + (c - r.cpos) : c \in from..(End(r) - 1)},
              !.clusters = @ - (End(r) - from)]
\* truncate_iterate on a leaf's record, and on an interior one after its block.
TruncateLeafRec(t, r, n) ==
    IF End(r) <= n THEN [t |-> t, rec |-> r]
    ELSE IF r.cpos >= n THEN [t |-> FreeClusters(t, r, r.cpos), rec |-> Zero]
    ELSE [t |-> FreeClusters(t, r, n), rec |-> [r EXCEPT !.len = n - r.cpos]]
TruncateEbRec(t, r, n) ==
    IF End(r) <= n THEN [t |-> t, rec |-> r]
    ELSE IF r.cpos >= n \/ t.disk[r.blk].recs = <<>>
         THEN [t |-> Delete(t, r.blk), rec |-> Zero]
    ELSE [t |-> t, rec |-> [r EXCEPT !.len = n - r.cpos]]
\* The walk keeps the last leaf it saw: w.last, and its cpos.
RECURSIVE IterateEl(_, _, _)
IterateEb(v, r, n) ==       \* the block of an interior record, then the record
    LET child == v.t.disk[r.blk]
    IN  With(IterateEl(v, child, n), LAMBDA w :
            [seen |-> w,
             x |-> TruncateEbRec(IF w.recs = child.recs THEN w.t
                                 ELSE Write(w.t, [child EXCEPT !.recs = w.recs]), r, n)])
IterateEl(w, el, n) ==
    LET Record(v, i) ==
            LET r == el.recs[i]
            IN  IF el.depth > 0 THEN IterateEb(v, r, n)
                ELSE [seen |-> v, x |-> IF i = 1 /\ r.len = 0 THEN [t |-> v.t, rec |-> r]
                                        ELSE TruncateLeafRec(v.t, r, n)]
        Note(v, i, seen, x) ==
            LET later == el.depth > 0 /\ x.rec.len # 0 /\ x.rec.cpos >= seen.cpos
            IN  [t |-> x.t, recs |-> Append(v.recs, x.rec),
                 last |-> IF later /\ el.depth = 1 THEN el.recs[i].blk ELSE seen.last,
                 cpos |-> IF later THEN x.rec.cpos ELSE seen.cpos]
    IN  [FoldLeft(LAMBDA v, i : With(Record(v, i), LAMBDA s : Note(v, i, s.seen, s.x)),
                  [w EXCEPT !.recs = <<>>], [i \in DOMAIN el.recs |-> i])
            EXCEPT !.recs = IF @ = el.recs THEN @ ELSE Compact(@)]
ExtentIterateInode(t, n) ==
    LET Changed(w) == w.recs # t.root.recs \/ w.last # t.last
        \* i_clusters is the caller's to write: the inode has the old count here.
        Written(u) == [WriteRoot([u EXCEPT !.clusters = t.clusters])
                          EXCEPT !.clusters = u.clusters]
        Ended(u) == IF u.root.depth = 0 THEN u
                    ELSE IF u.last = 0 THEN Fail(u, "badblk")
                    ELSE IF u.disk[u.last].next = 0 THEN u
                    ELSE Write(u, [u.disk[u.last] EXCEPT !.next = 0])
    IN  With(IterateEl([t |-> t, recs |-> <<>>, last |-> 0, cpos |-> 0], t.root, n), LAMBDA w :
        With([w.t EXCEPT !.root.recs = w.recs, !.last = w.last], LAMBDA u :
            Ended(IF Changed(w) THEN Written(u) ELSE u)))
TruncateFull(t, n) ==
    Bind(ExtentIterateInode(t, n), LAMBDA u :
        WriteRoot([u EXCEPT !.root.depth = IF u.clusters = 0 THEN 0 ELSE @]))

-----------------------------------------------------------------------------
(* The calls. *)

Placed(c, n, f) == {<<x, Phys(c) + (x - c), f>> : x \in c..(c + n - 1)}
Mapped(x) == \E m \in want : m[1] = x

\* The records that still fit into the rightmost leaf, or into the one that takes
\* the records of a full root.
Slots(d) == IF Emptied(d) THEN 0
            ELSE IF d.root.depth > 0 THEN EbRecs - Len(d.disk[d.last].recs)
            ELSE IF Len(d.root.recs) = RootRecs THEN EbRecs - RootRecs ELSE EbRecs
\* What the call began with: gap, when the last interior record ends behind the
\* last leaf's extents.
Before(d) == [depth |-> d.root.depth, slots |-> Slots(d),
              gap |-> d.root.depth > 0 /\ ~Emptied(d)
                      /\ SumRightmost(d.root.recs) > SumRightmost(d.disk[d.last].recs)]
\* A truncation that fails has cut the file already: its error is that of the
\* last leaf's block, read after the walk.  Any other failure leaves the file.
Finish(t, op, target) ==
    LET atomic == op # "truncate" /\ (t.backup # <<>> \/ dev.root.depth = 0)
    IN  /\ dev' = FoldLeft(Apply, dev, t.log)
        /\ want' = IF t.err = "" \/ op = "truncate" THEN target ELSE want
        /\ call' = [op |-> op, err |-> t.err, from |-> want, freed |-> t.freed,
                    copied |-> atomic, was |-> Before(dev),
                    crashes |-> IF ~atomic THEN {}
                                ELSE {[reading |-> Reading(d),
                                       stray |-> Below(d.disk, d.root) \ d.used] :
                                         d \in Crashes(dev, t.log)}]

Insert(c, n, f, room) ==
    /\ call = Idle
    /\ c + n <= N /\ \A x \in c..(c + n - 1) : ~Mapped(x) /\ Phys(x) = Phys(c) + (x - c)
    /\ Finish(TreeInsertExtent(Begin(room), [cpos |-> c, blk |-> Phys(c), len |-> n, flag |-> f]),
              "insert", want \cup Placed(c, n, f))
\* The caller has looked the extent up.
ChangeFlag(c, room) ==
    /\ call = Idle
    /\ LET g == GetClusters(dev, c)
           f == 1 - g.flag
       IN  /\ g.blk # 0
           /\ \E n \in 1..g.len :
                 Finish(ChangeExtentFlag(Begin(room), c, n, Phys(c), f), "flag",
                        {m \in want : m[1] \notin c..(c + n - 1)} \cup Placed(c, n, f))
Truncate(n) ==
    /\ call = Idle
    /\ Finish(TruncateFull(Begin(0), n), "truncate", {m \in want : m[1] < n})

\* The next call begins.  Block numbers carry no meaning: they are given anew,
\* in the order of the tree.
Renumber(d) ==
    LET order == Preorder(d.disk, d.root)
        Name(b) == IF b = 0 THEN 0 ELSE CHOOSE i \in DOMAIN order : order[i] = b
        Recs(el) == IF el.depth = 0 THEN el.recs
                    ELSE [i \in DOMAIN el.recs |-> [el.recs[i] EXCEPT !.blk = Name(@)]]
    IN  [d EXCEPT !.root.recs = Recs(d.root), !.last = Name(@),
                  !.used = DOMAIN order,
                  !.disk = [b \in Blocks |->
                     IF b \notin DOMAIN order THEN Blank(b)
                     ELSE [d.disk[order[b]] EXCEPT !.blk = b, !.next = Name(@),
                                                   !.recs = Recs(d.disk[order[b]])]]]
\* Two damages end the life of a file here, and later calls on it are not part of
\* the model: a leaf that cannot be read, and a tree without a copy in which an
\* assertion stopped the call half-way.  What the file is then, the properties
\* say.  A process stopped while it changed a copy leaves the old tree.
Damaged == Overfull(dev) \/ (call.err = "abort" /\ ~call.copied)
Done == /\ call # Idle
        /\ ~Damaged
        /\ dev' = Renumber(dev)
        /\ call' = Idle
        /\ UNCHANGED want

Init == /\ dev = [root |-> [depth |-> 0, recs |-> <<>>], last |-> 0, clusters |-> 0,
                  disk |-> [b \in Blocks |-> Blank(b)], used |-> {}]
        /\ want = {}
        /\ call = Idle
Next == \/ \E c \in Offsets, n \in 1..N, f \in {0, 1}, room \in Rooms : Insert(c, n, f, room)
        \/ \E c \in Offsets, room \in Rooms : ChangeFlag(c, room)
        \/ \E n \in Offsets : Truncate(n)
        \/ Done
Spec == Init /\ [][Next]_vars

-----------------------------------------------------------------------------
(* Properties. *)

\* Whatever the call - an insertion that rotates or grows the tree, a split, a
\* merge, a truncation, a call that runs out of blocks - the device then maps
\* exactly the clusters the caller asked for, or after a failed insertion or
\* change of flags those of before.  A leaf that an append overfilled cannot be
\* read: then its clusters are missing, and no wrong one is there.
ReadsBack == IF Overfull(dev) THEN Reading(dev) \subseteq want ELSE Reading(dev) = want

\* ocfs2_get_clusters finds each cluster at its place with its flag, promises no
\* more clusters behind it than continue it, and tells how long a hole is, the
\* holes that end in the next leaf included.  In a deep tree that was truncated
\* to nothing it finds no hole but an error.
LookedUp ==
    call = Idle => \A c \in Offsets :
        LET g == GetClusters(dev, c)
            later == {m[1] : m \in {x \in want : x[1] > c}}
        IN  IF Mapped(c) THEN \A i \in 0..(g.len - 1) : <<c + i, g.blk + i, g.flag>> \in want
            ELSE g = [blk |-> 0, flag |-> 0,
                      len |-> IF Emptied(dev) THEN Corrupt
                              ELSE IF later = {} THEN NoMore ELSE Min(later) - c]

\* Every list is ordered and within its block, its records lie inside the record
\* that leads to it, the ranges of an interior list adjoin.
RECURSIVE Balanced(_, _, _, _)
Balanced(el, from, to, count) ==
    /\ Len(el.recs) \in 1..count
    /\ \A i \in DOMAIN el.recs : el.recs[i].cpos >= from /\ End(el.recs[i]) <= to
    /\ \A i \in 2..Len(el.recs) :
           IF el.depth = 0 THEN End(el.recs[i - 1]) <= el.recs[i].cpos
           ELSE End(el.recs[i - 1]) = el.recs[i].cpos
    /\ \A i \in DOMAIN el.recs :
           LET n == dev.disk[el.recs[i].blk]
           IN  IF el.depth = 0 THEN el.recs[i].len > 0
               ELSE n.depth = el.depth - 1
                    /\ Balanced(n, el.recs[i].cpos, End(el.recs[i]), EbRecs)
\* The tree the next call finds is one the code can work on: balanced, without
\* an empty extent, its leaves chained from left to right, i_last_eb_blk the
\* rightmost - though copies, rotations and unlinks renew the leaves one by one.
\* The one exception is the deep tree truncated to nothing: no leaf, no last one.
Shape ==
    LET ls == Leaves(dev.disk, dev.root)
    IN  call = Idle =>
        /\ dev.root.recs # <<>> => Balanced(dev.root, 0, N, RootRecs)
        /\ dev.root.depth = 0 \/ Emptied(dev) => dev.last = 0
        /\ dev.root.depth > 0 /\ ~Emptied(dev) =>
                                 /\ dev.last = Last(ls).blk
                                 /\ Last(ls).next = 0
                                 /\ \A i \in 2..Len(ls) : ls[i - 1].next = ls[i].blk

\* A crash after any write of an insertion or a change of flags leaves the old
\* mapping or the one the call ends with, once the tree could be copied: what
\* the copy is for.
Atomic == call # Idle => \A x \in call.crashes : x.reading \in {call.from, Reading(dev)}

\* A crash in a change of flags never leaves a root above blocks already given
\* back: there the root is written before the old tree is freed.
KeepsOld == call # Idle /\ call.op = "flag" => \A x \in call.crashes : x.stray = {}

\* No block of the tree is free, and after a call that succeeded no other one is
\* in use - except that a copy given up half-way in a tree of depth two leaves
\* the copied leaves behind.
NoLeak == call # Idle /\ call.err # "abort" =>
             /\ Below(dev.disk, dev.root) \subseteq dev.used
             /\ call.err = "" /\ (call.copied \/ call.was.depth < 2)
                    => dev.used = Below(dev.disk, dev.root)

\* A truncation gives back exactly the clusters the file loses, each once, and
\* i_clusters counts the ones it keeps, whichever leaves it empties on the way -
\* except when it empties a deep tree: it fails before i_clusters is written.
Freed == IF call # Idle THEN call.freed = {m[2] : m \in {x \in call.from : ~Mapped(x[1])}}
         ELSE IF Emptied(dev) THEN want = {} /\ dev.clusters > 0
         ELSE dev.clusters = Cardinality(want)

\* Three things go wrong in these calls, and no others.  An assertion fails in a
\* split into three while the rightmost leaf has a single record left: the copy
\* of that leaf that split_and_insert keeps is not read again for the second
\* pass.  An append behind a full leaf, into a hole a truncation left under the
\* last interior record, overfills that leaf and reports success: the interior
\* record still leads there, not to the leaf added for it.  And the truncation of
\* a deep tree to nothing fails with BAD_BLKNO on the last leaf it no longer has,
\* as does every call after it.
OnlyTheseFail ==
    call # Idle =>
        /\ call.err = "abort" => call.op = "flag" /\ call.was.slots = 1
        /\ Overfull(dev) => /\ call.op = "insert" /\ call.err = ""
                            /\ call.was.slots = 0 /\ call.was.gap
        /\ call.err = "badblk" <=> Emptied(dev)
        /\ call.err \in {"", "nospc", "abort", "badblk"}

\* The records on the device are the file, to a reader of the whole tree and to
\* ocfs2_get_clusters().
Mapping == ReadsBack /\ LookedUp

\* What the copy of a tree is made for: a crash between two of its writes finds
\* one mapping or the other, and no free block in it.
CrashSafe == Atomic /\ KeepsOld

\* Blocks and clusters are in use exactly while the file has them, whatever
\* ocfs2_tree_insert_extent(), ocfs2_rotate_tree_left() and the truncation free.
Accounted == NoLeak /\ Freed
=============================================================================
