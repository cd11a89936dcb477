---------------------------- MODULE RefcountFiles ----------------------------
(***************************************************************************)
(* A volume whose files share clusters under one refcount tree, and what   *)
(* the tools do with it: fsck.ocfs2 compares the tree with the files       *)
(* (fsck.ocfs2/refcount.c) and turns clusters claimed twice into shared    *)
(* ones (pass1b.c); then files are written to, which copies what they      *)
(* share (ocfs2_refcount_cow), truncated (truncate.c), or the feature is   *)
(* taken off the volume (tunefs.ocfs2/feature_refcount.c).  A file is the  *)
(* extent list of its inode.  A step is a whole call; what a crash in it   *)
(* leaves is read off its log of writes.                                   *)
(***************************************************************************)
EXTENDS RefcountTree, TLC

CONSTANTS
    Files,         \* in the order of their inodes, a sequence
    Volumes,       \* what the files may be to begin with
    Clusters,      \* the clusters that may be shared, 1 .. some number
    Pool,          \* the clusters behind them, free to begin with
    Contig,        \* MAX_CONTIG_BYTES, in clusters
    MaxCount,      \* counts a damaged tree has
    MaxDamage,     \* clusters whose count is wrong
    FileRecs,      \* l_count of the inode
    Rooms,         \* how many blocks the allocator may have left
    MaxCalls       \* calls after the check

VARIABLES
    dev,           \* the device: the refcount tree, the files, the data
    calls,         \* calls made since the check
    call           \* the call just made and what it came to
vars == <<dev, calls, call>>

FileTree == INSTANCE ExtentTree WITH RootRecs <- FileRecs

Far32 == 99        \* UINT_MAX
Owners == ToSet(Files)
Run(c, n) == c..(c + n - 1)
Ascending(S) == SelectSeq([c \in Clusters |-> c], LAMBDA c : c \in S)

-----------------------------------------------------------------------------
(* Files. *)

Holds(r, c) == c \in Run(r.blk, r.len)
Claims(d, c) == {f \in Owners : \E r \in ToSet(d.file[f]) : Holds(r, c)}
Refs(d, c) == {f \in Owners : \E r \in ToSet(d.file[f]) : Holds(r, c) /\ r.flag = 1}
Mapped(d) == UNION {UNION {Run(r.blk, r.len) : r \in ToSet(d.file[f])} : f \in Owners}
\* What the file reads as: <<offset, data>>.
Contents(d, f) == UNION {{<<v, d.data[r.blk + (v - r.cpos)]>> : v \in Run(r.cpos, r.len)} :
                            r \in ToSet(d.file[f])}
GetClusters(recs, v) ==
    LET later == {r.cpos : r \in {x \in ToSet(recs) : x.cpos > v}}
        Extent(r) == [blk |-> r.blk + (v - r.cpos), flag |-> r.flag, len |-> End(r) - v]
    IN  With(SearchList(recs, v), LAMBDA k :
            IF k # 0 THEN Extent(recs[k])
            ELSE [blk |-> 0, flag |-> 0, len |-> IF later = {} THEN Far32 ELSE Min(later) - v])
WriteFile(x, f, recs) == [x EXCEPT !.file[f] = recs,
                                   !.log = Append(@, [do |-> "file", n |-> [f |-> f, recs |-> recs]])]
\* ocfs2_change_extent_flag on the inode's list.
ChangeFlag(x, f, v, n, p, flag) ==
    LET d == [root |-> [depth |-> 0, recs |-> x.file[f]], last |-> 0, clusters |-> 0,
              disk |-> <<>>, used |-> {}]
    IN  With(FileTree!ChangeExtentFlag(FileTree!Call("dinode", d, 0), v, n, p, flag), LAMBDA u :
            IF u.err # "" THEN Fail(x, u.err) ELSE WriteFile(x, f, u.root.recs))

-----------------------------------------------------------------------------
(* Copy on write. *)

AlignStart(start, c) == start + ((c - start) \div Contig) * Contig
AlignLength(n) == ((n + Contig - 1) \div Contig) * Contig

CowPart_Short(w, r, c, n, e) ==
    LET len == e - r.cpos
        start == IF w.len = 0 THEN r.cpos ELSE w.start
        need == IF w.len = 0 THEN n ELSE (c + n) - (start + w.len)
        wants == IF need < Contig THEN Contig ELSE need
        aligned == AlignStart(start, c)
    IN  IF len <= Contig THEN [start |-> start, len |-> w.len + len]
        ELSE IF w.len # 0 \/ start = c
             THEN [start |-> start, len |-> w.len + Lesser(len, AlignLength(wants))]
        ELSE IF start + Contig >= c THEN [start |-> start, len |-> Contig]
        ELSE IF e - c <= Contig THEN [start |-> e - Contig, len |-> Contig]
        ELSE IF e - c <= wants THEN [start |-> aligned, len |-> e - aligned]
        ELSE [start |-> aligned, len |-> Lesser(AlignLength(c + n - aligned), e - aligned)]
\* Which part of record r is copied for a write of n clusters at c, w being the
\* part chosen so far and e where r ends for this write.
CowPart(w, r, c, n, e) ==
    LET len == e - r.cpos
        start == IF w.len = 0 THEN r.cpos ELSE w.start
        need == IF w.len = 0 THEN n ELSE (c + n) - (start + w.len)
        wants == IF need < Contig THEN Contig ELSE need
        aligned == AlignStart(start, c)
    IN  IF len <= Contig THEN [start |-> start, len |-> w.len + len]
        ELSE IF w.len # 0 \/ start = c
             THEN [start |-> start, len |-> w.len + Lesser(len, AlignLength(wants))]
        ELSE IF start + Contig >= c + n THEN [start |-> start, len |-> Contig]
        ELSE IF e - c <= Contig THEN [start |-> e - Contig, len |-> Contig]
        ELSE IF e - c <= wants THEN [start |-> aligned, len |-> e - aligned]
        ELSE [start |-> aligned, len |-> Lesser(AlignLength(c + n - aligned), e - aligned)]
RECURSIVE CalCow(_, _, _, _, _, _)
CalCow(recs, i, c, n, max, w) ==
    LET r == recs[i]
        e == Lesser(End(r), max)
    IN  IF i > Len(recs) THEN w
        ELSE IF End(r) <= c THEN CalCow(recs, i + 1, c, n, max, w)
        ELSE IF r.flag = 0 \/ (w.len # 0 /\ w.end # r.cpos) \/ max <= r.cpos THEN w
        ELSE With([end |-> e] @@ CowPart(w, r, c, n, e), LAMBDA next :
            IF next.start + next.len >= c + n THEN next
            ELSE CalCow(recs, i + 1, c, n, max, next))

\* A run of free clusters, n at most and one at least.
NewClusters(x, n) ==
    LET s == Min(x.free)
        k == Max({m \in 1..n : Run(s, m) \subseteq x.free})
    IN  [start |-> s, len |-> Lesser(x.grant, k)]
\* The shared extents are written ones: one not yet written is moved without a copy.
DuplicateClusters(x, p, new) ==
    LET w == [from |-> p, to |-> new.start, len |-> new.len]
    IN  [x EXCEPT !.free = @ \ Run(w.to, w.len),
                  !.log = Append(@, [do |-> "copy", n |-> w])]
\* The piece at p with one count: its own already, or to be copied.
Piece(x, p, n, r) ==
    LET share == Lesser(p + n, End(r)) - p
        new == NewClusters(x, share)
    IN  IF r.count = 1 THEN [own |-> TRUE, share |-> share, len |-> share, start |-> p]
        ELSE [own |-> FALSE, share |-> share, len |-> new.len, start |-> new.start]
Copied(x, p, w) == IF w.own THEN x ELSE DuplicateClusters(x, p, w)
ReplaceClusters_All(x, f, v, p, w) ==
    Bind(ChangeFlag(Copied(x, p, w), f, v, w.len, w.start, 0),
         LAMBDA y : Decrease(y, p, w.share, ~w.own))
ReplaceClusters_CountFirst(x, f, v, p, w) ==
    Bind(Decrease(x, p, w.len, ~w.own),
         LAMBDA y : ChangeFlag(Copied(y, p, w), f, v, w.len, w.start, 0))
ReplaceClusters(x, f, v, p, w) ==
    Bind(ChangeFlag(Copied(x, p, w), f, v, w.len, w.start, 0),
         LAMBDA y : Decrease(y, p, w.len, ~w.own))
RECURSIVE MakeWritable(_, _, _, _, _)
MakeWritable(x, f, v, p, n) ==
    IF n = 0 THEN x
    ELSE With(GetRec(x, p, n).rec, LAMBDA r :
        IF r.count = 0 THEN Fail(x, "abort")
        ELSE IF r.count > 1 /\ x.free = {} THEN Fail(x, "nospc")
        ELSE With(Piece(x, p, n, r), LAMBDA w :
                 Bind(ReplaceClusters(x, f, v, p, w),
                      LAMBDA y : MakeWritable(y, f, v + w.len, p + w.len, n - w.len))))
RECURSIVE ReplaceCow(_, _, _, _)
ReplaceCow(x, f, v, n) ==
    IF n = 0 THEN x
    ELSE With(GetClusters(x.file[f], v), LAMBDA g :
        LET part == Lesser(n, g.len)
        IN  IF g.flag = 0 THEN Fail(x, "abort")
            ELSE Bind(MakeWritable(x, f, v, g.blk, part),
                      LAMBDA y : ReplaceCow(y, f, v + part, n - part)))
CowHunk(x, f, v, n, max) ==
    With(CalCow(x.file[f], 1, v, n, max, [start |-> 0, len |-> 0, end |-> 0]), LAMBDA w :
        IF w.len = 0 THEN Fail(x, "abort") ELSE ReplaceCow(x, f, w.start, w.len))
RECURSIVE RefcountCow(_, _, _, _, _)
RefcountCow(x, f, v, n, max) ==
    IF n = 0 THEN x
    ELSE With(GetClusters(x.file[f], v), LAMBDA g :
        LET part == Lesser(n, g.len)
        IN  Bind(IF g.flag = 0 THEN x ELSE CowHunk(x, f, v, part, max),
                 LAMBDA y : RefcountCow(y, f, v + part, n - part, max)))

-----------------------------------------------------------------------------
(* Truncation. *)

\* Records are cut one after the other until one fails; w.cut: one was changed.
TruncateRec1(w, r, n) ==
    LET from == IF r.cpos < n THEN n ELSE r.cpos
        p == r.blk + (from - r.cpos)
        len == End(r) - from
        left == IF r.cpos >= n THEN Zero ELSE [r EXCEPT !.len = n - r.cpos]
    IN  IF w.x.err # "" \/ End(r) <= n THEN [w EXCEPT !.recs = Append(@, r)]
        ELSE With(IF r.flag = 1 THEN Decrease(w.x, p, len, TRUE) ELSE FreeClusters(w.x, p, len),
                  LAMBDA u : [x |-> u, cut |-> w.cut \/ u.err = "", recs |-> Append(w.recs, left)])
\* The callback's error is to be found in a field nobody has set: seen is
\* whether what is there looks like an error.
IterateRecs(x, f, n, seen) ==
    With(FoldLeft(LAMBDA v, r : TruncateRec1(v, r, n),
                  [x |-> x, recs |-> <<>>, cut |-> FALSE], x.file[f]), LAMBDA w :
        IF w.x.err # "" /\ (seen \/ w.x.err = "abort") THEN w.x
        ELSE WriteFile([w.x EXCEPT !.err = "", !.missed = w.x.err # ""], f,
                       IF w.cut THEN Compact(w.recs) ELSE w.recs))
\* The last cluster is emptied behind the new size, after it was made the file's.
ZeroTail(x, f, n) ==
    LET Tail1(y) == GetClusters(y.file[f], n - 1)
        Emptied(y) == [y EXCEPT !.log = Append(@, [do |-> "zero", n |-> Tail1(y).blk])]
    IN  IF Tail1(x).blk = 0 THEN x
        ELSE Bind(IF Tail1(x).flag = 0 THEN x ELSE RefcountCow(x, f, n - 1, 1, n),
                  LAMBDA y : Check(Emptied(y), Tail1(y).flag = 0 /\ Tail1(y).blk # 0))
Attach(x, S, k) == [x EXCEPT !.attached = S, !.rfcount = k,
                             !.log = Append(@, [do |-> "attach", n |-> [files |-> S, count |-> k]])]
DeleteRoot(x) == [x EXCEPT !.log = Append(@, [do |-> "delete"])]
Detach(x, f) ==
    LET y == IF x.rfcount = 1 THEN DeleteRoot(x) ELSE x
    IN  Attach(y, x.attached \ {f}, x.rfcount - 1)
TruncateFull(x, f, n, tail, seen) ==
    Bind(IterateRecs(x, f, n, seen), LAMBDA y :
        Bind(IF tail THEN ZeroTail(y, f, n) ELSE y, LAMBDA z :
            IF n = 0 /\ f \in z.attached THEN Detach(z, f) ELSE z))

-----------------------------------------------------------------------------
(* tunefs.ocfs2: every file is copied, then the tree is freed. *)

Size(x, f) == IF x.file[f] = <<>> THEN 0 ELSE End(Last(x.file[f]))
InOrder(S) == SelectSeq(Files, LAMBDA f : f \in S)
Flagged(x, f) == FoldLeft(LAMBDA k, r : IF r.flag = 1 THEN k + r.len ELSE k, 0, x.file[f])
DisableRefcount(x) ==
    LET need == FoldLeft(LAMBDA k, f : k + Flagged(x, f) + (IF Flagged(x, f) = 0 THEN 0 ELSE 1),
                         0, InOrder(x.attached))
    IN  IF Cardinality(x.free) < need THEN Fail(x, "nospc")
        ELSE Bind(FoldLeft(LAMBDA y, f : Bind(y, LAMBDA z :
                               Bind(RefcountCow(z, f, 0, Size(z, f), Far32),
                                    LAMBDA u : Attach(u, u.attached \ {f}, u.rfcount))),
                           x, InOrder(x.attached)),
                  LAMBDA y : Check(DeleteRoot(y), ~y.tree /\ y.rl = <<>>))

-----------------------------------------------------------------------------
(* fsck.ocfs2: the counts against the files.  exts has the shared extents   *)
(* of each file by their place; cend is where the check has come to.        *)

\* first: in the file it is before the extents at lower places.
Extents(recs) ==
    LET shared == SelectSeq(recs, LAMBDA r : r.flag = 1)
        Ext(r) == [p |-> r.blk, v |-> r.cpos, len |-> r.len,
                   first |-> \A y \in ToSet(shared) : r.cpos <= y.cpos]
    IN  SetToSortSeq({Ext(r) : r \in ToSet(shared)}, LAMBDA a, b : a.p < b.p)
GetRefcountedExtent_Whole(x) ==
    LET heads == {<<f, Head(x.exts[f])>> : f \in {g \in x.attached : x.exts[g] # <<>>}}
        p == Min({h[2].p : h \in heads})
        here == {h \in heads : h[2].p = p}
    IN  [p |-> p, count |-> Cardinality(here),
         len |-> Min({h[2].len : h \in here})]
GetRefcountedExtent(x) ==
    LET heads == {<<f, Head(x.exts[f])>> : f \in {g \in x.attached : x.exts[g] # <<>>}}
        p == Min({h[2].p : h \in heads})
        here == {h \in heads : h[2].p = p}
    IN  [p |-> p, count |-> Cardinality(here),
         len |-> Min({h[2].len : h \in here} \cup {h[2].p - p : h \in heads \ here})]
\* v stays where it was.
RemoveRefcountedExtent(x, p, n) ==
    LET Rest(es) == IF es = <<>> \/ p + n <= Head(es).p THEN es
                    ELSE IF p + n = Head(es).p + Head(es).len THEN Tail(es)
                    ELSE [es EXCEPT ![1].p = p + n, ![1].len = @ - (p + n - es[1].p)]
    IN  [x EXCEPT !.exts = [f \in Owners |-> Rest(@[f])]]
\* Without attributes an extent at another place is nowhere: nothing is changed.
ChangeRefcountFlag(x, f, v, n, p, flag) ==
    LET g == GetClusters(x.file[f], v)
    IN  IF g.blk # p THEN x
        ELSE Bind(Check(x, g.len >= n), LAMBDA y : ChangeFlag(y, f, v, n, p, flag))
\* The search misses p when it comes by the extent that begins at p+n: it does
\* when that was put into the file's tree first.
ClearRefcount(x, p, n) ==
    LET Missed(es) == Len(es) > 1 /\ es[2].first /\ es[2].p = p + n
        In(es) == /\ es # <<>> /\ ~Missed(es)
                  /\ Head(es).p <= p /\ p + n <= Head(es).p + Head(es).len
    IN  FoldLeft(LAMBDA y, f : Bind(y, LAMBDA z :
                     IF ~In(x.exts[f]) THEN z
                     ELSE LET e == Head(x.exts[f])
                          IN  ChangeRefcountFlag(z, f, p - e.p + e.v, n, p, 0)),
                 x, InOrder(x.attached))
MarkAllocated(x, S) == [x EXCEPT !.dups = @ \cup (S \cap x.alloc), !.alloc = @ \cup S]

RECURSIVE RemoveRange(_, _, _)
RemoveRange(x, c, e) ==
    IF c = e THEN x
    ELSE With(GetRec(x, c, e - c), LAMBDA u :
        IF u.rec.count = 0 THEN RemoveRange(u, c + u.rec.len, e)
        ELSE IF x.yes.redundant THEN PunchHole(u, c, e - c) ELSE u)
RECURSIVE CheckRecs(_, _, _, _)
CheckRecs(x, p, n, count) ==
    With(GetRec(x, p, n), LAMBDA u :
        LET e == End(u.rec)
            len == Lesser(p + n, e) - p
        IN  Bind(IF u.rec.count = count THEN u
                 ELSE IF x.yes.count THEN ChangeRefcount(u, p, len, count)
                 ELSE Bind(PunchHole(MarkAllocated(u, Run(p, len)), p, len),
                           LAMBDA z : ClearRefcount(z, p, len)),
                 LAMBDA y : IF p + n <= e THEN y ELSE CheckRecs(y, e, p + n - e, count)))
CheckInRefcount(x, p, n, count) ==
    IF n = 0 THEN x
    ELSE Bind(RemoveRange(x, x.cend, p),
              LAMBDA y : CheckRecs([y EXCEPT !.cend = p + n], p, n, count))
\* A cluster that is also somebody's own leaves the tree.
RECURSIVE CheckClusters(_, _, _, _)
CheckClusters(x, p, n, count) ==
    LET dup == x.dups \cap Run(p, n)
        d == IF dup = {} THEN p + n ELSE Min(dup)
    IN  IF n = 0 THEN x
        ELSE Bind(CheckInRefcount(x, p, d - p, count), LAMBDA y :
                 IF dup = {} THEN y
                 ELSE Bind(Bind(PunchHole(y, d, 1), LAMBDA z : ClearRefcount(z, d, 1)),
                           LAMBDA z : CheckClusters(z, d + 1, p + n - (d + 1), count)))
RECURSIVE CheckExtents(_, _, _)
CheckExtents(x, to, end) ==
    IF \A f \in x.attached : x.exts[f] = <<>>
    THEN IF end > to THEN RemoveRange(x, to, end) ELSE x
    ELSE With(GetRefcountedExtent(x), LAMBDA e :
        Bind(CheckClusters(MarkAllocated(x, Run(e.p, e.len)), e.p, e.len, e.count),
             LAMBDA y : CheckExtents(RemoveRefcountedExtent(y, e.p, e.len), e.p + e.len, end)))
Records(d) == IF ~d.tree THEN d.rl
              ELSE FoldLeft(LAMBDA rs, l : rs \o FoldLeft(LAMBDA ss, r : ss \o d.rb[r.blk].recs,
                                                          <<>>, l.recs),
                            <<>>, Leaves(d.disk, d.root))
CheckRefcount(x) ==
    LET own == UNION {UNION {Run(r.blk, r.len) : r \in {y \in ToSet(x.file[f]) : y.flag = 0}} :
                         f \in Owners}
        end == IF Records(x) = <<>> THEN 0 ELSE End(Last(Records(x)))
        y == IF Cardinality(x.attached) # x.rfcount /\ x.yes.files
             THEN Attach(x, x.attached, Cardinality(x.attached)) ELSE x
    IN  CheckExtents([y EXCEPT !.alloc = own, !.exts = [f \in Owners |-> Extents(x.file[f])]],
                     0, end)

-----------------------------------------------------------------------------
(* Pass 1d: the clusters claimed twice become shared ones. *)

CreateRefcount(x, c) ==
    LET Join1(y, f) == IF f \in y.attached THEN y
                       ELSE Attach(y, y.attached \cup {f}, y.rfcount + 1)
        At(y, f) == LET r == CHOOSE r \in ToSet(y.file[f]) : Holds(r, c)
                    IN  r.cpos + (c - r.blk)
    IN  IF Cardinality(Claims(x, c)) < 2 THEN x
        ELSE FoldLeft(LAMBDA y, f : Bind(y, LAMBDA z :
                          Bind(ChangeRefcountFlag(Join1(z, f), f, At(z, f), 1, c, 1),
                               LAMBDA u : Increase(u, c, 1, 1))),
                      x, InOrder(Claims(x, c)))
Pass1d(x) == IF ~x.yes.share THEN x
             ELSE FoldLeft(LAMBDA y, c : Bind(y, LAMBDA z : CreateRefcount(z, c)),
                           x, Ascending(x.dups))
Fsck(x) == Bind(CheckRefcount(x), Pass1d)

-----------------------------------------------------------------------------
(* The device under a log of writes. *)

\* A tail's data behind the new size is gone.
Zeroed(data) == 100 + data
NoTree == [root |-> [depth |-> 0, recs |-> <<>>], last |-> 0, clusters |-> 0]
ApplyRoot(d, r) == [d EXCEPT !.root = r.root, !.last = r.last, !.clusters = r.clusters]
Apply(d, w) ==
    CASE w.do = "new"    -> [d EXCEPT !.used = @ \cup {w.n.blk}, !.disk[w.n.blk] = w.n,
                                      !.rb[w.n.blk] = BlankLeaf(w.n.blk)]
      [] w.do = "write"  -> [d EXCEPT !.disk[w.n.blk] = w.n]
      [] w.do = "rb"     -> [d EXCEPT !.rb[w.n.blk] = w.n]
      [] w.do = "free"   -> [d EXCEPT !.used = @ \ {w.n.blk}]
      [] w.do = "inline" -> [ApplyRoot(d, NoTree) EXCEPT !.tree = FALSE, !.rl = w.n.recs]
      [] w.do = "root"   -> [ApplyRoot(d, w.n) EXCEPT !.tree = TRUE, !.rl = <<>>]
      [] w.do = "file"   -> [d EXCEPT !.file[w.n.f] = w.n.recs]
      [] w.do = "copy"   -> [d EXCEPT !.free = @ \ Run(w.n.to, w.n.len),
                                      !.data = [c \in DOMAIN @ |->
                                          IF c \in Run(w.n.to, w.n.len)
                                          THEN @[w.n.from + (c - w.n.to)] ELSE @[c]]]
      [] w.do = "zero"   -> [d EXCEPT !.data[w.n] = Zeroed(@)]
      [] w.do = "data"   -> [d EXCEPT !.free = @ \cup w.n]
      [] w.do = "attach" -> [d EXCEPT !.attached = w.n.files, !.rfcount = w.n.count]
      [] w.do = "delete" -> [d EXCEPT !.exists = FALSE]
Crashes(d, log) == ToSet(FoldLeft(LAMBDA ds, w : Append(ds, Apply(Last(ds), w)), <<d>>, log))

Yes == [redundant |-> TRUE, count |-> TRUE, files |-> TRUE, share |-> TRUE]
\* No question is answered no, one is, or all are.
Answers == {yes \in [DOMAIN Yes -> BOOLEAN] : Cardinality({q \in DOMAIN yes : ~yes[q]}) \in {0, 1, 4}}
Begin(d, room, grant, yes) ==
    [tree |-> d.tree, rl |-> d.rl, rb |-> d.rb, leaf |-> BlankLeaf(0), rec |-> Rec(0, 0, 0),
     index |-> 0, over |-> FALSE, free |-> d.free, file |-> d.file, attached |-> d.attached,
     rfcount |-> d.rfcount, grant |-> grant, missed |-> FALSE, yes |-> yes, exts |-> <<>>,
     cend |-> 0, alloc |-> {}, dups |-> {}] @@ Call("refcount", d, room)

\* What the tree says of a cluster; the leaf blocks it has.
CountIn(recs, c) == LET k == SearchList(recs, c) IN IF k = 0 THEN 0 ELSE recs[k].count
Count(d, c) == CountIn(Records(d), c)
LeafBlocks(d) == IF ~d.tree THEN <<>>
                 ELSE FoldLeft(LAMBDA bs, l : bs \o [i \in DOMAIN l.recs |-> l.recs[i].blk],
                               <<>>, Leaves(d.disk, d.root))
TreeBlocks(d) == Preorder(d.disk, d.root) \o LeafBlocks(d)
Under(d) == With(Records(d), LAMBDA recs :
                {c \in Clusters : CountIn(recs, c) < Cardinality(Refs(d, c))})
Agree(d) == With(Records(d), LAMBDA recs :
                \A c \in Clusters : CountIn(recs, c) = Cardinality(Refs(d, c)))
Flags(d) == {c \in Clusters : Refs(d, c) # {}}
\* Every cluster of more than one file is shared by all of them.
Settled(d) == \A c \in Clusters : Cardinality(Claims(d, c)) > 1 => Refs(d, c) = Claims(d, c)

\* Block numbers carry no meaning: they are given anew, in the order of the tree.
Renumber(d) ==
    LET order == TreeBlocks(d)
        Name(b) == IF b = 0 THEN 0 ELSE CHOOSE i \in DOMAIN order : order[i] = b
        Recs(el) == [i \in DOMAIN el.recs |-> [el.recs[i] EXCEPT !.blk = Name(@)]]
        inner == Below(d.disk, d.root)
    IN  [d EXCEPT !.root.recs = Recs(d.root), !.last = Name(@), !.used = DOMAIN order,
                  !.disk = [b \in Blocks |->
                     IF b \notin DOMAIN order \/ order[b] \notin inner THEN Blank(b)
                     ELSE [d.disk[order[b]] EXCEPT !.blk = b, !.next = Name(@),
                                                   !.recs = Recs(d.disk[order[b]])]],
                  !.rb = [b \in Blocks |->
                     IF b \notin DOMAIN order \/ order[b] \in inner THEN BlankLeaf(b)
                     ELSE [d.rb[order[b]] EXCEPT !.blk = b]]]

-----------------------------------------------------------------------------
(* The calls. *)

Idle == [op |-> "idle"]
Changes == {"cow", "truncate", "disable"}
Ended == Changes \cup {"fsck"}
Finish(x, op, f, range, want) ==
    LET d == FoldLeft(Apply, dev, x.log)
        crashed == IF op = "fsck" THEN {} ELSE Crashes(dev, x.log)
    IN  /\ dev' = IF ToSet(TreeBlocks(d)) = d.used THEN Renumber(d) ELSE d
        /\ calls' = IF op = "fsck" THEN 0 ELSE calls + 1
        /\ call' = [op |-> op, err |-> x.err, over |-> x.over, missed |-> x.missed,
                    f |-> f, range |-> range, want |-> want, dups |-> x.dups, yes |-> x.yes,
                    was |-> [file |-> dev.file, data |-> dev.data],
                    crashes |-> {[changed |-> {g \in Owners : Contents(e, g) # Contents(dev, g)},
                                  lost |-> Mapped(e) \cap e.free,
                                  under |-> Under(e),
                                  blank |-> \E b \in ToSet(LeafBlocks(e)) : e.rb[b].recs = <<>>] :
                                    e \in crashed}]
FsckCall(yes, room) ==
    /\ call.op = "new"
    /\ Finish(Fsck(Begin(dev, room, Far32, yes)), "fsck", Files[1], {}, Contents(dev, Files[1]))
\* The next call finds a volume in order.
Done == /\ call.op \in Ended
        /\ call.err # "abort" /\ ~call.over /\ ~call.missed /\ dev.exists
        /\ Agree(dev) /\ Settled(dev) /\ dev.rfcount = Cardinality(dev.attached)
        /\ dev.used = ToSet(TreeBlocks(dev))
        /\ call' = Idle
        /\ UNCHANGED <<dev, calls>>
Cow(f, v, n, room, grant) ==
    /\ call = Idle /\ calls < MaxCalls
    /\ f \in dev.attached /\ n > 0 /\ v + n <= Size(dev, f)
    /\ Finish(RefcountCow(Begin(dev, room, grant, Yes), f, v, n, Far32), "cow", f, Run(v, n),
              Contents(dev, f))
Truncate(f, n, tail, seen, room) ==
    /\ call = Idle /\ calls < MaxCalls
    /\ n < Size(dev, f) \/ (tail /\ n = Size(dev, f))
    /\ tail => n > 0
    /\ Finish(TruncateFull(Begin(dev, room, Far32, Yes), f, n, tail, seen), "truncate", f, {},
              {IF tail /\ m[1] = n - 1 THEN <<m[1], Zeroed(m[2])>> ELSE m :
                  m \in {x \in Contents(dev, f) : x[1] < n}})
Disable(room, grant) ==
    /\ call = Idle /\ calls < MaxCalls
    /\ Finish(DisableRefcount(Begin(dev, room, grant, Yes)), "disable", Files[1], {},
              Contents(dev, Files[1]))

\* The tree the check finds was made by the library: cluster by cluster each count
\* is given, to a new tree or (after Wear) to one with a leaf for every few
\* clusters.  Some of the counts are wrong, or the number of files is.
Step(t, wrong, next) ==
    /\ dev' = Renumber(FoldLeft(Apply, dev, t.log))
    /\ call' = IF call.c < Max(Clusters) THEN [call EXCEPT !.c = @ + 1, !.wrong = wrong] ELSE next
    /\ UNCHANGED calls
Maker == Begin(dev, Cardinality(Blocks), 1, Yes)
Wear ==
    /\ call.op = "wear"
    /\ Step(Increase(Maker, call.c, 1, 1 + (call.c % 2)), 0, [call EXCEPT !.op = "make", !.c = 1])
Made(t, c, has, count) ==
    IF count = has THEN t
    ELSE IF count = 0 THEN PunchHole(t, c, 1)
    ELSE IF has = 0 THEN Increase(t, c, 1, count)
    ELSE ChangeRefcount(t, c, 1, count)
Make(count) ==
    /\ call.op = "make"
    /\ LET wrong == call.wrong + (IF count = Cardinality(Refs(dev, call.c)) THEN 0 ELSE 1)
       IN  /\ wrong <= MaxDamage /\ (wrong > 0 => dev.rfcount = Cardinality(dev.attached))
           /\ Step(Made(Maker, call.c, Count(dev, call.c), count), wrong, [op |-> "new"])
Init ==
    \E file \in Volumes, op \in {"wear", "make"}, k \in {0, 1} :
        LET attached == {f \in Owners : \E r \in ToSet(file[f]) : r.flag = 1}
        IN  /\ dev = [tree |-> FALSE, rl |-> <<>>, rb |-> [b \in Blocks |-> BlankLeaf(b)],
                      disk |-> [b \in Blocks |-> Blank(b)], used |-> {}, file |-> file,
                      attached |-> attached, rfcount |-> Cardinality(attached) + k,
                      exists |-> TRUE, data |-> [c \in Clusters \cup Pool |-> c],
                      free |-> (Clusters \cup Pool) \ Mapped([file |-> file])] @@ NoTree
            /\ calls = 0
            /\ call = [op |-> op, c |-> 1, wrong |-> 0]
Next ==
    \/ Wear
    \/ \E count \in 0..MaxCount : Make(count)
    \/ \E yes \in Answers, room \in Rooms : FsckCall(yes, room)
    \/ \E f \in Owners, room \in Rooms, grant \in {1, Far32} :
          \E v \in 0..(Size(dev, f) - 1), n \in 1..Size(dev, f) : Cow(f, v, n, room, grant)
    \/ \E f \in Owners, tail, seen \in BOOLEAN, room \in Rooms :
          \E n \in 0..Size(dev, f) : Truncate(f, n, tail, seen, room)
    \/ \E room \in Rooms, grant \in {1, Far32} : Disable(room, grant)
    \/ Done
Spec == Init /\ [][Next]_vars

-----------------------------------------------------------------------------
(* Properties. *)

Called(ops) == call.op \in ops

\* The extent of a reference to c has, before c, the end of another reference:
\* the check comes to c in a later step than to the extent's beginning.
Cut(d, c) == \E f, g \in Owners : \E r \in ToSet(d.file[f]), q \in ToSet(d.file[g]) :
                /\ r.flag = 1 /\ q.flag = 1 /\ Holds(r, c)
                /\ {q.blk, q.blk + q.len} \cap ((r.blk + 1)..c) # {}
\* The extent is followed on the volume by one that is before it in the file.
Swapped(d, c) == \E f \in Owners : \E r, q \in ToSet(d.file[f]) :
                    r.flag = 1 /\ q.flag = 1 /\ Holds(r, c) /\ q.blk = r.blk + r.len
                    /\ q.cpos < r.cpos
\* All that is shared behind c was taken out of the tree.
Passed(c) == LET later == {e \in Flags(call.was) : e > c}
             IN  later # {} /\ later \subseteq call.dups

\* fsck.ocfs2 that may repair everything leaves each cluster with as many counts
\* as references, every cluster of several files shared by all of them, and the
\* number of files right.  Three defects are taken out: a hole that get_refcount_rec
\* says reaches past the extent block; a cluster claimed twice in the later part
\* of an extent, whose offset remove_refcounted_extent has lost: pass 1d then ends
\* with an I/O error; and counts of nobody before a last extent that is claimed
\* twice altogether, which o2fsck_check_clusters_in_refcount never looks at.
Repaired ==
    Called({"fsck"}) /\ call.yes = Yes /\ ~call.over /\ call.err # "nospc" =>
        IF \E c \in call.dups : Cut(call.was, c) THEN call.err = "io"
        ELSE /\ call.err = "" /\ Settled(dev) /\ dev.rfcount = Cardinality(dev.attached)
             /\ \A c \in Clusters : \/ Count(dev, c) = Cardinality(Refs(dev, c))
                                    \/ Refs(dev, c) = {} /\ Passed(c)

\* Whatever is answered, a check that ends well leaves no reference uncounted
\* (the cluster would be freed under a file) - but where a correction was declined
\* and o2fsck_clear_refcount, for the lost offset or for a search that stops at the
\* extent behind, did not find the flag to clear.
Counted == Called({"fsck"}) /\ call.err = "" /\ ~call.over =>
              \A c \in Under(dev) : c \in call.dups /\ (Cut(call.was, c) \/ Swapped(call.was, c))

\* "If this returns successfully, all clusters between cpos and cpos+write_len are
\* safe to modify": they are the file's alone, and not marked as shared, however
\* the extents lie and however few clusters the allocator hands out at a time.
Private == Called({"cow"}) /\ call.err = "" =>
              \A r \in ToSet(dev.file[call.f]) : \A v \in Run(r.cpos, r.len) \cap call.range :
                  r.flag = 0 /\ Claims(dev, r.blk + (v - r.cpos)) = {call.f}

\* Files read as before after every call, one that fails included; a truncated
\* file reads as what it kept, its tail emptied, and the files it shared that tail
\* with still have it.
Unharmed == Called(Ended) =>
    /\ \A f \in Owners : \/ Contents(dev, f) = Contents(call.was, f)
                         \/ Called({"truncate"}) /\ f = call.f
    /\ call.err = "" /\ ~call.missed => Contents(dev, call.f) = call.want

\* Counts and references agree after each of the calls, and no reference is
\* uncounted after one that failed, a truncation excepted: it takes the counts
\* before the inode is written.
CountsHold == Called(Changes) /\ ~call.missed =>
                 /\ call.err = "" => Agree(dev)
                 /\ call.op # "truncate" => Under(dev) = {}

\* No cluster of a file is free, and after a call that succeeded every cluster of
\* no file is: the last one to give a shared cluster up frees it.
Released == Called(Changes) /\ (call.op # "truncate" \/ call.err = "") =>
               /\ Mapped(dev) \cap dev.free = {}
               /\ call.err = "" /\ ~call.missed => dev.free = (Clusters \cup Pool) \ Mapped(dev)

\* A crash while clusters are copied leaves every file as it was, none of its
\* clusters free, and no reference uncounted - unless it comes while a leaf is
\* being divided: the extent tree leads to the new leaf before that has records.
CrashSafe == Called({"cow", "disable"}) =>
    \A x \in call.crashes : x.changed = {} /\ x.lost = {} /\ (x.under = {} \/ x.blank)

\* The tree is what its lookups rely on: each leaf begins where its extent does, has
\* its records in order and before the next leaf; rf_clusters counts the leaves.
\* And no assertion fails: a piece to copy is found for every write and is shared
\* and counted, and the tree tunefs.ocfs2 frees in the end is empty.
Ordered ==
    LET bs == LeafBlocks(dev)
        at == FoldLeft(LAMBDA rs, l : rs \o l.recs, <<>>, Leaves(dev.disk, dev.root))
        rs == Records(dev)
    IN  /\ Called(Ended) => call.err # "abort"
        /\ call = Idle =>
             /\ dev.clusters = Len(bs)
             /\ \A i \in 2..Len(rs) : End(rs[i - 1]) <= rs[i].cpos
             /\ \A i \in DOMAIN bs :
                    LET leaf == dev.rb[bs[i]]
                    IN  /\ leaf.cpos = at[i].cpos /\ Len(leaf.recs) \in 1..RlRecs
                        /\ leaf.recs[1].cpos >= leaf.cpos
                        /\ i < Len(bs) => End(Last(leaf.recs)) <= at[i + 1].cpos

\* Blocks of the tree are in use, and no others after a call that succeeded,
\* though leaves and extent blocks come and go with the counts.
NoLeak == Called(Ended) =>
             /\ ToSet(TreeBlocks(dev)) \subseteq dev.used
             /\ call.err = "" /\ ~call.missed => ToSet(TreeBlocks(dev)) = dev.used

\* The root is given back when no file uses the tree and it is empty.
RootLast == ~dev.exists => dev.attached = {} /\ Records(dev) = <<>> /\ dev.used = {}

\* o2fsck_check_refcount() does what it is for: counts and references agree after
\* it, and where an answer was no, what is left does no harm.
Checked == Repaired /\ Counted

\* Sharing is invisible: whoever writes to a cluster (ocfs2_refcount_cow(), the
\* truncation that empties a tail) has it alone, and the others read what they had.
Isolated == Private /\ Unharmed

\* What is counted, referred to and in use is the same, for clusters, for the
\* blocks of the tree and for its root, after each of the calls.
Accounted == CountsHold /\ Released /\ NoLeak /\ RootLast
==============================================================================
