----------------------------- MODULE ExtentTree -----------------------------
(***************************************************************************)
(* The extent trees of libocfs2 (extent_tree.c): the B-trees that map the  *)
(* clusters of a file, and the leaves of a refcount tree, to the volume.   *)
(* The operators transform a record t, the memory and the device of one    *)
(* call: the root in its caller's buffer, the extent blocks on disk, the   *)
(* paths (the buffers read on the way to a leaf) and the log of what was   *)
(* written to the device so far, in order.  A path holds copies: two paths *)
(* share the root and nothing else.  A block has one record per extent,    *)
(* l_next_free_rec is the length of its list.                              *)
(***************************************************************************)
EXTENDS Integers, Sequences, FiniteSets, FiniteSetsExt, SequencesExt

CONSTANTS
    Blocks,        \* the blocks of the extent block allocator
    RootRecs,      \* l_count of the root
    EbRecs,        \* l_count of an extent block
    LeafRange      \* e_leaf_clusters is 16 bits wide: 65536

-----------------------------------------------------------------------------
(* Records and lists of records. *)

Zero == [cpos |-> 0, blk |-> 0, len |-> 0, flag |-> 0]
\* Reads the 16 bits of e_leaf_clusters, in an interior record too.
IsEmpty(r) == r.len % LeafRange = 0
End(r) == r.cpos + r.len
Covers(r, c) == r.cpos <= c /\ c < End(r)
HasEmpty(recs) == recs # <<>> /\ IsEmpty(recs[1])
NonEmpty(recs) == SelectSeq(recs, LAMBDA r : r.len # 0)
SearchList(recs, c) == SelectInSeq(recs, LAMBDA r : Covers(r, c))   \* 0: none
Contains1(recs, c) == NonEmpty(recs) # <<>> /\ Covers(NonEmpty(recs)[1], c)
\* The list up to the first record without clusters.
Compact(recs) == LET k == SelectInSeq(recs, LAMBDA r : r.len = 0)
                 IN  IF k = 0 THEN recs ELSE SubSeq(recs, 1, k - 1)

\* l_next_free_rec <= l_count: else ocfs2_read_extent_block() gives an error.
Readable(n) == Len(n.recs) <= EbRecs

Blank(b) == [blk |-> b, depth |-> 0, next |-> 0, recs |-> <<>>]

\* The blocks below a list, in the order of the tree; and the leaves.
RECURSIVE Preorder(_, _)
Preorder(disk, el) ==
    IF el.depth = 0 THEN <<>>
    ELSE FoldLeft(LAMBDA bs, r : bs \o <<r.blk>> \o Preorder(disk, disk[r.blk]), <<>>, el.recs)
Below(disk, el) == ToSet(Preorder(disk, el))
RECURSIVE Leaves(_, _)
Leaves(disk, el) ==
    IF el.depth = 0 THEN <<el>>
    ELSE FoldLeft(LAMBDA ls, r : ls \o Leaves(disk, disk[r.blk]), <<>>, el.recs)

\* The empty extent gives way, the record goes where its cpos belongs.
RotateLeaf(recs, r) ==
    LET base == IF HasEmpty(recs) THEN Tail(recs) ELSE recs
        k == SelectInSeq(base, LAMBDA x : r.cpos < x.cpos)
    IN  InsertAt(base, IF k = 0 THEN Len(base) + 1 ELSE k, r)
RemoveEmpty(recs) == IF HasEmpty(recs) THEN Tail(recs) ELSE recs
CreateEmpty(recs) == IF HasEmpty(recs) THEN recs ELSE <<Zero>> \o recs
\* A record that was used up becomes the empty extent in front.
CleanupMerge(recs, i) ==
    IF recs[i].len # 0 THEN recs ELSE <<Zero>> \o RemoveAt(recs, i)

\* How insert record r continues the extent x.
RecContig(x, r) ==
    IF x.flag # r.flag THEN "none"
    ELSE IF End(x) = r.cpos /\ x.blk + x.len = r.blk THEN "right"
    ELSE IF End(r) = x.cpos /\ r.blk + r.len = x.blk THEN "left" ELSE "none"
EtContig(t, x, r) == IF t.kind = "refcount" THEN "none" ELSE RecContig(x, r)

-----------------------------------------------------------------------------
(* The call's state, the device and the paths. *)

\* A call on the tree of device d, with room for so many more blocks.
Call(kind, d, room) ==
    [kind |-> kind, root |-> d.root, last |-> d.last, clusters |-> d.clusters,
     disk |-> d.disk, used |-> d.used, log |-> <<>>, room |-> room, err |-> "",
     new |-> 0, got |-> <<>>, eb |-> Blank(0), recs |-> <<>>, copied |-> 0,
     backup |-> <<>>, left |-> FALSE, stop |-> "", P |-> <<>>, L |-> <<>>, R |-> <<>>]
With(v, Op(_)) == Op(v)
Bind(t, Op(_)) == IF t.err = "" THEN Op(t) ELSE t
Fail(t, e) == [t EXCEPT !.err = e]
Check(t, ok) == IF ok THEN t ELSE Fail(t, "abort")          \* assert()

Write(t, n) == Bind(t, LAMBDA u : [u EXCEPT !.disk[n.blk] = n,
                                   !.log = Append(@, [do |-> "write", n |-> n])])
Delete(t, b) == [t EXCEPT !.used = @ \ {b}, !.room = @ + 1,
                          !.log = Append(@, [do |-> "free", n |-> Blank(b)])]
NewBlock(t) ==              \* room: the free blocks of the allocator
    IF t.room = 0 THEN Fail(t, "nospc")
    ELSE LET b == Min(Blocks \ t.used)
         IN  [t EXCEPT !.used = @ \cup {b}, !.room = @ - 1, !.new = b,
                       !.disk[b] = Blank(b),
                       !.log = Append(@, [do |-> "new", n |-> Blank(b)])]

Level(t, s, i) == IF i = 0 THEN t.root ELSE t[s][i]
SetRecs(t, s, i, recs) == IF i = 0 THEN [t EXCEPT !.root.recs = recs]
                          ELSE [t EXCEPT ![s][i].recs = recs]
LeafLevel(t, s) == Len(t[s])
Leaf(t, s) == Level(t, s, LeafLevel(t, s))
SetLeaf(t, s, recs) == SetRecs(t, s, LeafLevel(t, s), recs)

\* The record of an interior list to follow for c: the last one by default.
Toward(el, c) == LET k == SelectInSubSeq(el.recs, 1, Len(el.recs) - 1,
                                         LAMBDA r : Covers(r, c))
                 IN  el.recs[IF k = 0 THEN Len(el.recs) ELSE k]
RECURSIVE Descend(_, _, _)
Descend(disk, el, c) ==
    IF el.depth = 0 THEN <<>>
    ELSE With(disk[Toward(el, c).blk], LAMBDA n : <<n>> \o Descend(disk, n, c))
FindPath(t, s, c) == [t EXCEPT ![s] = Descend(t.disk, t.root, c)]

\* Where node i of a path is in the list above it.
Pos(t, s, i) == CHOOSE k \in DOMAIN Level(t, s, i - 1).recs :
                    Level(t, s, i - 1).recs[k].blk = t[s][i].blk
LeftCpos(t, s) ==
    LET I == {i \in 1..LeafLevel(t, s) : Pos(t, s, i) > 1}
    IN  IF I = {} THEN 0
        ELSE End(Level(t, s, Max(I) - 1).recs[Pos(t, s, Max(I)) - 1]) - 1
RightCpos(t, s) ==
    LET I == {i \in 1..LeafLevel(t, s) : Pos(t, s, i) < Len(Level(t, s, i - 1).recs)}
    IN  IF I = {} THEN 0
        ELSE Level(t, s, Max(I) - 1).recs[Pos(t, s, Max(I)) + 1].cpos
SubtreeRoot(t, l, r) == Min({i \in 1..LeafLevel(t, l) : t[l][i].blk # t[r][i].blk}) - 1

RECURSIVE WritePath(_, _, _, _)
WritePath(t, s, i, sub) == IF i <= sub THEN t
                           ELSE WritePath(Write(t, t[s][i]), s, i - 1, sub)
\* Both paths below the subtree's root, then that root, as the right one has it.
SyncPath(t, l, r, sub) ==
    LET one == WritePath(t, l, LeafLevel(t, l), sub)
    IN  With(IF l = r THEN one ELSE WritePath(one, r, LeafLevel(t, r), sub),
             LAMBDA u : IF sub = 0 THEN u ELSE Write(u, u[r][sub]))

-----------------------------------------------------------------------------
(* The interior records after a change of two neighbouring leaves. *)

FirstCpos(recs) == IF IsEmpty(recs[1]) THEN recs[2].cpos ELSE recs[1].cpos
MoveStart_KeepLen(r, c) == [r EXCEPT !.cpos = c]
\* The right record begins at c and keeps its end.
MoveStart(r, c) == [r EXCEPT !.cpos = c, !.len = End(r) - c]

EdgeLevel(t, l, r, i) ==
    LET right == t[r][i + 1].recs
        ok == ~IsEmpty(right[1]) \/ Len(right) > 1
        c == FirstCpos(right)
        k == Len(t[l][i + 1].recs)      \* counted in the child, as the code does
        u == IF k > Len(t[l][i].recs) THEN t
             ELSE [t EXCEPT ![l][i].recs[k].len = c - t[l][i].recs[k].cpos]
    IN  IF ok THEN [u EXCEPT ![r][i].recs[1] = MoveStart(@, c)] ELSE Fail(t, "abort")
RECURSIVE EdgeLevels(_, _, _, _, _)
EdgeLevels(t, l, r, i, sub) ==
    IF i <= sub \/ t.err # "" THEN t
    ELSE EdgeLevels(EdgeLevel(t, l, r, i), l, r, i - 1, sub)
AdjustRoot(t, l, r, sub) ==
    LET right == t[r][sub + 1].recs
        recs == Level(t, l, sub).recs
        c == FirstCpos(right)
        Adjust(k) == [recs EXCEPT ![k].len = c - recs[k].cpos, ![k + 1] = MoveStart(@, c)]
    IN  With(SelectInSeq(recs, LAMBDA x : x.blk = t[l][sub + 1].blk), LAMBDA k :
            IF (IsEmpty(right[1]) /\ Len(right) = 1) \/ k \notin 1..(Len(recs) - 1)
            THEN Fail(t, "abort")
            ELSE With(SetRecs(t, l, sub, Adjust(k)), LAMBDA u :
                     IF sub = 0 THEN u ELSE [u EXCEPT ![r][sub] = u[l][sub]]))
CompleteEdge(t, l, r, sub) ==
    Bind(EdgeLevels(t, l, r, LeafLevel(t, l) - 1, sub),
         LAMBDA u : AdjustRoot(u, l, r, sub))

\* The last records of a rightmost path reach as far as e.
AdjustRightmost(t, s, e) ==
    FoldLeft(LAMBDA u, i : LET recs == Level(u, s, i - 1).recs
                           IN  SetRecs(u, s, i - 1,
                                   [recs EXCEPT ![Len(recs)].len = e - Last(recs).cpos]),
             t, [i \in 1..LeafLevel(t, s) |-> i])
UpdateEdgeLengths(t, s) == AdjustRightmost(t, s, End(Last(Leaf(t, s).recs)))

-----------------------------------------------------------------------------
(* Growing the tree.  last_eb, the caller's copy of the rightmost leaf, is   *)
(* t.eb: it is not read again when that leaf is written.                     *)

SumRightmost(recs) == End(Last(recs))
Far(el) == Max({End(r) : r \in ToSet(el.recs)})     \* UINT_MAX: off the tree
RootFull(t) == Len(t.root.recs) = RootRecs

RECURSIVE NewBlocks(_, _)
NewBlocks(t, k) ==          \* k blocks, or none: t.got
    IF k = 0 \/ t.err # "" THEN t
    ELSE LET u == NewBlock(t)
         IN  IF u.err # "" THEN FoldLeft(Delete, u, u.got)
             ELSE NewBlocks([u EXCEPT !.got = Append(@, u.new)], k - 1)
\* A branch of empty blocks below the list of block "at", or of the root (0).
AddBranch(t, at) ==
    LET el == IF at = 0 THEN t.root ELSE t.disk[at]
        Rec(b) == [Zero EXCEPT !.cpos = SumRightmost(t.eb.recs), !.blk = b]
        Eb(got, i) == [blk |-> got[i], depth |-> i - 1, next |-> 0,
                       recs |-> <<Rec(IF i = 1 THEN 0 ELSE got[i - 1])>>]
        Branch(u) == FoldLeft(LAMBDA v, i : Write(v, Eb(u.got, i)),
                              [u EXCEPT !.last = u.got[1]], [i \in 1..el.depth |-> i])
        Linked(u) == Write(Branch(u), [t.eb EXCEPT !.next = u.got[1]])
    IN  Bind(NewBlocks([t EXCEPT !.got = <<>>], el.depth), LAMBDA u :
            LET recs == Append(el.recs, Rec(Last(u.got)))
            IN  With([Linked(u) EXCEPT !.eb = Eb(u.got, 1)], LAMBDA v :
                    IF at = 0 THEN [v EXCEPT !.root.recs = recs]
                    ELSE Write(v, [el EXCEPT !.recs = recs])))
\* A new block takes the root's records, the root points to it.
ShiftTreeDepth(t) ==
    Bind(NewBlock(t), LAMBDA u :
        LET r == [Zero EXCEPT !.blk = u.new, !.len = SumRightmost(u.root.recs)]
            v == [u EXCEPT !.root = [depth |-> u.root.depth + 1, recs |-> <<r>>],
                           !.last = IF u.root.depth = 0 THEN u.new ELSE @]
        IN  Write(v, [blk |-> u.new, next |-> 0] @@ u.root))
\* The interior blocks of the rightmost path are read into one buffer: the
\* branch goes below the lowest of them when any of them has room.
BranchTarget(t) ==
    With(SelectSeq(Descend(t.disk, t.root, Far(t.root)), LAMBDA n : n.depth > 0),
         LAMBDA inner : [room |-> \E i \in DOMAIN inner : Len(inner[i].recs) < EbRecs,
                         at |-> IF inner = <<>> THEN 0 ELSE Last(inner).blk])
GrowTree(t) ==
    With(BranchTarget(t), LAMBDA target :
        IF target.room \/ ~RootFull(t)
        THEN AddBranch(t, IF target.room THEN target.at ELSE 0)
        ELSE Bind(ShiftTreeDepth(t), LAMBDA u :
                 IF u.root.depth = 1 THEN [u EXCEPT !.eb = u.disk[u.new]]
                 ELSE AddBranch(u, u.new)))

-----------------------------------------------------------------------------
(* Rotation to the right: an empty extent travels from the rightmost leaf   *)
(* (path R) to the leaf where a record is to be inserted.                   *)

RotateSubtreeRight(t, sub) ==
    LET left == Leaf(t, "L").recs
        right == Leaf(t, "R").recs
        moved == [CreateEmpty(right) EXCEPT ![1] = Last(left)]
        u == SetLeaf(SetLeaf(t, "L", <<Zero>> \o Front(left)), "R", moved)
    IN  IF Len(left) # EbRecs THEN Fail(t, "corrupt")
        ELSE IF HasEmpty(left) THEN t
        ELSE Bind(CompleteEdge(Check(u, Len(moved) <= EbRecs), "L", "R", sub),
                  LAMBDA v : SyncPath(v, "L", "R", sub))
\* Leaves the target leaf in R and, where the edge above it still has to be
\* corrected after the insertion, its left neighbour in L (t.left).
RECURSIVE RotateTreeRight(_, _, _)
RotateTreeRight(t, split, cpos) ==
    LET c == LeftCpos(t, "R")
    IN  IF c = 0 \/ cpos > c THEN t
        ELSE With(FindPath(t, "L", c), LAMBDA u :
            IF split = "none" /\ cpos > Last(Leaf(u, "L").recs).cpos
            THEN [u EXCEPT !.left = TRUE]
            ELSE Bind(RotateSubtreeRight(u, SubtreeRoot(u, "L", "R")), LAMBDA v :
                IF split # "none" /\ Contains1(Leaf(v, "R").recs, cpos)
                THEN [v EXCEPT !.left = TRUE]
                ELSE RotateTreeRight([v EXCEPT !.R = v.L], split, cpos)))

-----------------------------------------------------------------------------
(* Inserting a record at a leaf.  ty is ocfs2_insert_type.                   *)

SubtractFromRec_SamePlace(split, r, s) ==
    IF split = "left" THEN [r EXCEPT !.cpos = @ + s.len, !.len = @ - s.len]
    ELSE [r EXCEPT !.len = @ - s.len]
SubtractFromRec(split, r, s) ==
    IF split = "left" THEN [r EXCEPT !.cpos = @ + s.len, !.blk = @ + s.len, !.len = @ - s.len]
    ELSE [r EXCEPT !.len = @ - s.len]
InsertAtLeaf(recs, r, ty) ==
    LET k == SearchList(recs, r.cpos)
        i == ty.index
    IN  IF ty.split # "none"
        THEN RotateLeaf([recs EXCEPT ![k] = SubtractFromRec(ty.split, @, r)], r)
        ELSE CASE ty.contig = "left" -> [recs EXCEPT ![i] = [r EXCEPT !.len = @ + recs[i].len]]
               [] ty.contig = "right" -> [recs EXCEPT ![i].len = @ + r.len]
               [] ty.contig = "none" ->
                      IF NonEmpty(recs) = <<>> THEN <<r>>
                      ELSE IF ty.append THEN Append(recs, r) ELSE RotateLeaf(recs, r)

\* The record that is split may have moved to the right leaf meanwhile.
SplitRecord(t, r, split) ==
    LET right == Leaf(t, "R").recs
        left == Leaf(t, "L").recs
        Cut(recs) == [recs EXCEPT ![SearchList(recs, r.cpos)] = SubtractFromRec(split, @, r)]
    IN  With(SearchList(right, r.cpos), LAMBDA k :
        IF k = 0
        THEN IF ~t.left \/ ~HasEmpty(left) \/ SearchList(left, r.cpos) = 0
             THEN Fail(t, "abort")
             ELSE SetLeaf(t, "L", RotateLeaf(Cut(left), r))
        ELSE IF k > 1 \/ ~t.left THEN SetLeaf(t, "R", RotateLeaf(Cut(right), r))
        ELSE IF split = "left"
             THEN SetLeaf(SetLeaf(t, "R", Cut(right)), "L", RotateLeaf(left, r))
        ELSE SetLeaf(SetLeaf(t, "L", Cut(RotateLeaf(left, right[k]))), "R",
                     RotateLeaf([right EXCEPT ![1] = Zero], r)))
\* What ocfs2_rotate_leaf() asserts.  The append has no such check: a record
\* behind a full leaf is counted in l_next_free_rec and stored behind the block,
\* so that it is not written, and the block cannot be read again (Readable).
\* Of what a store behind the buffer can do, this is the outcome in which the
\* memory there belongs to nobody.
Fits(t) == /\ Len(Leaf(t, "R").recs) <= EbRecs
           /\ t.left => Len(Leaf(t, "L").recs) <= EbRecs

InsertPath(t, r, ty) ==
    Bind(Bind(IF ty.split # "none" THEN SplitRecord(t, r, ty.split)
              ELSE SetLeaf(t, "R", InsertAtLeaf(Leaf(t, "R").recs, r, ty)),
              LAMBDA u : Check(u, ty.append \/ Fits(u))), LAMBDA u :
        IF ~t.left THEN SyncPath(u, "R", "R", 0)
        ELSE With(SubtreeRoot(u, "L", "R"), LAMBDA sub :
            Bind(CompleteEdge(u, "L", "R", sub), LAMBDA v : SyncPath(v, "L", "R", sub))))
\* The append extends the rightmost records; at the edge of a leaf the left
\* neighbour's are corrected too, in copies made the same.
AppendRecToPath(t, r) ==
    LET c == LeftCpos(t, "R")
        left == NonEmpty(Leaf(t, "R").recs) = <<>> /\ c # 0
    IN  With(AdjustRightmost(IF left THEN FindPath(t, "L", c) ELSE t, "R", End(r)),
             LAMBDA u : [u EXCEPT
                 !.left = left,
                 !.L = IF ~left THEN @
                       ELSE [i \in DOMAIN @ |-> IF u.L[i].blk = u.R[i].blk
                                                THEN u.R[i] ELSE u.L[i]]])
\* The paths of the insertion: R to its leaf, L where the left edge needs it.
InsertionPaths(t, r, ty) ==
    LET Path(c) == FindPath([t EXCEPT !.left = FALSE], "R", c)
    IN  IF ~ty.append /\ ty.contig = "none"
        THEN RotateTreeRight(Path(Far(t.root)), ty.split, r.cpos)
        ELSE IF ty.append /\ ty.contig # "left" THEN AppendRecToPath(Path(r.cpos), r)
        ELSE Path(r.cpos)
DoInsertExtent(t, r, ty) ==
    Bind(IF t.root.depth > 0
         THEN Bind(InsertionPaths(t, r, ty), LAMBDA u : InsertPath(u, r, ty))
         ELSE With([t EXCEPT !.root.recs = InsertAtLeaf(@, r, ty)],
                   LAMBDA u : Check(u, ty.append \/ Len(u.root.recs) <= RootRecs)),
         LAMBDA u : IF ty.split # "none" THEN u ELSE [u EXCEPT !.clusters = @ + r.len])

-----------------------------------------------------------------------------
(* Copies of the tree: an operation changes the copy, so that the old tree  *)
(* stays on the disk until the root points to the new one.                  *)

\* Copies the blocks below list el, the last one first; t.recs is the new list.
\* When a copy fails, the copies of this list are deleted.
RECURSIVE Duplicate(_, _, _)
DuplicateRec(t, r) ==
    LET n == t.disk[r.blk]
        below == IF n.depth = 0 THEN t
                 ELSE Duplicate([t EXCEPT !.recs = <<>>], n, Len(n.recs))
    IN  With(Bind(below, NewBlock), LAMBDA u :
        IF u.err # ""
        THEN [FoldLeft(LAMBDA w, x : IF x.blk = 0 THEN w ELSE Delete(w, x.blk), u, t.recs)
                 EXCEPT !.recs = t.recs]
        ELSE [Write(u, IF n.depth = 0 THEN [n EXCEPT !.blk = u.new, !.next = u.copied]
                       ELSE [n EXCEPT !.blk = u.new, !.recs = u.recs])
                 EXCEPT !.copied = IF n.depth = 0 THEN u.new ELSE @,
                        !.last = IF @ = r.blk THEN u.new ELSE @,
                        !.recs = <<[r EXCEPT !.blk = u.new]>> \o t.recs])
Duplicate(t, el, i) ==
    IF i = 0 \/ t.err # "" THEN t
    ELSE Duplicate(IF el.recs[i].len = 0 THEN [t EXCEPT !.recs = <<Zero>> \o @]
                   ELSE DuplicateRec(t, el.recs[i]), el, i - 1)
DuplicateTree_InPlace(t) ==
    IF t.root.depth = 0 THEN t
    ELSE With(Duplicate([t EXCEPT !.recs = <<>>, !.copied = 0], t.root, Len(t.root.recs)),
        LAMBDA u : [u EXCEPT !.err = "", !.last = t.last,
                       !.backup = IF u.err # "" THEN @ ELSE <<[t.root EXCEPT !.recs = u.recs]>>])
\* On failure the operation goes on in place.
DuplicateTree(t) ==
    IF t.root.depth = 0 THEN t
    ELSE With(Duplicate([t EXCEPT !.recs = <<>>, !.copied = 0], t.root, Len(t.root.recs)),
        LAMBDA u :
            IF t.root.recs = <<>> \/ u.err # "" THEN [u EXCEPT !.err = "", !.last = t.last]
            ELSE [u EXCEPT !.root.recs = u.recs, !.backup = <<t.root>>])
RECURSIVE FreeDuplicated(_, _)
FreeDuplicated(t, el) ==
    FoldLeft(LAMBDA u, r :
                 IF r.len = 0 THEN u
                 ELSE Delete(IF u.disk[r.blk].depth = 0 THEN u
                             ELSE FreeDuplicated(u, u.disk[r.blk]), r.blk),
             t, el.recs)
\* The old tree is freed after a success, the copy after a failure.
Settle(t) == IF t.backup = <<>> \/ t.err = "abort" THEN t
             ELSE FreeDuplicated(t, IF t.err = "" THEN t.backup[1] ELSE t.root)
WriteRoot(t) == Bind(t, LAMBDA u : [u EXCEPT !.log = Append(@,
                    [do |-> "root", n |-> [root |-> u.root, last |-> u.last,
                                           clusters |-> u.clusters]])])

-----------------------------------------------------------------------------
(* Insertion of an extent. *)

FigureContig(t, recs, r) ==
    LET k == SelectInSeq(recs, LAMBDA x : EtContig(t, x, r) # "none")
    IN  [index |-> k, contig |-> IF k = 0 THEN "none" ELSE EtContig(t, recs[k], r)]
FigureAppending(recs, r) == NonEmpty(recs) = <<>> \/ End(Last(recs)) <= r.cpos
FigureInsertType(t, r) ==
    LET deep == t.root.depth > 0
    IN  With(IF deep THEN Last(Descend(t.disk, t.root, r.cpos)) ELSE t.root, LAMBDA el :
        With(FigureContig(t, el.recs, r), LAMBDA c :
            [split |-> "none", index |-> c.index,
             contig |-> IF deep /\ c.contig = "left" /\ c.index = 1 THEN "none" ELSE c.contig,
             append |-> (deep => t.last = el.blk) /\ FigureAppending(el.recs, r)]))
LastFull_Late(t) == IF t.root.depth = 0 THEN RootFull(t) ELSE Len(t.eb.recs) > EbRecs
LastFull(t) == IF t.root.depth = 0 THEN RootFull(t) ELSE Len(t.eb.recs) = EbRecs
ReadLastEb(t) ==
    IF t.root.depth = 0 THEN t
    ELSE IF t.last = 0 THEN Fail(t, "badblk") ELSE [t EXCEPT !.eb = t.disk[t.last]]

TreeInsertExtent(t, r) ==
    WriteRoot(Settle(Bind(ReadLastEb(DuplicateTree(t)), LAMBDA u :
        With(FigureInsertType(u, r), LAMBDA ty :
            Bind(IF ty.contig = "none" /\ LastFull(u) THEN GrowTree(u) ELSE u,
                 LAMBDA v : DoInsertExtent(v, r, ty))))))

-----------------------------------------------------------------------------
(* Rotation to the left: an empty extent travels from a leaf (path P) to    *)
(* the rightmost leaf and disappears, with that leaf if it held no more.    *)

UnlinkSubtree_Keep(t, l, r, sub) ==
    LET u == [SetRecs(t, l, sub, Front(Level(t, l, sub).recs))
                 EXCEPT ![l][LeafLevel(t, l)].next = 0]
    IN  With(UpdateEdgeLengths(u, l), LAMBDA v :
            [v EXCEPT ![r] = SubSeq(v[l], 1, sub) \o SubSeq(v[r], sub + 1, Len(v[r]))])
\* Path r goes, from below node sub, and the leaf of path l is the last one.
UnlinkSubtree(t, l, r, sub) ==
    LET recs == Level(t, l, sub).recs
        found == \E k \in 2..Len(recs) : recs[k].blk = t[r][sub + 1].blk
        u == [SetRecs(t, l, sub, Front(recs)) EXCEPT ![l][LeafLevel(t, l)].next = 0]
        gone == FoldLeft(LAMBDA w, n : Delete(w, n.blk), u, SubSeq(t[r], sub + 1, Len(t[r])))
    IN  IF ~found THEN Fail(t, "abort")
        ELSE With(UpdateEdgeLengths(gone, l), LAMBDA v :
            [v EXCEPT ![r] = SubSeq(v[l], 1, sub) \o SubSeq(v[r], sub + 1, Len(v[r]))])

\* t.stop: "deleted" when the right leaf went, "again" for EAGAIN.
RotateSubtreeLeft(t, sub) ==
    LET left == Leaf(t, "L").recs
        right == Leaf(t, "R").recs
        last == Leaf(t, "R").next = 0
        trimmed == IF last /\ HasEmpty(right) /\ Len(right) > 1 THEN Tail(right) ELSE right
        bare == HasEmpty(trimmed)                    \* right_has_empty
        rest == IF last THEN Tail(trimmed)
                ELSE IF bare THEN trimmed ELSE [trimmed EXCEPT ![1] = Zero]
        moved == SetLeaf(IF bare THEN t ELSE SetLeaf(t, "L", RotateLeaf(left, trimmed[1])),
                         "R", rest)
        Kept(u) == [(IF bare THEN SetLeaf(u, "L", RemoveEmpty(left)) ELSE u)
                       EXCEPT !.last = Leaf(t, "L").blk, !.stop = "deleted"]
    IN  IF ~HasEmpty(left) THEN t
        ELSE IF HasEmpty(right) /\ ~last THEN [t EXCEPT !.stop = "again"]
        ELSE IF last /\ Len(trimmed) = 1
             THEN Bind(UnlinkSubtree(moved, "L", "R", sub),
                       LAMBDA u : SyncPath(Kept(u), "L", "L", sub))
        ELSE Bind(CompleteEdge(moved, "L", "R", sub), LAMBDA u : SyncPath(u, "L", "R", sub))
RECURSIVE RotateLeft(_)
RotateLeft(t) ==
    LET c == RightCpos(t, "L")
    IN  IF c = 0 \/ t.err # "" \/ t.stop # "" THEN t
        ELSE With(FindPath(t, "R", c), LAMBDA u :
             With(RotateSubtreeLeft(u, SubtreeRoot(u, "L", "R")), LAMBDA v :
                 RotateLeft([v EXCEPT !.L = IF v.stop = "" THEN v.R ELSE @])))
\* The path is read again, and what the rotation returned is overwritten by
\* what the read returned: an EAGAIN is never seen.
RotateTreeLeftOnce(t) ==
    With(RotateLeft([t EXCEPT !.L = t.P, !.stop = ""]), LAMBDA u :
        [u EXCEPT !.P = [i \in DOMAIN @ |-> u.disk[@[i].blk]],
                  !.err = IF @ = "abort" THEN @ ELSE ""])

RemoveRightmostPath(t) ==
    LET c == LeftCpos(t, "P")
        only == FoldLeft(LAMBDA w, n : Delete(w, n.blk), t, t.P)
    IN  IF c = 0 THEN [only EXCEPT !.root = [depth |-> 0, recs |-> <<>>], !.last = 0]
        ELSE With(FindPath(t, "L", c), LAMBDA u :
             With(SubtreeRoot(u, "L", "P"), LAMBDA sub :
                 Bind(UnlinkSubtree(u, "L", "P", sub), LAMBDA v :
                     [SyncPath(v, "L", "L", sub) EXCEPT !.last = Leaf(v, "L").blk])))
RotateTreeLeft(t) ==
    LET el == Leaf(t, "P")
        u == SetLeaf(t, "P", RemoveEmpty(el.recs))
    IN  IF ~HasEmpty(el.recs) THEN t
        ELSE IF t.root.depth = 0 THEN u
        ELSE IF el.next # 0 THEN RotateTreeLeftOnce(t)
        ELSE IF Len(el.recs) > 1 THEN Write(u, Leaf(u, "P"))
        ELSE RemoveRightmostPath(t)

-----------------------------------------------------------------------------
(* Changing the flags of a part of an extent: merging it with a neighbour,  *)
(* or splitting the extent.  Path P leads to the extent's leaf.             *)

MergeRecRight(recs, k, s) ==
    CleanupMerge([recs EXCEPT ![k].len = @ - s.len,
                              ![k + 1] = [@ EXCEPT !.cpos = @ - s.len, !.blk = @ - s.len,
                                                   !.len = @ + s.len]], k)
MergeRecLeft(recs, k, s) ==
    CleanupMerge([recs EXCEPT ![k - 1] = IF k = 2 /\ IsEmpty(@) THEN s
                                         ELSE [@ EXCEPT !.len = @ + s.len],
                              ![k] = SubtractFromRec("left", @, s)], k)
FigureMergeContig(t, recs, k, s) ==
    LET l == IF k = 1 THEN "none"
             ELSE IF k = 2 /\ IsEmpty(recs[1])
                  THEN IF s.cpos = recs[2].cpos THEN "right" ELSE "none"
             ELSE EtContig(t, recs[k - 1], s)
        r == IF k = Len(recs) THEN "none" ELSE EtContig(t, recs[k + 1], s)
    IN  IF l = "right" /\ r = "left" THEN "leftright"
        ELSE IF l = "none" THEN r ELSE l
WriteLeaf(t) == IF t.root.depth = 0 THEN t ELSE Write(t, Leaf(t, "P"))
TryToMerge(t, k, s, contig, covers) ==
    LET first == covers /\ HasEmpty(Leaf(t, "P").recs)
        i == IF first THEN k - 1 ELSE k
        Left(u) == SetLeaf(u, "P", MergeRecLeft(Leaf(u, "P").recs, i, s))
        Right(u, j, r) == SetLeaf(u, "P", MergeRecRight(Leaf(u, "P").recs, j, r))
        Side(u) == WriteLeaf(IF contig = "right" THEN Left(u) ELSE Right(u, i, s))
    IN  Bind(IF first THEN RotateTreeLeft(t) ELSE t, LAMBDA u :
            IF contig # "left" /\ i = 1 THEN Fail(u, "abort")
            \* Between two neighbours: into the left one, that into the right one.
            ELSE IF contig = "leftright"
                 THEN Bind(RotateTreeLeft(Left(u)), LAMBDA v :
                          RotateTreeLeft(Right(v, i - 1, Leaf(v, "P").recs[i - 1])))
            ELSE IF covers THEN RotateTreeLeft(Side(u)) ELSE Side(u))

RightSplitRec(r, c) ==
    [r EXCEPT !.cpos = c, !.len = End(r) - c, !.blk = @ + (c - r.cpos)]
SplitType(split) == [split |-> split, contig |-> "none", append |-> FALSE, index |-> 0]
\* One part of extent x is split off, in a tree with room for one more record.
SplitOff(t, s, split) ==
    Bind(IF LastFull(t) THEN GrowTree(t) ELSE t,
         LAMBDA u : DoInsertExtent(u, s, SplitType(split)))
SplitAndInsert(t, x, s) ==
    LET parts == IF s.cpos = x.cpos THEN <<<<s, "left">>>>
                 ELSE IF End(s) = End(x) THEN <<<<s, "right">>>>
                 ELSE <<<<RightSplitRec(x, End(s)), "right">>, <<s, "right">>>>
    IN  FoldLeft(LAMBDA u, part : Bind(u, LAMBDA v : SplitOff(v, part[1], part[2])), t, parts)
SplitExtent(t, k, s) ==
    LET recs == Leaf(t, "P").recs
        x == recs[k]
        contig == FigureMergeContig(t, recs, k, s)
        covers == x.cpos = s.cpos /\ x.len = s.len
    IN  IF ~(x.cpos <= s.cpos /\ End(s) <= End(x)) THEN Fail(t, "inval")
        ELSE Bind(ReadLastEb(t), LAMBDA u :
                 IF contig # "none" THEN TryToMerge(u, k, s, contig, covers)
                 ELSE IF covers THEN WriteLeaf(SetLeaf(u, "P", [recs EXCEPT ![k] = s]))
                 ELSE SplitAndInsert(u, x, s))

\* Clusters c .. c+n-1 get the flag, and the place blk.  Here the root is
\* written before the old tree is freed.
ChangeExtentFlag(t, c, n, blk, flag) ==
    LET s == [cpos |-> c, blk |-> blk, len |-> n, flag |-> flag]
    IN  Settle(WriteRoot(With(FindPath(DuplicateTree(t), "P", c), LAMBDA u :
            With(SearchList(Leaf(u, "P").recs, c), LAMBDA k :
                IF k = 0 THEN Fail(u, "corrupt")
                ELSE IF Leaf(u, "P").recs[k].flag = flag THEN Fail(u, "io")
                ELSE SplitExtent(u, k, s)))))

-----------------------------------------------------------------------------
(* Removing a whole record: what the refcount tree does with an empty leaf. *)

\* Record k of path P is gone: what that changes in the records above.
Removed(t, k) ==
    LET el == Leaf(t, "P")
        c == LeftCpos(t, "P")
        deep == t.root.depth > 0
        edge == deep /\ k = 1 /\ c # 0 /\ Len(el.recs) > 1
    IN  With(CleanupMerge([el.recs EXCEPT ![k] = Zero], k), LAMBDA recs :
        With(SetLeaf(IF edge THEN FindPath(t, "L", c) ELSE t, "P", recs), LAMBDA u :
        With(IF deep /\ k = Len(el.recs) /\ el.next = 0 /\ Len(recs) > 1
             THEN AdjustRightmost(u, "P", End(Last(recs))) ELSE u, LAMBDA v :
            IF edge THEN CompleteEdge(v, "L", "P", SubtreeRoot(v, "L", "P")) ELSE v)))
TruncateRec(t, i) ==
    LET first == HasEmpty(Leaf(t, "P").recs) /\ i > 1
    IN  Bind(IF first THEN RotateTreeLeft(t) ELSE t, LAMBDA u :
            Bind(Removed(u, IF first THEN i - 1 ELSE i), RotateTreeLeft))
RemoveExtent(t, c) ==
    With(FindPath(t, "P", c), LAMBDA u : With(SearchList(Leaf(u, "P").recs, c), LAMBDA k :
        IF k = 0 THEN Fail(t, "corrupt") ELSE TruncateRec(u, k)))
=============================================================================
