---------------------------- MODULE RefcountTree ----------------------------
(***************************************************************************)
(* The refcount trees of libocfs2 (refcount.c): how many files share each  *)
(* cluster.  The root block holds the records itself, or an extent tree    *)
(* whose extents are leaf blocks of records, each found by the cluster it  *)
(* starts at.  The operators transform the record t of ExtentTree, which   *)
(* has more fields here: tree (OCFS2_REFCOUNT_TREE_FL), rl (the root's own *)
(* records), rb (the leaf blocks on disk) and leaf (the buffer of the leaf *)
(* at hand; block 0 is the root), with rec and index, what was found in    *)
(* it, and free, the free clusters of the volume.  Clusters are below      *)
(* 2^32: a leaf's records have one order.                                  *)
(***************************************************************************)
EXTENDS ExtentTree

CONSTANT RlRecs                \* rl_count
\* A leaf divided in two has room for the two records a split may add.
ASSUME RlAssumption == RlRecs \in Nat /\ RlRecs >= 4

Rec(c, n, k) == [cpos |-> c, len |-> n, count |-> k]
BlankLeaf(b) == [blk |-> b, cpos |-> 0, recs |-> <<>>]
Lesser(a, b) == IF a < b THEN a ELSE b

-----------------------------------------------------------------------------
(* Finding a record. *)

\* The record with cluster c, or one made up for the hole: its count is 0.
FindInRl(recs, c, n) ==
    With(SelectInSeq(recs, LAMBDA r : c < End(r)), LAMBDA k :
        LET next == IF k # 0 /\ recs[k].cpos < c + n THEN recs[k].cpos - c ELSE n
        IN  IF k # 0 /\ recs[k].cpos <= c THEN [index |-> k, rec |-> recs[k]]
            ELSE [index |-> IF k = 0 THEN Len(recs) + 1 ELSE k, rec |-> Rec(c, next, 0)])
\* n is cut where the next leaf begins, if the same extent list has it.  History:
\* over notes a hole said to reach into the leaf after that list.
GetRec(t, c, n) ==
    LET Cut(el, k) == IF t.tree /\ k \in 1..(Len(el.recs) - 1) /\ el.recs[k + 1].cpos < c + n
                      THEN el.recs[k + 1].cpos - c ELSE n
        LeafAt(el, k) == IF t.tree THEN t.rb[el.recs[IF k = 0 THEN 1 ELSE k].blk]
                         ELSE [BlankLeaf(0) EXCEPT !.recs = t.rl]
        Over(el, rec) == /\ t.tree /\ t.root.depth > 0 /\ el.next # 0 /\ rec.count = 0
                         /\ End(rec) > t.disk[el.next].recs[1].cpos
        Found(el, leaf, found) == [t EXCEPT !.leaf = leaf, !.index = found.index,
                                            !.rec = found.rec, !.over = @ \/ Over(el, found.rec)]
        At(el, k) == With(LeafAt(el, k), LAMBDA leaf :
                         Found(el, leaf, FindInRl(leaf.recs, c, Cut(el, k))))
    IN  With(IF t.root.depth = 0 THEN t.root ELSE Last(Descend(t.disk, t.root, c)),
             LAMBDA el : At(el, SelectLastInSeq(el.recs, LAMBDA r : r.cpos <= c)))

-----------------------------------------------------------------------------
(* Writing.  The root's own records are copied back by the caller.           *)

WriteRb(t, leaf) ==
    Bind(t, LAMBDA u : IF leaf.blk = 0
                       THEN [u EXCEPT !.log = Append(@, [do |-> "inline", n |-> leaf])]
                       ELSE [u EXCEPT !.rb[leaf.blk] = leaf,
                                      !.log = Append(@, [do |-> "rb", n |-> leaf])])
PutLeaf(t, leaf) == WriteRb([t EXCEPT !.leaf = leaf], leaf)
SyncRoot(t) == IF t.leaf.blk = 0 THEN [t EXCEPT !.rl = t.leaf.recs] ELSE t
NewRefcountBlock(t) == Bind(NewBlock(t), LAMBDA u : [u EXCEPT !.rb[u.new] = BlankLeaf(u.new)])

-----------------------------------------------------------------------------
(* Changing a leaf's records. *)

Adjacent(recs, i) == /\ i \in 1..(Len(recs) - 1)
                     /\ recs[i].count = recs[i + 1].count /\ End(recs[i]) = recs[i + 1].cpos
Join(recs, i) == IF ~Adjacent(recs, i) THEN recs
                 ELSE RemoveAt([recs EXCEPT ![i].len = @ + recs[i + 1].len], i + 1)
\* Record i becomes one with the neighbours it continues.
RecMerge(recs, i) == Join(Join(recs, i), i - 1)

ChangeRec(t, i, change) ==
    LET count == t.leaf.recs[i].count + change
        recs == IF count = 0 THEN RemoveAt(t.leaf.recs, i)
                ELSE RecMerge([t.leaf.recs EXCEPT ![i].count = count], i)
    IN  PutLeaf(t, [t.leaf EXCEPT !.recs = recs])

\* The root's records move to a leaf, which is written before the root.
ExpandInlineRoot(t) ==
    Bind(NewRefcountBlock(t), LAMBDA u :
        LET leaf == [BlankLeaf(u.new) EXCEPT !.recs = u.rl]
            root == [depth |-> 0, recs |-> <<[Zero EXCEPT !.blk = u.new, !.len = 1]>>]
        IN  WriteRoot([WriteRb(u, leaf) EXCEPT !.leaf = leaf, !.rl = <<>>, !.tree = TRUE,
                                               !.root = root, !.clusters = 1]))
\* Half of the records go to a new leaf: first the extent tree gets it, then the
\* old leaf is written, then the new one.
NewLeafBlock(t) ==
    Bind(NewRefcountBlock(t), LAMBDA u :
        LET half == Len(u.leaf.recs) \div 2
            old == [u.leaf EXCEPT !.recs = SubSeq(@, 1, half)]
            moved == SubSeq(u.leaf.recs, half + 1, Len(u.leaf.recs))
            new == [blk |-> u.new, cpos |-> moved[1].cpos, recs |-> moved]
            rec == [cpos |-> new.cpos, blk |-> new.blk, len |-> 1, flag |-> 0]
        IN  WriteRb(WriteRb(TreeInsertExtent([u EXCEPT !.backup = <<>>, !.left = FALSE], rec),
                            old), new))
ExpandTree(t) == Bind(IF t.leaf.blk = 0 THEN ExpandInlineRoot(t) ELSE t, NewLeafBlock)

AdjustRec_Never(t, c) == t
\* A record in front of the leaf's first one: the extent that leads to the leaf
\* begins there from now on.  A root is written as if it were an extent block:
\* the same bytes where blocks carry no checksum, as here.
AdjustRec(t, c) ==
    LET Moved(u, k) == SetLeaf(u, "P", [Leaf(u, "P").recs EXCEPT ![k].cpos = c])
        Written(u) == IF t.root.depth = 0 THEN WriteRoot(u) ELSE Write(u, Leaf(u, "P"))
        Adjusted(u, k) == IF k = 0 THEN Fail(t, "abort")
                          ELSE PutLeaf(Written(Moved(u, k)), [t.leaf EXCEPT !.cpos = c])
    IN  IF ~t.tree \/ t.leaf.cpos <= c THEN t
        ELSE With(FindPath(t, "P", t.leaf.cpos), LAMBDA u :
                 Adjusted(u, SelectInSeq(Leaf(u, "P").recs, LAMBDA r : r.cpos = t.leaf.cpos)))
InsertRec(t, r) ==
    Bind(IF Len(t.leaf.recs) < RlRecs THEN t
         ELSE Bind(ExpandTree(t), LAMBDA u : GetRec(u, r.cpos, r.len)),
         LAMBDA u : Bind(PutLeaf(u, [u.leaf EXCEPT !.recs = RecMerge(InsertAt(@, u.index, r), u.index)]),
                         LAMBDA v : IF u.index = 1 THEN AdjustRec(v, r.cpos) ELSE v))
\* s takes its part of record i, which keeps what is before and behind it; a
\* count of 0 leaves a hole.
SplitRec(t, s, i) ==
    LET x == t.leaf.recs[i]
        head == IF s.cpos = x.cpos THEN <<>> ELSE <<[x EXCEPT !.len = s.cpos - x.cpos]>>
        tail == IF End(s) = End(x) THEN <<>> ELSE <<Rec(End(s), End(x) - End(s), x.count)>>
        parts == head \o (IF s.count = 0 THEN <<>> ELSE <<s>>) \o tail
        Put(recs, k) == SubSeq(recs, 1, k - 1) \o parts \o SubSeq(recs, k + 1, Len(recs))
    IN  Bind(IF Len(t.leaf.recs) + Len(parts) - 1 <= RlRecs THEN [t EXCEPT !.index = i]
             ELSE Bind(ExpandTree(t), LAMBDA u : GetRec(u, x.cpos, x.len)),
             LAMBDA u : LET recs == Put(u.leaf.recs, u.index)
                        IN  PutLeaf(u, [u.leaf EXCEPT
                                !.recs = IF s.count = 0 THEN recs
                                         ELSE RecMerge(recs, u.index + Len(head))]))

-----------------------------------------------------------------------------
(* The operations. *)

RECURSIVE Increase(_, _, _, _)
Increase(t, c, n, value) ==
    IF n = 0 THEN t
    ELSE With(GetRec(t, c, n), LAMBDA u :
        LET r == u.rec
            part == Lesser(c + n, End(r)) - c
        IN  Bind(IF r.count = 0 THEN InsertRec(u, [r EXCEPT !.count = value])
                 ELSE IF r.cpos = c /\ r.len <= n THEN ChangeRec(u, u.index, value)
                 ELSE SplitRec(u, Rec(c, part, r.count + value), u.index),
                 LAMBDA v : Increase(SyncRoot(v), c + part, n - part, value)))

\* The empty leaf leaves the extent tree; with the last one the root holds the
\* records again.
RemoveLeaf(t) ==
    Bind(RemoveExtent([t EXCEPT !.backup = <<>>, !.left = FALSE], t.leaf.cpos), LAMBDA u :
        LET v == [Delete(u, u.leaf.blk) EXCEPT !.clusters = @ - 1]
        IN  IF v.root.recs # <<>> THEN WriteRoot(v)
            ELSE WriteRb(Check([v EXCEPT !.tree = FALSE, !.rl = <<>>], v.clusters = 0),
                         BlankLeaf(0)))
DecreaseRec(t, i, c, n, value) ==
    LET r == t.leaf.recs[i]
    IN  Bind(IF c = r.cpos /\ n = r.len THEN ChangeRec(t, i, -value)
             ELSE SplitRec(t, Rec(c, n, r.count - value), i),
             LAMBDA u : IF u.leaf.recs = <<>> /\ u.leaf.blk # 0 THEN RemoveLeaf(u)
                        ELSE SyncRoot(u))
FreeClusters(t, c, n) == [t EXCEPT !.free = @ \cup (c..(c + n - 1)),
                                   !.log = Append(@, [do |-> "data", n |-> c..(c + n - 1)])]
\* A cluster nobody shares any more is freed, if delete is set.
RECURSIVE Decrease(_, _, _, _)
Decrease(t, c, n, delete) ==
    IF n = 0 THEN t
    ELSE With(GetRec(t, c, n), LAMBDA u :
        LET part == Lesser(c + n, End(u.rec)) - c
        IN  IF u.rec.count = 0 \/ (~delete /\ u.rec.count # 1) THEN Fail(t, "abort")
            ELSE Bind(DecreaseRec(u, u.index, c, part, 1), LAMBDA v :
                Decrease(IF delete /\ u.rec.count = 1 THEN FreeClusters(v, c, part) ELSE v,
                         c + part, n - part, delete)))
RECURSIVE PunchHole(_, _, _)
PunchHole(t, c, n) ==
    IF n = 0 THEN t
    ELSE With(GetRec(t, c, n), LAMBDA u :
        LET part == Lesser(c + n, End(u.rec)) - c
        IN  Bind(IF u.rec.count = 0 THEN u ELSE DecreaseRec(u, u.index, c, part, u.rec.count),
                 LAMBDA v : PunchHole(v, c + part, n - part)))
ChangeRefcount(t, c, n, count) ==
    With(GetRec(t, c, n).rec, LAMBDA r :
        IF r.count = count \/ End(r) < c + n THEN Fail(t, "abort")
        ELSE Increase(t, c, n, count - r.count))
=============================================================================
