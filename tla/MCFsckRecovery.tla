--------------------------- MODULE MCFsckRecovery ---------------------------
(* Unclean volumes for FsckRecovery: journals over two blocks, and slots    *)
(* with local allocs, truncate logs and orphans.                            *)
EXTENDS FsckRecovery, TLC

MCBlocks == {"a", "b"}

A == [b |-> "a", esc |-> FALSE]
B == [b |-> "b", esc |-> TRUE]

Txn(tags, revokes, done) == [tags |-> tags, revokes |-> revokes, done |-> done]
Tags == << <<>>, <<A>>, <<B, A>> >>
Revokes == << <<>>, <<"b", "a">> >>
TxnNo(n, done) == Txn(Tags[(n % 3) + 1], Revokes[(n \div 3) + 1], done)

\* Digits of n in a mixed base.
Bit(n, div) == (n \div div) % 2 = 1

Journal(txns) == [seq |-> SeqRange - 1, first |-> LogLen - 2, txns |-> txns]

Live == [clus |-> {2}, tail |-> {}, bit |-> TRUE, valid |-> TRUE, dio |-> FALSE]
Gone(c) == [Live EXCEPT !.clus = {c}]
Dio == [Live EXCEPT !.clus = {8}, !.tail = {9}, !.dio = TRUE]
MCInodes == (1 :> Live) @@ (2 :> Gone(7)) @@ (3 :> Dio) @@ (4 :> Gone(10))

OneOf(i) == [ino |-> i, dio |-> i = 3]

Image(txns, both, la, tl, orphans, flag, force, ptr) ==
    LET used == {7, 8, 9, 10}   \* every orphan's clusters are allocated
    IN  [journal |-> [s \in Slots |-> Journal(IF s = 0 THEN txns ELSE <<>>)],
         dirty |-> [s \in Slots |-> both \/ s = 0],
         lalloc |-> [s \in Slots |-> IF s = 0 THEN la ELSE NoAlloc],
         tlog |-> [s \in Slots |-> IF s = 0 THEN <<>> ELSE tl],
         orphan |-> orphans, inode |-> MCInodes, inprog |-> flag,
         force |-> force, ptr |-> ptr,
         bitmap |-> {2} \cup used
                    \cup (IF la.total = 0 THEN {} ELSE {1, 3})
                    \cup UNION {Interval(r.start, r.len) :
                                  r \in {x \in ToSet(tl) : x.start # 0}}]

\* An image has only the inodes it needs.
Trim(i) ==
    LET refd == {1} \cup {e.ino : e \in ToSet(i.orphan[0]) \cup ToSet(i.orphan[1])}
    IN  [i EXCEPT !.inode = [x \in refd |-> MCInodes[x]],
                  !.bitmap = @ \ UNION {MCInodes[x].clus \cup MCInodes[x].tail :
                                           x \in (1..4) \ refd}]

NoOrphans == [s \in Slots |-> <<>>]

\* One or two transactions in slot 0's journal, the last one committed or
\* not, on a build with pointers of 4 or of 8 bytes.
JournalImage(n) ==
    LET second == n >= 12
        done == Bit(n, 1)
        u == ((n - 12) \div 2) % 6
        t == (IF second THEN (n - 12) \div 12 ELSE n \div 2)
    IN  IF second THEN <<TxnNo(t, TRUE), TxnNo(u, done)>> ELSE <<TxnNo(t, done)>>

\* A small journal with local alloc, truncate log and orphans.
SlotImage(n) ==
    LET la == [off |-> 1, total |-> 3, used |-> {1}]
        tl == <<[start |-> 4, len |-> 1], [start |-> 0, len |-> 1],
                [start |-> 5, len |-> 2]>>
        o1 == << <<>>, <<OneOf(2)>>, <<OneOf(3)>>, <<OneOf(2), OneOf(3)>> >>
    IN  Image(IF Bit(n, 1) THEN <<Txn(<<A>>, <<>>, TRUE)>> ELSE <<>>, TRUE,
              IF Bit(n, 2) THEN la ELSE NoAlloc,
              IF Bit(n, 2) THEN tl ELSE <<>>,
              (0 :> o1[((n \div 4) % 4) + 1])
                @@ (1 :> IF Bit(n, 16) THEN <<OneOf(4)>> ELSE <<>>),
              Bit(n, 1), Bit(n, 2) = Bit(n, 8), 4)

NJournals == 12 + 72
MCImages ==
    [n \in 0..(2 * NJournals + 31) |->
       Trim(IF n < 2 * NJournals
            THEN Image(JournalImage(n % NJournals), FALSE, NoAlloc, <<>>, NoOrphans,
                       FALSE, FALSE, IF n < NJournals THEN 4 ELSE 8)
            ELSE SlotImage(n - 2 * NJournals))]
=============================================================================
