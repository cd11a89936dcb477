--------------------------- MODULE MCRefcountFiles ---------------------------
EXTENDS RefcountFiles

MCFiles == <<"a", "b", "c">>
MCBlocks == 1..16
MCClusters == 1..9
MCPool == 10..24

E(v, p, n, flag) == [cpos |-> v, blk |-> p, len |-> n, flag |-> flag]
Volume(a, b, c) == [a |-> a, b |-> b, c |-> c]
Overlap == Volume(<<E(0, 1, 6, 1)>>, <<E(0, 4, 6, 1)>>, <<>>)
Crossed == Volume(<<E(0, 6, 4, 1), E(4, 1, 5, 1)>>, <<E(0, 1, 9, 1)>>, <<>>)
Comb == Volume(<<E(0, 1, 9, 1)>>,
               <<E(0, 2, 1, 1), E(1, 4, 1, 1), E(2, 6, 1, 1), E(3, 8, 1, 1)>>, <<>>)
Claimed == Volume(<<E(0, 1, 5, 1), E(6, 7, 1, 1)>>, <<E(0, 1, 5, 1)>>,
                  <<E(0, 3, 1, 0), E(2, 7, 1, 0)>>)
Partly == Volume(<<E(0, 1, 5, 1), E(6, 8, 1, 1)>>, <<E(0, 1, 2, 1)>>,
                 <<E(0, 4, 1, 0), E(2, 8, 1, 0)>>)
Lone == Volume(<<E(0, 1, 5, 1), E(6, 8, 1, 1)>>, <<E(0, 1, 5, 1)>>, <<E(0, 8, 1, 0)>>)
MCVolumes == {Overlap, Crossed, Comb, Claimed, Partly, Lone}
==============================================================================
