---------------------------- MODULE MCChainAlloc ----------------------------
(* A volume of five clusters of two blocks: room for a short allocation next *)
(* to a group and a file, and for a chain of two groups.                     *)
EXTENDS ChainAlloc

MCRequests == {<<1, 1>>, <<1, 2>>}
=============================================================================
