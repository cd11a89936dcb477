---- MODULE MCIoCache ----
(* A device of three blocks behind a cache of two, used by two channels. *)
EXTENDS IoCache

MCBlocks == 0..2

====
