---------------------------- MODULE MCDlmcontrol ----------------------------
(***************************************************************************)
(* Instances of Dlmcontrol for TLC.                                        *)
(***************************************************************************)
EXTENDS Dlmcontrol

=============================================================================
