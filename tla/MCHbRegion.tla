----------------------------- MODULE MCHbRegion -----------------------------
(* The instance of HbRegion for TLC: its constants are model values of the  *)
(* configuration.  Liveness is checked, so the processes are not symmetric. *)
EXTENDS HbRegion

=============================================================================
