------------------------------ MODULE MCLanes -------------------------------
(***************************************************************************)
(* Lanes on a small instance.  The lanes differ only in their names.       *)
(***************************************************************************)
EXTENDS Lanes
=============================================================================
