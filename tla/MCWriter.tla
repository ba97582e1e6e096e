------------------------------ MODULE MCWriter ------------------------------
(***************************************************************************)
(* Writer on small instances; the configurations give the constants.       *)
(***************************************************************************)
EXTENDS Writer
=============================================================================
