------------------------------ MODULE MCSyncer ------------------------------
(***************************************************************************)
(* Syncer on small instances.                                              *)
(***************************************************************************)
EXTENDS Syncer

\* Two streams whose chunks alternate: the window is shared.
Alternating == {<<1, 0>>, <<2, 1>>, <<1, 2>>}
=============================================================================
