----------------------------- MODULE MCCustomer -----------------------------
(***************************************************************************)
(* Customer on a small instance; the configuration gives the constants.    *)
(***************************************************************************)
EXTENDS Customer
=============================================================================
