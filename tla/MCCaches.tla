------------------------------ MODULE MCCaches ------------------------------
(***************************************************************************)
(* Caches on a small instance.                                             *)
(***************************************************************************)
EXTENDS Caches

\* One key is larger than the whole budget, two of the others fit.
SmallSize == [c \in CacheIds |-> [k \in Keys |-> IF k = 3 THEN 5 ELSE k]]
SmallBudget == [c \in CacheIds |-> 3]
=============================================================================
