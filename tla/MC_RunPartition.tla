--------------------------- MODULE MC_RunPartition ---------------------------
(***************************************************************************)
(* Runs get their IDs in the order they are created, on the full seconds   *)
(* of an interval of four seconds and on its end.  One request covers it,  *)
(* one starts and ends within a second, and one is shorter than a second.  *)
(***************************************************************************)
EXTENDS RunPartition

MCRequests == {[from |-> 0, to |-> 8], [from |-> 1, to |-> 7], [from |-> 3, to |-> 4]}
MCCreations ==
  {c \in [Run -> {0, 2, 4, 6, 8}] : \A a, b \in Run : a < b => c[a] <= c[b]}
=============================================================================
