------------------------------ MODULE MC_TagMove ------------------------------
(***************************************************************************)
(* Two moves on one host: an install and a restore in either order, or the *)
(* same move twice, with one change by somebody else and four readings of  *)
(* the clock, as many as the two records of a pack input need.             *)
(***************************************************************************)
EXTENDS TagMove, TLC

\* The moves are interchangeable: every definition treats them alike.
Symmetry == Permutations(Move)

=============================================================================
