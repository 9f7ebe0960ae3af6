-------------------------- MODULE MC_CollectorPool --------------------------
(***************************************************************************)
(* Two workers for three repositories: a position is left to be sent when  *)
(* both workers are busy or gone.                                          *)
(***************************************************************************)
EXTENDS CollectorPool

MCTarget == 1 .. 3
=============================================================================
