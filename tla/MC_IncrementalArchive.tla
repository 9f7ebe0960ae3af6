----------------------- MODULE MC_IncrementalArchive -----------------------
(***************************************************************************)
(* One run of one repository.  Half the overlap is the unit of time, the   *)
(* watch horizon is two overlaps, and --since is once shorter than the     *)
(* overlap and once longer.                                                *)
(***************************************************************************)
EXTENDS IncrementalArchive
=============================================================================
