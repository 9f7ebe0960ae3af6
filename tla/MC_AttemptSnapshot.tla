------------------------- MODULE MC_AttemptSnapshot -------------------------
(***************************************************************************)
(* One run, four changes at GitHub and three passes: enough for a rerun    *)
(* that completes between two passes, and for a budget that runs out.  An  *)
(* attempt is answered with a sound job list or with one that repeats an   *)
(* ID.  What is kept of a job list is checked for every list of at most    *)
(* MaxJobs entries.                                                        *)
(***************************************************************************)
EXTENDS AttemptSnapshot

CONSTANTS IDs, Runs, Names, MaxJobs

Job(id, name) == [id |-> id, run |-> RunID, name |-> name]
MCJobLists == {<<Job(2, "b"), Job(1, "a")>>, <<Job(1, "a"), Job(1, "b")>>}

MCResponses ==
  UNION {[1 .. n -> [id : IDs, run : Runs, name : Names]] : n \in 0 .. MaxJobs}
=============================================================================
