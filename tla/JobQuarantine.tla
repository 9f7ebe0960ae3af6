--------------------------- MODULE JobQuarantine ---------------------------
(***************************************************************************)
(* What AttemptCollector.Snapshot (internal/collect/attempts.go) keeps of  *)
(* the job list of one run attempt, and when a log may still be joined to  *)
(* one of the kept jobs by its name.                                       *)
(*                                                                         *)
(* A job is a record [id, run, name].  An id <= 0 is no identity, and a    *)
(* run other than the requested one contradicts the route.  The names of   *)
(* the refused jobs are kept, only to refuse a join by name.               *)
(***************************************************************************)
EXTENDS Integers, Sequences, FiniteSets, Functions

CONSTANTS RunID,    \* the run that was asked for
          NoName    \* the empty job name

Listed(jobs) == 1 .. Len(jobs)

\* Reasons to refuse the job at a position of the response.
MissingIdentity(jobs, i) == jobs[i].id <= 0

\* Fault: the first of several objects with one ID is kept.
DuplicateLater(jobs, i) ==
  /\ ~MissingIdentity(jobs, i)
  /\ \E j \in 1 .. (i - 1) : jobs[j].id = jobs[i].id

DuplicateID(jobs, i) ==
  /\ ~MissingIdentity(jobs, i)
  /\ \E j \in Listed(jobs) \ {i} : jobs[j].id = jobs[i].id

ContradictedRun(jobs, i) ==
  /\ ~MissingIdentity(jobs, i) /\ ~DuplicateID(jobs, i)
  /\ jobs[i].run # RunID

Quarantined(jobs, i) ==
  \/ MissingIdentity(jobs, i)
  \/ DuplicateID(jobs, i)
  \/ ContradictedRun(jobs, i)

\* The kept jobs have different IDs, so there is one such order.
SortedByID(S) ==
  CHOOSE sorted \in [1 .. Cardinality(S) -> S] :
    \A i, j \in 1 .. Cardinality(S) : i < j => sorted[i].id < sorted[j].id

KeptJobs(jobs) ==
  SortedByID({jobs[i] : i \in {j \in Listed(jobs) : ~Quarantined(jobs, j)}})

\* Fault: the names of refused duplicates are forgotten.
QuarantinedNamesOnce(jobs) ==
  {jobs[i].name : i \in {j \in Listed(jobs) : Quarantined(jobs, j) /\ ~DuplicateID(jobs, j)}}

QuarantinedNames(jobs) ==
  {jobs[i].name : i \in {j \in Listed(jobs) : Quarantined(jobs, j)}}

\* The scopes of the identity gaps the response leaves.
JobGaps(jobs) ==
  {g \in {"missing_identity", "contradicted_run", "duplicate_id"} :
     \E i \in Listed(jobs) :
       CASE g = "missing_identity" -> MissingIdentity(jobs, i)
         [] g = "contradicted_run" -> ContradictedRun(jobs, i)
         [] g = "duplicate_id"     -> DuplicateID(jobs, i)}

LogJobNameCorrelationSafe(jobs, name) ==
  \A quarantined \in QuarantinedNames(jobs) : quarantined \notin {NoName, name}

-----------------------------------------------------------------------------
\* The order in which the API lists the jobs decides nothing: "keeping the
\* first object would let response ordering choose forensic truth".
OrderDecidesNothing(jobs) ==
  \A p \in Bijection(Listed(jobs), Listed(jobs)) :
    LET permuted == [i \in Listed(jobs) |-> jobs[p[i]]]
    IN  /\ KeptJobs(permuted) = KeptJobs(jobs)
        /\ JobGaps(permuted) = JobGaps(jobs)
        /\ QuarantinedNames(permuted) = QuarantinedNames(jobs)

\* A job that is not kept leaves a gap, and no log is joined to a kept job
\* through a name that a refused job bears as well.
RefusedNamesBlockJoins(jobs) ==
  \A i \in Listed(jobs) :
    (\A k \in Listed(KeptJobs(jobs)) : KeptJobs(jobs)[k] # jobs[i]) =>
      /\ JobGaps(jobs) # {}
      /\ ~LogJobNameCorrelationSafe(jobs, jobs[i].name)
=============================================================================
