-------------------------- MODULE IncrementalArchive --------------------------
(***************************************************************************)
(* What the "archive" command collects of one repository, invocation after *)
(* invocation (cli.runNetworkArchiveWithRunner, livecollect                *)
(* .scheduleRepository and collectRepository, collect.PlanIncremental-     *)
(* Archive), while runs are created and run again at GitHub.               *)
(*                                                                         *)
(* A checkpoint of the archive promises that all runs created before its   *)
(* watermark were collected, and lists the parent runs that are watched: a *)
(* run may get later attempts up to Horizon after its creation, so it is   *)
(* collected again by every invocation until then.  An invocation lists    *)
(* the new parents from the watermark less Overlap, collects those and the *)
(* watched ones, and writes the next checkpoint only if nothing failed.    *)
(*                                                                         *)
(* Attempts are named by the instant they start at; the first one starts   *)
(* with the run.  Storing a batch is one step here (see ArchiveStore), and *)
(* so is reading which attempts a run has (see AttemptSnapshot); what they *)
(* ran and logged is collected after that, and only then is the run marked *)
(* as refreshed.                                                           *)
(***************************************************************************)
EXTENDS Integers, FiniteSets

CONSTANTS
  Run,       \* runs of the repository
  Overlap,   \* collect.DefaultArchiveOverlap: 15 minutes
  Horizon,   \* collect.ProvisionalParentLookback: 65 days
  Since,     \* values of --since
  Explicit,  \* lengths of an explicit --from .. --to
  Latency,   \* a run may be missing from a listing this long (external)
  Behind, Ahead, \* how far before and after the present --to may lie
  MaxTime,   \* bound: instants are 0 .. MaxTime
  MaxAttempts, \* bound: attempts of one run
  Nothing

ASSUME TimeAssumption ==
  /\ Overlap \in Nat \ {0} /\ Horizon \in Nat \ {0}
  /\ Since \subseteq Nat \ {0} /\ Explicit \subseteq Nat \ {0}
  /\ Latency \in Nat /\ Behind \in Nat /\ Ahead \in Nat /\ MaxTime \in Nat /\ MaxAttempts \in Nat

VARIABLES
  time,
  created,    \* [Run -> instant or Never]: runs at GitHub
  attempts,   \* [Run -> set of instants]: their attempts
  archive,    \* [exists, attempts, checkpoint]
  job,        \* the invocation in progress, or Nothing
  start,      \* ghost: what the first checkpoint began with
  clipped,    \* ghost: instants whose overlap a requested start cut off
  overtaken   \* ghost: [Run -> attempts that started while their run was
              \* being collected for the last time]

Never == MaxTime + 1
Time == 0 .. MaxTime

\* A watched parent, the checkpoint that lists them, and an invocation.
Watched == [refreshed : Time, final : BOOLEAN]
WatchSet == UNION {[parents -> Watched] : parents \in SUBSET Run}
Checkpoint == [watermark : Nat, parents : WatchSet]
Gap == {"archive_checkpoint_continuity", "run_partition", "workflow_run",
        "watched_parent_refresh"}
Reading == [run : Run, complete : BOOLEAN]
Job == [from : Int, to : Nat, first : Int, parents : WatchSet, write : BOOLEAN,
        seen : {Nothing} \union SUBSET Run, todo : SUBSET Run, reading : {Nothing} \union Reading,
        found : [Run -> SUBSET Time], complete : BOOLEAN, gaps : SUBSET Gap]

ASSUME NothingAssumption ==
  /\ Nothing \notin Checkpoint /\ Nothing \notin Job /\ Nothing \notin Reading
  /\ \A runs \in SUBSET Run : Nothing # runs

github == <<created, attempts>>
vars == <<time, created, attempts, archive, job, start, clipped, overtaken>>

-----------------------------------------------------------------------------
(* The environment.                                                         *)

Tick ==
  /\ time < MaxTime
  /\ time' = time + 1
  /\ UNCHANGED <<created, attempts, archive, job, start, clipped, overtaken>>

CreateRun(u) ==
  /\ created[u] = Never
  /\ created' = [created EXCEPT ![u] = time]
  /\ attempts' = [attempts EXCEPT ![u] = {time}]
  /\ UNCHANGED <<time, archive, job, start, clipped, overtaken>>

\* A re-run, or a job that waited for its environment.
StartAttempt(u) ==
  /\ created[u] < time /\ time < created[u] + Horizon
  /\ Cardinality(attempts[u]) < MaxAttempts
  /\ attempts' = [attempts EXCEPT ![u] = @ \union {time}]
  /\ UNCHANGED <<time, created, archive, job, start, clipped, overtaken>>

-----------------------------------------------------------------------------
(* The schedule of an invocation that asks for from .. to.                  *)

checkpoint == archive.checkpoint
Boundary(u) == created[u] + Horizon
Later(a, b) == IF a < b THEN b ELSE a

\* Fault: a parent is dropped after the horizon, whenever it was collected last.
NeedsRefreshCutoffOnly(u, to) == to < Boundary(u)

\* Watched parents that have to be collected again; the others are dropped.
NeedsRefresh(u, to) ==
  \/ to < Boundary(u)
  \/ ~checkpoint.parents[u].final
  \/ checkpoint.parents[u].refreshed < Boundary(u)

Refresh(to) == {u \in DOMAIN checkpoint.parents : NeedsRefresh(u, to)}

\* checkpointMatchesCurrentPolicy, and PlanIncrementalArchive accepts it.
Resumable(to) ==
  /\ checkpoint # Nothing
  /\ checkpoint.watermark <= to + Overlap
  /\ \A u \in DOMAIN checkpoint.parents : created[u] <= to
  /\ checkpoint.watermark - Overlap < to

\* Fault: new parents are listed from the watermark on.
ResumeFromWatermark(from) == Later(from, checkpoint.watermark)

ResumeFrom(from) == Later(from, checkpoint.watermark - Overlap)

Continuous(from) == checkpoint.watermark >= from

\* Fault: a discontinuous request is not reported.
BeginQuietly(from, to, first, parents, write, continuous) ==
  /\ job = Nothing
  /\ from < to
  /\ archive' = [archive EXCEPT !.exists = TRUE]
  /\ job' = [from |-> from, to |-> to, first |-> first, parents |-> parents, write |-> write,
             seen |-> Nothing, todo |-> DOMAIN parents, reading |-> Nothing,
             found |-> [u \in Run |-> {}], complete |-> continuous, gaps |-> {}]
  /\ UNCHANGED <<time, created, attempts, start, clipped, overtaken>>

Begin(from, to, first, parents, write, continuous) ==
  /\ job = Nothing
  /\ from < to
  /\ archive' = [archive EXCEPT !.exists = TRUE]
  /\ job' = [from |-> from, to |-> to, first |-> first, parents |-> parents, write |-> write,
             seen |-> Nothing, todo |-> DOMAIN parents, reading |-> Nothing,
             found |-> [u \in Run |-> {}], complete |-> continuous,
             gaps |-> IF continuous THEN {} ELSE {"archive_checkpoint_continuity"}]
  /\ UNCHANGED <<time, created, attempts, start, clipped, overtaken>>

NoParents == [u \in {} |-> Nothing]

\* An archive that this invocation creates.
BeginInitial(from, to) ==
  /\ ~archive.exists
  /\ Begin(from, to, from - Horizon, NoParents, TRUE, TRUE)

\* An explicit --from leaves the checkpoint of an existing archive alone.
BeginPreserve(from, to) ==
  /\ archive.exists
  /\ Begin(from, to, from - Horizon, NoParents, FALSE, TRUE)

\* No usable checkpoint: the whole horizon is listed anew.
BeginFallback(from, to) ==
  /\ archive.exists
  /\ ~Resumable(to)
  /\ Begin(from, to, from - Horizon, NoParents, TRUE, TRUE)

BeginResume(from, to) ==
  /\ archive.exists
  /\ Resumable(to)
  /\ Begin(from, to, ResumeFrom(from), [u \in Refresh(to) |-> checkpoint.parents[u]],
           TRUE, Continuous(from))

-----------------------------------------------------------------------------
(* The collection.                                                          *)

\* What a listing of the parents created in first .. to holds: a run may be
\* missing from it for a while.
InWindow == {u \in Run : job.first <= created[u] /\ created[u] < job.to
                         /\ created[u] <= time}
MustList == {u \in InWindow : created[u] + Latency <= time}

ListRuns ==
  /\ job # Nothing /\ job.seen = Nothing
  /\ \E seen \in SUBSET InWindow :
       /\ MustList \subseteq seen
       /\ job' = [job EXCEPT !.seen = seen, !.todo = @ \union seen]
  /\ UNCHANGED <<time, created, attempts, archive, start, clipped, overtaken>>

\* A material gap of the partition.
ListRunsPartly ==
  /\ job # Nothing /\ job.seen = Nothing
  /\ \E seen \in SUBSET InWindow :
       job' = [job EXCEPT !.seen = seen, !.todo = @ \union seen,
                          !.complete = FALSE, !.gaps = @ \union {"run_partition"}]
  /\ UNCHANGED <<time, created, attempts, archive, start, clipped, overtaken>>

\* One run is collected after the other.
ToCollect(u) == job # Nothing /\ job.seen # Nothing /\ job.reading = Nothing /\ u \in job.todo

\* Which attempts a listed run has, or a watched one that the listing did not
\* hold.
ReadRun(u) ==
  /\ ToCollect(u)
  /\ job' = [job EXCEPT !.reading = [run |-> u, complete |-> TRUE], !.found[u] = attempts[u]]
  /\ UNCHANGED <<time, created, attempts, archive, start, clipped, overtaken>>

\* The run is read with a material gap: nothing is known to be collected of it.
ReadRunPartly(u) ==
  /\ ToCollect(u)
  /\ job' = [job EXCEPT !.reading = [run |-> u, complete |-> FALSE],
                        !.complete = FALSE, !.gaps = @ \union {"workflow_run"}]
  /\ UNCHANGED <<time, created, attempts, archive, start, clipped, overtaken>>

\* A watched run cannot be read, or contradicts the checkpoint.
RefreshFails(u) ==
  /\ ToCollect(u) /\ u \notin job.seen
  /\ job' = [job EXCEPT !.todo = @ \ {u}, !.complete = FALSE,
                        !.gaps = @ \union {"watched_parent_refresh"}]
  /\ UNCHANGED <<time, created, attempts, archive, start, clipped, overtaken>>

Final(u) == job.reading.complete /\ Boundary(u) <= time

\* The run counts as refreshed when its jobs and logs have been collected.
Watch(u) ==
  [v \in DOMAIN job.parents \union {u} |->
     IF v = u THEN [refreshed |-> time, final |-> Final(u)] ELSE job.parents[v]]

CollectRun(u) ==
  /\ job # Nothing /\ job.reading # Nothing /\ job.reading.run = u
  /\ job' = [job EXCEPT !.reading = Nothing, !.todo = @ \ {u}, !.parents = Watch(u)]
  /\ overtaken' = IF Final(u)
                    THEN [overtaken EXCEPT ![u] = @ \union (attempts[u] \ job.found[u])]
                    ELSE overtaken
  /\ UNCHANGED <<time, created, attempts, archive, start, clipped>>

Offered == [watermark |-> job.to, parents |-> job.parents]

\* Fault: the archive takes any checkpoint.
WritesAlways == job.write /\ job.complete

\* The archive takes the checkpoint unless it holds a later one.
Writes ==
  /\ job.write /\ job.complete
  /\ checkpoint # Nothing => checkpoint.watermark <= job.to

Commit ==
  /\ job # Nothing /\ job.seen # Nothing /\ job.todo = {} /\ job.reading = Nothing
  /\ archive' = [exists |-> TRUE,
                 attempts |-> [u \in Run |-> archive.attempts[u] \union job.found[u]],
                 checkpoint |-> IF Writes THEN Offered ELSE checkpoint]
  /\ start' = IF Writes /\ checkpoint = Nothing THEN job.first ELSE start
  /\ clipped' = IF Writes /\ checkpoint # Nothing
                  THEN clipped \union {t \in Time : /\ checkpoint.watermark - Overlap <= t
                                                    /\ t < job.from}
                  ELSE clipped
  /\ job' = Nothing
  /\ UNCHANGED <<time, created, attempts, overtaken>>

\* Cancelled, failed or killed: nothing is appended.
Abort ==
  /\ job # Nothing
  /\ job' = Nothing
  /\ UNCHANGED <<time, created, attempts, archive, start, clipped, overtaken>>

Init ==
  /\ time = 0
  /\ created = [u \in Run |-> Never]
  /\ attempts = [u \in Run |-> {}]
  /\ archive = [exists |-> FALSE, attempts |-> [u \in Run |-> {}], checkpoint |-> Nothing]
  /\ job = Nothing
  /\ start = 0
  /\ clipped = {}
  /\ overtaken = [u \in Run |-> {}]

\* --since with an optional --to, or --from and --to.
Invoke ==
  \E to \in (time - Behind) .. (time + Ahead) :
    /\ to >= 0
    /\ \/ \E since \in Since : \/ BeginInitial(to - since, to)
                              \/ BeginFallback(to - since, to)
                              \/ BeginResume(to - since, to)
       \/ \E length \in Explicit : \/ BeginInitial(to - length, to)
                                   \/ BeginPreserve(to - length, to)

Collect ==
  \/ ListRuns \/ ListRunsPartly
  \/ \E u \in Run : ReadRun(u) \/ ReadRunPartly(u) \/ RefreshFails(u) \/ CollectRun(u)
  \/ Commit \/ Abort

Next ==
  \/ Tick
  \/ \E u \in Run : CreateRun(u) \/ StartAttempt(u)
  \/ Invoke
  \/ Collect

Spec == Init /\ [][Next]_vars
-----------------------------------------------------------------------------

\* Runs the checkpoint answers for: the next listing leaves them out.
InScope(u) ==
  /\ checkpoint # Nothing
  /\ start <= created[u] /\ created[u] < checkpoint.watermark - Overlap
  /\ created[u] <= time

\* No silent hole: every attempt of a run in scope that started before the
\* watermark is archived, however collections overlapped, failed or were
\* repeated and whenever the run was run again, but for two losses that the
\* code does not report and that are set aside here:
\* - clipped: runs that only an overlap could have found and that fall where a
\*   requested start cut it off (PlanIncrementalArchive lets an explicit start
\*   clip the overlap);
\* - overtaken: attempts that started before the horizon of their run, after
\*   collectParentRun had read which attempts there are and before it took the
\*   time of the refresh, when that time is not before the horizon: the refresh
\*   counts as the final one and the run is not watched any more.
NoSilentHole ==
  \A u \in Run : (InScope(u) /\ created[u] \notin clipped) =>
    \A a \in attempts[u] : a < checkpoint.watermark =>
      a \in archive.attempts[u] \/ a \in overtaken[u]

\* A collection that asks to continue the checkpoint and reports no gap brings
\* the watermark to its cutoff, or leaves a later one.
NoSilentStall ==
  [][(Commit /\ job.write /\ job.gaps = {}) =>
       archive'.checkpoint # Nothing /\ job.to <= archive'.checkpoint.watermark]_vars

\* The watermark is never taken back, and an explicit window does not move it.
WatermarkHolds ==
  [][checkpoint # Nothing =>
       /\ archive'.checkpoint # Nothing
       /\ checkpoint.watermark <= archive'.checkpoint.watermark
       /\ (job # Nothing /\ ~job.write) => archive'.checkpoint = checkpoint]_vars
=============================================================================
