---------------------------- MODULE RunPartition ----------------------------
(***************************************************************************)
(* How the runs created in an interval are listed (collect.Partitioner     *)
(* .Enumerate in internal/collect/window.go, with ProbeWorkflowRuns and    *)
(* ListWorkflowRuns of internal/githubapi/endpoints.go).                   *)
(*                                                                         *)
(* A search at GitHub returns no more than Ceiling rows, so a window that  *)
(* holds that many is halved until its halves hold fewer, down to one      *)
(* second.  A window is searched with both of its ends included, page by   *)
(* page from the newest run on, and keeps the runs of the half-open window *)
(* only.  Meanwhile runs appear in the listing and are deleted.            *)
(*                                                                         *)
(* Instants are numbers, Sec of them to a second; runs are created on full *)
(* seconds.                                                                *)
(***************************************************************************)
EXTENDS Integers, Sequences, FiniteSets, FiniteSetsExt, Functions

CONSTANTS
  Run,           \* IDs of the repository's runs
  Sec,           \* instants per second
  Ceiling,       \* the filtered-search ceiling: 1000 rows
  PerPage,       \* rows of a full page: 100
  MaxPartitions, \* windows an enumeration may ask for (default 8192)
  Requests,      \* intervals that are asked for
  Creations,     \* when the runs may have been created: sets of [Run -> instant]
  LateListing,   \* whether older runs than the listed ones may appear
  MaxChanges,    \* bound: changes of the listing during an enumeration
  Nothing

ASSUME PartitionAssumption ==
  /\ Run \subseteq Nat \ {0} /\ IsFiniteSet(Run)
  /\ Sec \in Nat \ {0} /\ PerPage \in Nat \ {0}
  /\ Ceiling \in Nat \ {0} /\ Ceiling % PerPage = 0
  /\ MaxPartitions \in Nat \ {0} /\ MaxChanges \in Nat /\ LateListing \in BOOLEAN
  /\ \A r \in Requests : r.from \in Nat /\ r.to \in Nat /\ r.from < r.to
  /\ \A c \in Creations, r \in Run : c[r] \in Nat /\ c[r] % Sec = 0

VARIABLES
  created,   \* when each run was created
  visible,   \* the runs GitHub lists
  gone,      \* the runs that were deleted
  changes,   \* how often that has changed
  steady,    \* ghost: the runs it listed all the time
  requested, \* the interval asked for
  pc,        \* "walk", "pages", "stopped", "returned" or "cancelled"
  todo,      \* the windows still to be searched, the next one first
  work,      \* how many windows were searched
  total,     \* what the probe of Head(todo) counted
  listing,   \* the pages of Head(todo) read so far
  leaves,    \* the windows that were not split: [window, status]
  assigned,  \* the runs kept by the leaves
  gaps,      \* the reasons of the gaps, in order
  result     \* what Enumerate returns

github == <<created, visible, gone, changes, steady>>
enumeration == <<requested, pc, todo, work, total, listing, leaves, assigned, gaps, result>>
vars == <<github, enumeration>>

-----------------------------------------------------------------------------
(* GitHub.                                                                  *)

Newer(a, b) == created[a] > created[b] \/ (created[a] = created[b] /\ a > b)

Appear(r) ==
  /\ changes < MaxChanges
  /\ r \notin visible \union gone
  /\ LateListing \/ \A other \in visible : Newer(r, other)
  /\ visible' = visible \union {r}
  /\ changes' = changes + 1
  /\ UNCHANGED <<created, gone, steady>> /\ UNCHANGED enumeration

Delete(r) ==
  /\ changes < MaxChanges
  /\ r \in visible
  /\ visible' = visible \ {r}
  /\ gone' = gone \union {r}
  /\ steady' = steady \ {r}
  /\ changes' = changes + 1
  /\ UNCHANGED created /\ UNCHANGED enumeration

\* The search created:from..to includes both ends; newest runs come first.
Found(window) == {r \in visible : window.from <= created[r] /\ created[r] <= window.to}
Rank(window, r) == Cardinality({other \in Found(window) : Newer(other, r)})
SearchPage(window, p) ==
  {r \in Found(window) : Rank(window, r) \in ((p - 1) * PerPage) .. (p * PerPage - 1)}
HasNext(window, p) == p * PerPage < Min({Ceiling, Cardinality(Found(window))})

-----------------------------------------------------------------------------
(* Windows.                                                                 *)

IntervalContains(window, t) == window.from <= t /\ t < window.to

\* The halves meet on a full second.
splitWindow(window) ==
  LET mid == window.from + Sec * (((window.to - window.from) \div Sec) \div 2)
  IN  << [from |-> window.from, to |-> mid], [from |-> mid, to |-> window.to] >>

Splittable(window) == window.to - window.from > Sec

\* Fault: the second in which the interval ends is cut off.
SecondCoverTruncated(interval) ==
  [from |-> Sec * (interval.from \div Sec), to |-> Sec * (interval.to \div Sec)]

\* The whole seconds the interval touches.
secondCover(interval) ==
  [from |-> Sec * (interval.from \div Sec), to |-> Sec * ((interval.to + Sec - 1) \div Sec)]

assignRunsToWindow(window, runs) == {r \in runs : IntervalContains(window, created[r])}

-----------------------------------------------------------------------------
(* The enumeration.  The windows still to be searched are the calls of walk *)
(* that the recursion has yet to make.                                      *)

Window == Head(todo)

\* Leave Window unsplit; stopping abandons the windows behind it.
Leaf(next, status, reasons, runs) ==
  /\ pc' = next
  /\ todo' = Tail(todo)
  /\ leaves' = leaves \union {[window |-> Window, status |-> status]}
  /\ gaps' = gaps \o reasons
  /\ assigned' = assigned \union runs
  /\ total' = Nothing /\ listing' = Nothing
  /\ UNCHANGED <<github, requested, result>>

splitOrSaturate ==
  IF Splittable(Window)
    THEN /\ pc' = "walk"
         /\ todo' = splitWindow(Window) \o Tail(todo)
         /\ total' = Nothing /\ listing' = Nothing
         /\ UNCHANGED <<github, requested, leaves, gaps, assigned, result>>
    ELSE Leaf("walk", "saturated", <<"DENSITY_CEILING">>, {})

Walking == pc = "walk" /\ todo # <<>>

\* The context is cancelled: Enumerate returns its error and no run.
Cancel ==
  /\ Walking \/ pc = "pages"
  /\ pc' = "cancelled"
  /\ gaps' = Append(gaps, "CANCELLED")
  /\ total' = Nothing /\ listing' = Nothing
  /\ UNCHANGED <<github, requested, todo, work, leaves, assigned, result>>

PartitionLimit ==
  /\ Walking
  /\ work >= MaxPartitions
  /\ work' = work + 1
  /\ Leaf("walk", "gap", <<"PARTITION_LIMIT">>, {})

\* When one request runs into its own deadline the walk stops, but the
\* context is alive and what was assigned is returned.
AfterError == {"walk", "stopped"}

ProbeFails ==
  /\ Walking
  /\ work < MaxPartitions
  /\ work' = work + 1
  /\ \E next \in AfterError : Leaf(next, "gap", <<"TRANSIENT_NETWORK">>, {})

\* Fault: a count of exactly Ceiling is trusted.
DenseAbove(count) == count > Ceiling

Dense(count) == count >= Ceiling

Probe ==
  /\ Walking
  /\ work < MaxPartitions
  /\ work' = work + 1
  /\ LET count == Cardinality(Found(Window))
     IN  IF Dense(count)
           THEN splitOrSaturate
           ELSE /\ pc' = "pages"
                /\ total' = count
                /\ listing' = [runs |-> {}, rows |-> 0, total |-> 0, full |-> 0, page |-> 1]
                /\ UNCHANGED <<github, requested, todo, leaves, gaps, assigned, result>>

\* The listing with one more page.  Rows are counted as they come: a run that
\* two pages repeat counts twice.
WithPage ==
  LET rows == SearchPage(Window, listing.page)
  IN  [runs |-> listing.runs \union rows,
       rows |-> listing.rows + Cardinality(rows),
       total |-> Max({listing.total, Cardinality(Found(Window))}),
       full |-> IF Cardinality(rows) = PerPage THEN listing.full + 1 ELSE listing.full,
       page |-> listing.page + 1]

ReadPage ==
  /\ pc = "pages"
  /\ HasNext(Window, listing.page)
  /\ listing' = WithPage
  /\ UNCHANGED <<github, requested, pc, todo, work, total, leaves, assigned, gaps, result>>

PageFails ==
  /\ pc = "pages"
  /\ \E next \in AfterError : Leaf(next, "gap", <<"TRANSIENT_NETWORK">>, {})
  /\ UNCHANGED work

Truncated(l) == Dense(l.total) \/ l.full >= Ceiling \div PerPage

\* Fault: the collected rows are not compared with the reported total.
ShortNever(l) == FALSE

Short(l) == l.total > l.rows

ReadLastPage ==
  /\ pc = "pages"
  /\ ~HasNext(Window, listing.page)
  /\ UNCHANGED work
  /\ LET runs == assignRunsToWindow(Window, WithPage.runs)
     IN  CASE Truncated(WithPage) -> splitOrSaturate
           [] ~Truncated(WithPage) /\ Short(WithPage) ->
                Leaf("walk", "gap", <<"PAGINATION_FAILURE">>, {})
           [] ~Truncated(WithPage) /\ ~Short(WithPage) /\ WithPage.total # total ->
                Leaf("walk", "gap", <<"LIVE_STATE_RACE">>, runs)
           [] OTHER -> Leaf("walk", "complete", <<>>, runs)

Within(runs) == {r \in runs : IntervalContains(requested, created[r])}

Return ==
  /\ (pc = "walk" /\ todo = <<>>) \/ pc = "stopped"
  /\ pc' = "returned"
  /\ result' = Within(assigned)
  /\ UNCHANGED <<github, requested, todo, work, total, listing, leaves, assigned, gaps>>

Init ==
  /\ created \in Creations
  /\ visible \in SUBSET Run
  /\ gone = {} /\ changes = 0 /\ steady = visible
  /\ requested \in Requests
  /\ pc = "walk" /\ todo = <<secondCover(requested)>> /\ work = 0
  /\ total = Nothing /\ listing = Nothing
  /\ leaves = {} /\ assigned = {} /\ gaps = <<>> /\ result = {}

GitHub == \E r \in Run : Appear(r) \/ Delete(r)

Partitioner ==
  \/ Cancel \/ PartitionLimit
  \/ ProbeFails \/ Probe
  \/ ReadPage \/ PageFails \/ ReadLastPage
  \/ Return

Next == GitHub \/ Partitioner

Spec == Init /\ [][Next]_vars

-----------------------------------------------------------------------------
(* Properties.                                                              *)

\* Runs were deleted or runs appeared, but not both.
OneKindOfChange == gone = {} \/ changes = Cardinality(gone)

\* An enumeration that returns without a gap holds every run of the interval
\* that GitHub listed all the time, however many others were deleted or however
\* many appeared in the listing meanwhile (livecollect moves the watermark past
\* the interval on the strength of this).  One that is deleted and one that
\* appears can hide each other from the totals.
SilenceIsComplete ==
  pc = "returned" /\ gaps = <<>> /\ OneKindOfChange =>
    \A r \in steady : IntervalContains(requested, created[r]) => r \in result

\* When nothing changes at GitHub and no request fails, the only runs missing
\* are those of seconds that hold Ceiling runs together with the next one,
\* each of these seconds leaves a gap, and nothing else does (splitting goes
\* on to the second, and a quiet listing raises no alarm).
Crowded(t) == Cardinality({r \in visible : t <= created[r] /\ created[r] <= t + Sec}) >= Ceiling

Queried == secondCover(requested)

QuietIsExact ==
  pc = "returned" /\ changes = 0
    /\ Range(gaps) \cap {"TRANSIENT_NETWORK", "PARTITION_LIMIT"} = {} =>
    /\ result = {r \in visible : IntervalContains(requested, created[r]) /\ ~Crowded(created[r])}
    /\ Len(gaps) = Cardinality({t \in Queried.from .. (Queried.to - 1) : t % Sec = 0 /\ Crowded(t)})
    /\ Range(gaps) \subseteq {"DENSITY_CEILING"}
=============================================================================
