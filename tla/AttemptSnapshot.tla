--------------------------- MODULE AttemptSnapshot ---------------------------
(***************************************************************************)
(* The snapshot of one workflow run and its attempts that                  *)
(* AttemptCollector.Snapshot (internal/collect/attempts.go) takes over     *)
(* several API requests, while the run goes on at GitHub.                  *)
(*                                                                         *)
(* GitHub is an external actor: the latest attempt of the run makes        *)
(* progress or completes, and a completed run may be run again, which adds *)
(* an attempt.  Every change moves updated_at.  Any request may fail, be   *)
(* cancelled, or be answered with an object of another identity.           *)
(***************************************************************************)
EXTENDS JobQuarantine

CONSTANTS MaxPasses,   \* AttemptCollector.MaxStabilizationPasses (default 3)
          MaxUpdates,  \* bound: changes of the run at GitHub
          JobLists,    \* job lists an attempt may be answered with
          Responses,   \* job lists for what is kept of a list, whatever it holds
          Nothing

ASSUME BoundsAssumption ==
  /\ MaxPasses \in Nat \ {0}
  /\ MaxUpdates \in Nat

\* Nothing is asked of a job but that its ID and its run are numbers.
ASSUME ResponsesAssumption ==
  Responses \subseteq Seq([id : Int, run : Int, name : STRING])

VARIABLES
  github,    \* the run: [updated, attempts], attempts a sequence of versions
  pc,        \* "begin", "pass", "attempt", "jobs" or "done"
  pass,      \* the stabilization pass, from 0
  current,   \* the parent this pass works from
  collected, \* attempt numbers that were dealt with
  bundle,    \* the attempt whose jobs are being listed
  snapshot   \* [initial, final, attempts, gaps, stable]

collector == <<pc, pass, current, collected, bundle, snapshot>>
vars == <<github, pc, pass, current, collected, bundle, snapshot>>

-----------------------------------------------------------------------------
(* GitHub.  A version of an attempt is [done, at]: whether it has completed *)
(* and the update that made it so.                                          *)

Latest == Len(github.attempts)
Parent == [attempt |-> Latest, done |-> github.attempts[Latest].done,
           updated |-> github.updated]

Change(attempts) == github' = [updated |-> github.updated + 1, attempts |-> attempts]

RunProgress ==
  /\ github.updated < MaxUpdates
  /\ ~Parent.done
  /\ \E done \in BOOLEAN : Change([github.attempts EXCEPT ![Latest] =
       [done |-> done, at |-> github.updated + 1]])
  /\ UNCHANGED collector

Rerun ==
  /\ github.updated < MaxUpdates
  /\ Parent.done
  /\ Change(Append(github.attempts, [done |-> FALSE, at |-> github.updated + 1]))
  /\ UNCHANGED collector

-----------------------------------------------------------------------------
(* The collector.                                                           *)

Gap(scope, attempt) == [scope |-> scope, attempt |-> attempt]
AddGaps(gaps) == [snapshot EXCEPT !.gaps = @ \union gaps]

\* The attempts this pass still has to ask for.
Pending == (1 .. current.attempt) \ collected
IsNext(a) == a \in Pending /\ \A b \in Pending : a <= b

Finish(result) ==
  /\ pc' = "done"
  /\ snapshot' = result
  /\ UNCHANGED <<github, pass, current, collected, bundle>>

\* A failed or contradicted parent response ends the snapshot with a gap.
\* (When the context is cancelled the error is returned along with it.)
GetParentFails ==
  /\ pc = "begin"
  /\ Finish(AddGaps({Gap("workflow_run", 0)}))

GetParent ==
  /\ pc = "begin"
  /\ pc' = "pass"
  /\ current' = Parent
  /\ snapshot' = [snapshot EXCEPT !.initial = Parent]
  /\ UNCHANGED <<github, pass, collected, bundle>>

\* The context is cancelled, or the parent has no positive run_attempt.
Cancelled ==
  /\ pc = "pass"
  /\ Finish(AddGaps({Gap("workflow_run", 0)}))

StartPass ==
  /\ pc = "pass"
  /\ pc' = "attempt"
  /\ UNCHANGED <<github, pass, current, collected, bundle, snapshot>>

\* Fault: an attempt that could not be read is dropped without a gap.
GetAttemptFailsSilently(a) ==
  /\ pc = "attempt" /\ IsNext(a)
  /\ collected' = collected \union {a}
  /\ UNCHANGED <<github, pc, pass, current, bundle, snapshot>>

\* The request fails, or the answer contradicts the run or the attempt number.
\* The attempt is not asked for again in a later pass.
GetAttemptFails(a) ==
  /\ pc = "attempt" /\ IsNext(a)
  /\ snapshot' = AddGaps({Gap("workflow_run_attempt", a)})
  /\ collected' = collected \union {a}
  /\ UNCHANGED <<github, pc, pass, current, bundle>>

GetAttempt(a) ==
  /\ pc = "attempt" /\ IsNext(a)
  /\ bundle' = [attempt |-> a, version |-> github.attempts[a], pass |-> pass]
  /\ pc' = "jobs"
  /\ UNCHANGED <<github, pass, current, collected, snapshot>>

\* The attempt is kept without jobs when they cannot be listed.
KeepBundle(jobs, gaps) ==
  /\ pc' = "attempt"
  /\ collected' = collected \union {bundle.attempt}
  /\ snapshot' = [AddGaps(gaps) EXCEPT !.attempts =
       @ \union {[attempt |-> bundle.attempt, version |-> bundle.version,
                  pass |-> bundle.pass, jobs |-> jobs]}]
  /\ bundle' = Nothing
  /\ UNCHANGED <<github, pass, current>>

ListJobsFails ==
  /\ pc = "jobs"
  /\ KeepBundle(<<>>, {Gap("attempt_jobs", bundle.attempt)})

ListJobs ==
  /\ pc = "jobs"
  /\ \E jobs \in JobLists :
       KeepBundle(KeptJobs(jobs), {Gap(scope, bundle.attempt) : scope \in JobGaps(jobs)})

\* Fault: the status is compared without the update time.
SameRunStatus(left, right) == left.attempt = right.attempt /\ left.done = right.done

sameRunSnapshot(left, right) ==
  /\ left.attempt = right.attempt
  /\ left.done = right.done
  /\ left.updated = right.updated

RereadFails ==
  /\ pc = "attempt" /\ Pending = {}
  /\ Finish(AddGaps({Gap("workflow_run_stabilization", 0)}))

\* Another identity: the contradicting response is recorded all the same.
RereadContradicted ==
  /\ pc = "attempt" /\ Pending = {}
  /\ Finish([AddGaps({Gap("workflow_run_stabilization", 0)}) EXCEPT !.final = Nothing])

RereadStable ==
  /\ pc = "attempt" /\ Pending = {}
  /\ sameRunSnapshot(current, Parent)
  /\ Finish([snapshot EXCEPT !.final = Parent, !.stable = TRUE])

\* Fault: the run is taken for stable when the budget is spent.
RereadChangedKept ==
  /\ pc = "attempt" /\ Pending = {}
  /\ ~sameRunSnapshot(current, Parent)
  /\ current' = Parent
  /\ IF pass + 1 < MaxPasses
       THEN pass' = pass + 1 /\ pc' = "pass" /\ snapshot' = [snapshot EXCEPT !.final = Parent]
       ELSE pass' = pass /\ pc' = "done" /\ snapshot' = [snapshot EXCEPT !.final = Parent]
  /\ UNCHANGED <<github, collected, bundle>>

RereadChanged ==
  /\ pc = "attempt" /\ Pending = {}
  /\ ~sameRunSnapshot(current, Parent)
  /\ current' = Parent
  /\ IF pass + 1 < MaxPasses
       THEN /\ pass' = pass + 1 /\ pc' = "pass"
            /\ snapshot' = [snapshot EXCEPT !.final = Parent]
       ELSE /\ pass' = pass /\ pc' = "done"
            /\ snapshot' = [AddGaps({Gap("live_state_race", 0)}) EXCEPT !.final = Parent]
  /\ UNCHANGED <<github, collected, bundle>>

Init ==
  /\ \E done \in BOOLEAN :
       github = [updated |-> 0, attempts |-> <<[done |-> done, at |-> 0]>>]
  /\ pc = "begin" /\ pass = 0
  /\ current = Nothing /\ collected = {} /\ bundle = Nothing
  /\ snapshot = [initial |-> Nothing, final |-> Nothing, attempts |-> {},
                 gaps |-> {}, stable |-> FALSE]

GitHub == RunProgress \/ Rerun

Collector ==
  \/ GetParentFails \/ GetParent \/ Cancelled \/ StartPass
  \/ \E a \in 1 .. Latest : GetAttemptFails(a) \/ GetAttempt(a)
  \/ ListJobsFails \/ ListJobs
  \/ RereadFails \/ RereadContradicted \/ RereadStable \/ RereadChanged

Next == GitHub \/ Collector

Spec == Init /\ [][Next]_vars

-----------------------------------------------------------------------------
Done == pc = "done"
Bundled == {b.attempt : b \in snapshot.attempts}

Version == [done : BOOLEAN, at : Nat]
ParentRecord == [attempt : Nat \ {0}, done : BOOLEAN, updated : Nat]
KeptLists == {KeptJobs(jobs) : jobs \in JobLists} \union {<<>>}
Bundle == [attempt : Nat \ {0}, version : Version, pass : Nat, jobs : KeptLists]
Scope == {"workflow_run", "workflow_run_attempt", "attempt_jobs", "missing_identity",
          "contradicted_run", "duplicate_id", "workflow_run_stabilization",
          "live_state_race"}

\* The type of every variable; the collector works from a parent it has read.
TypeOK ==
  /\ github \in [updated : Nat, attempts : Seq(Version)]
  /\ github.attempts # <<>>
  /\ pc \in {"begin", "pass", "attempt", "jobs", "done"}
  /\ pass \in 0 .. (MaxPasses - 1)
  /\ collected \in SUBSET (Nat \ {0})
  /\ pc \in {"pass", "attempt", "jobs"} => current \in ParentRecord
  /\ pc = "jobs" => bundle \in [attempt : Nat \ {0}, version : Version, pass : Nat]
  /\ snapshot \in [initial : ParentRecord \union {Nothing},
                   final : ParentRecord \union {Nothing},
                   attempts : SUBSET Bundle,
                   gaps : SUBSET [scope : Scope, attempt : Nat],
                   stable : BOOLEAN]

\* No attempt is lost: a snapshot that stabilised has, for each attempt number
\* the final parent reports, the attempt itself or a gap that names it.
StableCoversAttempts ==
  (Done /\ snapshot.stable) =>
    \A a \in 1 .. snapshot.final.attempt :
      a \in Bundled \/ Gap("workflow_run_attempt", a) \in snapshot.gaps

\* Nothing is lost in silence: a finished snapshot without a gap is stable and
\* holds every attempt the run had when its parent was read last.
SilenceIsComplete ==
  (Done /\ snapshot.gaps = {}) =>
    /\ snapshot.stable
    /\ Bundled = 1 .. snapshot.final.attempt

\* What the last pass of a stable snapshot read of an attempt is what GitHub
\* held at the moment of the final read: the run did not move meanwhile.
\* (An attempt of an earlier pass may be out of date: it is read once, even if
\* it was in progress then and the run completed before the next pass.)
StableLastPass ==
  (Done /\ snapshot.stable) =>
    \A b \in snapshot.attempts :
      b.pass = pass =>
        IF b.attempt = snapshot.final.attempt
          THEN b.version = [done |-> snapshot.final.done, at |-> snapshot.final.updated]
          ELSE b.version = github.attempts[b.attempt]

\* The order in which the API lists the jobs of an attempt decides nothing
\* about what the snapshot keeps (see JobQuarantine), whatever the response.
OrderFree ==
  pc = "begin" => \A jobs \in Responses : OrderDecidesNothing(jobs)

\* A job the snapshot refuses leaves a gap and no log is joined through its
\* name (see JobQuarantine), whatever the response.
JoinSafe ==
  pc = "begin" => \A jobs \in Responses : RefusedNamesBlockJoins(jobs)
=============================================================================
