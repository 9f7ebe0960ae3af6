---------------------------- MODULE CollectorPool ----------------------------
(***************************************************************************)
(* One collection by Collector.CollectInto (internal/livecollect           *)
(* /collector.go): worker goroutines collect the repositories, their       *)
(* results become one batch, retained logs are handed over and the batch   *)
(* is appended to the archive.                                             *)
(*                                                                         *)
(* A repository that cannot be read leaves gaps and no error.  An error is *)
(* cancellation or a broken invariant: the first one cancels the other     *)
(* workers, and nothing is appended.  Logs to be retained lie in transient *)
(* files until the archive has copied them.                                *)
(***************************************************************************)
EXTENDS Integers, FiniteSets

CONSTANTS
  Target,       \* positions in the list of repositories: 1 .. n
  Worker,       \* min(Concurrency, n) workers
  RawRetention, \* whether logs are retained
  MaxLogs,      \* bound: logs downloaded of one repository
  Nothing

ASSUME PoolAssumption ==
  /\ Target = 1 .. Cardinality(Target) /\ IsFiniteSet(Target)
  /\ Worker # {} /\ IsFiniteSet(Worker)
  /\ RawRetention \in BOOLEAN /\ MaxLogs \in Nat

VARIABLES
  cancelled, \* the caller's context is cancelled
  aborted,   \* the workers' context is cancelled by the first error
  main,      \* "feed", "wait", "assemble", "deliver" or "done"
  fed,       \* the positions sent to a worker so far
  worker,    \* [Worker -> [state, job]]
  results,   \* [Target -> result]: workResults
  firstErr,  \* the error of the first worker that failed
  clockErr,  \* the injected clock returned a zero time
  transient, \* transient log files that exist
  retained,  \* log files the archive has taken custody of
  outcome    \* what CollectInto returned

pool == <<aborted, fed, worker, results, firstErr>>
sink == <<retained, outcome>>
vars == <<pool, sink, cancelled, main, clockErr, transient>>

n == Cardinality(Target)
Log == Target \X (1 .. MaxLogs)
Job == [target : 0 .. n, logs : SUBSET Log, interrupted : BOOLEAN]

ASSUME NothingAssumption ==
  /\ Nothing \notin Job
  /\ Nothing \notin {"invariant", "cancelled", "clock", "sink", "appended"}

JobOf(i) == [target |-> i, logs |-> {}, interrupted |-> FALSE]
NoJob == JobOf(0)

Idle == [state |-> "idle", job |-> NoJob]
Exited == [state |-> "exited", job |-> NoJob]
Busy(job) == [state |-> "busy", job |-> job]

\* The workers' context: the caller's, or cancelled by an error.
WorkCancelled == cancelled \/ aborted

-----------------------------------------------------------------------------
(* The main goroutine feeds the unbuffered channel and closes it.           *)

CancelContext ==
  /\ ~cancelled /\ main # "done"
  /\ cancelled' = TRUE
  /\ UNCHANGED <<pool, main, clockErr, transient, sink>>

\* The select may still send after a cancellation.
Send(w) ==
  /\ main = "feed" /\ fed < n
  /\ worker[w] = Idle
  /\ fed' = fed + 1
  /\ worker' = [worker EXCEPT ![w] = Busy(JobOf(fed + 1))]
  /\ UNCHANGED <<cancelled, aborted, main, results, firstErr, clockErr, transient, sink>>

CloseChannel ==
  /\ main = "feed"
  /\ fed = n \/ WorkCancelled
  /\ main' = "wait"
  /\ UNCHANGED <<cancelled, pool, clockErr, transient, sink>>

-----------------------------------------------------------------------------
(* The workers.                                                             *)

\* A log is downloaded; with raw retention its file outlives the download.
Download(w) ==
  /\ worker[w].state = "busy"
  /\ \E log \in Log \ worker[w].job.logs :
       /\ log[1] = worker[w].job.target
       /\ worker' = [worker EXCEPT ![w].job.logs = @ \union {log}]
       /\ transient' = IF RawRetention THEN transient \union {log} ELSE transient
  /\ UNCHANGED <<cancelled, aborted, main, fed, results, firstErr, clockErr, sink>>

\* A request fails because of the cancellation: a gap like any other.
Interrupted(w) ==
  /\ worker[w].state = "busy"
  /\ WorkCancelled
  /\ worker' = [worker EXCEPT ![w].job.interrupted = TRUE]
  /\ UNCHANGED <<cancelled, aborted, main, fed, results, firstErr, clockErr, transient, sink>>

\* The clock latches its first invalid reading, of a worker or of the main
\* goroutine.
ClockFails ==
  /\ main \in {"feed", "wait", "assemble"}
  /\ clockErr' = TRUE
  /\ UNCHANGED <<cancelled, pool, main, transient, sink>>

CollectRepository(w) ==
  /\ worker[w].state = "busy"
  /\ results' = [results EXCEPT ![worker[w].job.target] = worker[w].job]
  /\ worker' = [worker EXCEPT ![w] = Idle]
  /\ UNCHANGED <<cancelled, aborted, main, fed, firstErr, clockErr, transient, sink>>

\* Fault: a later error replaces the first one.
LaterErr(cause) == cause

FirstErr(cause) == IF firstErr = Nothing THEN cause ELSE firstErr

\* Fault: the worker leaves without cancelling the others.
CollectRepositoryFailsAlone(w) ==
  /\ worker[w].state = "busy"
  /\ \E cause \in {"invariant"} \union (IF WorkCancelled THEN {"cancelled"} ELSE {}) :
       firstErr' = FirstErr(cause)
  /\ results' = [results EXCEPT ![worker[w].job.target] = worker[w].job]
  /\ worker' = [worker EXCEPT ![w] = Exited]
  /\ UNCHANGED <<cancelled, aborted, main, fed, clockErr, transient, sink>>

CollectRepositoryFails(w) ==
  /\ worker[w].state = "busy"
  /\ \E cause \in {"invariant"} \union (IF WorkCancelled THEN {"cancelled"} ELSE {}) :
       firstErr' = FirstErr(cause)
  /\ aborted' = TRUE
  /\ results' = [results EXCEPT ![worker[w].job.target] = worker[w].job]
  /\ worker' = [worker EXCEPT ![w] = Exited]
  /\ UNCHANGED <<cancelled, main, fed, clockErr, transient, sink>>

ChannelClosed(w) ==
  /\ main # "feed"
  /\ worker[w] = Idle
  /\ worker' = [worker EXCEPT ![w] = Exited]
  /\ UNCHANGED <<cancelled, aborted, main, fed, results, firstErr, clockErr, transient, sink>>

-----------------------------------------------------------------------------
(* The batch.                                                               *)

Collected == {i \in Target : results[i] # Nothing}
rawInputs == IF RawRetention THEN UNION {results[i].logs : i \in Collected} ELSE {}

WorkersDone ==
  /\ main = "wait"
  /\ \A w \in Worker : worker[w] = Exited
  /\ main' = "assemble"
  /\ UNCHANGED <<cancelled, pool, clockErr, transient, sink>>

\* Fault: the files are removed by the successful return only.
ReturnKeeping(value, inputs) ==
  /\ main' = "done"
  /\ outcome' = value
  /\ transient' = IF value = "appended" THEN transient \ inputs ELSE transient
  /\ UNCHANGED <<cancelled, pool, clockErr>>

\* CollectInto returns; the files of the inputs it knows of are removed.
Return(value, inputs) ==
  /\ main' = "done"
  /\ outcome' = value
  /\ transient' = transient \ inputs
  /\ UNCHANGED <<cancelled, pool, clockErr>>

\* The result of a collection with a broken clock has no raw inputs yet.
ClockError ==
  /\ main = "assemble" /\ clockErr
  /\ Return("clock", {})
  /\ UNCHANGED retained

BatchInvalid ==
  /\ main = "assemble" /\ ~clockErr
  /\ Return("invariant", rawInputs)
  /\ UNCHANGED retained

\* Fault: the caller's context is not looked at again.
CollectionFailedWorkers == firstErr # Nothing

CollectionFailed == firstErr # Nothing \/ cancelled

Failed ==
  /\ main = "assemble" /\ ~clockErr
  /\ CollectionFailed
  /\ Return(IF firstErr # Nothing THEN firstErr ELSE "cancelled", rawInputs)
  /\ UNCHANGED retained

Assemble ==
  /\ main = "assemble" /\ ~clockErr
  /\ ~CollectionFailed
  /\ main' = "deliver"
  /\ UNCHANGED <<cancelled, pool, clockErr, transient, sink>>

RetainRaw ==
  /\ main = "deliver"
  /\ \E log \in rawInputs \ retained : retained' = retained \union {log}
  /\ UNCHANGED <<cancelled, pool, main, clockErr, transient, outcome>>

\* Fault: the batch is appended without waiting for the logs.
AppendEarly ==
  /\ main = "deliver"
  /\ Return("appended", rawInputs)
  /\ UNCHANGED retained

Append ==
  /\ main = "deliver"
  /\ rawInputs \subseteq retained
  /\ Return("appended", rawInputs)
  /\ UNCHANGED retained

\* RetainRaw or Append returns an error.
SinkFails ==
  /\ main = "deliver"
  /\ Return("sink", rawInputs)
  /\ UNCHANGED retained

Init ==
  /\ cancelled = FALSE /\ aborted = FALSE
  /\ main = "feed" /\ fed = 0
  /\ worker = [w \in Worker |-> Idle]
  /\ results = [i \in Target |-> Nothing]
  /\ firstErr = Nothing /\ clockErr = FALSE
  /\ transient = {} /\ retained = {}
  /\ outcome = Nothing

Finish(w) == CollectRepository(w) \/ CollectRepositoryFails(w)

Main ==
  \/ CloseChannel \/ WorkersDone
  \/ ClockError \/ BatchInvalid \/ Failed \/ Assemble
  \/ RetainRaw \/ Append \/ SinkFails

Next ==
  \/ CancelContext \/ ClockFails \/ Main
  \/ \E w \in Worker :
       Send(w) \/ Download(w) \/ Interrupted(w) \/ Finish(w) \/ ChannelClosed(w)

Spec == Init /\ [][Next]_vars

\* Every request returns (the HTTP client has a timeout of two minutes, and
\* retries, redirects and pages are bounded), so a worker finishes its
\* repository; a sink call returns as well.
FairSpec ==
  /\ Spec
  /\ WF_vars(Main) /\ WF_vars(\E w \in Worker : Send(w))
  /\ \A w \in Worker : WF_vars(Finish(w)) /\ WF_vars(ChannelClosed(w))

-----------------------------------------------------------------------------
(* Properties.                                                              *)

TypeOK ==
  /\ cancelled \in BOOLEAN /\ aborted \in BOOLEAN /\ clockErr \in BOOLEAN
  /\ main \in {"feed", "wait", "assemble", "deliver", "done"} /\ fed \in 0 .. n
  /\ worker \in [Worker -> [state : {"idle", "busy", "exited"}, job : Job]]
  /\ \A w \in Worker : (worker[w].state = "busy") = (worker[w].job.target \in Target)
  /\ results \in [Target -> Job \union {Nothing}]
  /\ firstErr \in {Nothing, "invariant", "cancelled"}
  /\ aborted = (firstErr # Nothing)
  /\ transient \subseteq Log /\ retained \subseteq rawInputs
  /\ outcome \in {Nothing, "invariant", "cancelled", "clock", "sink", "appended"}
  /\ (main = "done") = (outcome # Nothing)

\* "Cancellation and invariant errors are never committed": an appended batch
\* holds the result of every repository, at its own position, and none of them
\* has a gap that only a cancellation made; every log its evidence claims is in
\* the archive (collect, CollectInto).
AppendedIsWhole ==
  outcome = "appended" =>
    /\ \A i \in Target :
         results[i] # Nothing /\ results[i].target = i /\ ~results[i].interrupted
    /\ rawInputs \subseteq retained

\* A collection that its caller did not cancel never reports a cancellation:
\* the error that made the workers stop is the one that is returned (firstErr
\* is set before the workers' context is cancelled).
CauseIsReported == outcome = "cancelled" => cancelled

\* However a collection ends, its transient logs are removed, except when the
\* clock fails after they were downloaded (cleanupRawInputs).
TransientRemoved ==
  main = "done" /\ transient # {} => outcome = "clock"

\* A collection ends, whichever workers fail and whenever it is cancelled: the
\* channel is never left with a sender and no receiver.
CollectionEnds == <>(main = "done")
=============================================================================
