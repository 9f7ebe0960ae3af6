------------------------ MODULE CollectorPool_proofs ------------------------
(***************************************************************************)
(* Proofs about CollectorPool for any number of repositories, workers and  *)
(* logs: a batch is appended only when it is whole, and the error that     *)
(* stopped a collection is the one it reports.                             *)
(***************************************************************************)
EXTENDS CollectorPool, FiniteSetTheorems, TLAPS

\* The batch is assembled when every worker has left.
LeftInv ==
  main \in {"assemble", "deliver", "done"} => \A w \in Worker : worker[w].state = "exited"

\* A position that was sent is being worked on or has its result.
SentInv ==
  \A i \in 1 .. fed :
    \/ results[i] # Nothing
    \/ \E w \in Worker : worker[w].state = "busy" /\ worker[w].job.target = i

\* Only a cancellation or an error stops the feeding early.
FedInv == main # "feed" => fed = n \/ WorkCancelled

\* Results are stored at the position of their repository.
PlaceInv == \A i \in Target : results[i] # Nothing => results[i].target = i

\* A request is interrupted by nothing but a cancellation or an error.
InterruptedInv ==
  ~WorkCancelled =>
    /\ \A w \in Worker : ~worker[w].job.interrupted
    /\ \A i \in Target : results[i] # Nothing => ~results[i].interrupted

\* The first error is a cancellation only if the caller cancelled.
CauseInv == firstErr = "cancelled" => cancelled

\* Nothing is handed over before the batch is assembled, and a batch that is
\* delivered is whole.
DeliveredInv ==
  /\ main \in {"feed", "wait", "assemble"} => retained = {}
  /\ main = "deliver" \/ outcome = "appended" =>
       \A i \in Target : results[i] # Nothing /\ ~results[i].interrupted
  /\ outcome = "appended" => rawInputs \subseteq retained

Inv ==
  /\ TypeOK /\ LeftInv /\ SentInv /\ FedInv /\ PlaceInv /\ InterruptedInv
  /\ CauseInv /\ DeliveredInv /\ CauseIsReported

\* Targets are the positions of a finite list.
LEMMA Positions == n \in Nat /\ Target = 1 .. n
  BY PoolAssumption, FS_CardinalityType DEF n

\* The job of a worker that has none.
LEMMA NoJobIsJob == NoJob \in Job /\ NoJob.target \notin Target /\ ~NoJob.interrupted
  BY Positions DEF NoJob, JobOf, Job

\* Nothing was sent, collected or retained at the start.
LEMMA InitInv == Init => Inv
  <1> SUFFICES ASSUME Init PROVE Inv
    OBVIOUS
  <1> USE Positions, NothingAssumption DEF Init
  <1>1. TypeOK
    <2>1. worker \in [Worker -> [state : {"idle", "busy", "exited"}, job : Job]]
      BY NoJobIsJob DEF Idle
    <2>2. \A w \in Worker : (worker[w].state = "busy") = (worker[w].job.target \in Target)
      BY NoJobIsJob DEF Idle
    <2>3. retained \subseteq rawInputs
      BY DEF rawInputs
    <2>4. results \in [Target -> Job \union {Nothing}]
      OBVIOUS
    <2>5. /\ cancelled \in BOOLEAN /\ aborted \in BOOLEAN /\ clockErr \in BOOLEAN
          /\ aborted = (firstErr # Nothing) /\ (main = "done") = (outcome # Nothing)
      OBVIOUS
    <2>6. fed \in 0 .. n /\ transient \subseteq Log
      OBVIOUS
    <2> QED BY <2>1, <2>2, <2>3, <2>4, <2>5, <2>6 DEF TypeOK
  <1>2. LeftInv /\ SentInv /\ FedInv /\ PlaceInv /\ CauseInv /\ CauseIsReported
    BY DEF LeftInv, SentInv, FedInv, PlaceInv, CauseInv, CauseIsReported
  <1>3. InterruptedInv
    BY NoJobIsJob DEF InterruptedInv, Idle
  <1>4. DeliveredInv
    BY DEF DeliveredInv
  <1> QED BY <1>1, <1>2, <1>3, <1>4 DEF Inv

\* The next repository is sent to an idle worker.
LEMMA SendStep == ASSUME Inv, NEW w \in Worker, Send(w) PROVE Inv'
  <1> USE Positions, NothingAssumption DEF Inv, Send, sink
  <1> DEFINE job == JobOf(fed + 1)
  <1>1. fed + 1 \in Target /\ job \in Job /\ job.target = fed + 1 /\ ~job.interrupted
    BY DEF JobOf, Job, TypeOK
  <1>2. worker[w].state = "idle" /\ worker' = [worker EXCEPT ![w] = [state |-> "busy", job |-> job]]
    BY DEF Idle, Busy
  <1> HIDE DEF job
  <1>3. TypeOK'
    <2>1. worker' \in [Worker -> [state : {"idle", "busy", "exited"}, job : Job]]
      BY <1>1, <1>2 DEF TypeOK
    <2>2. \A v \in Worker : (worker'[v].state = "busy") = (worker'[v].job.target \in Target)
      BY <1>1, <1>2 DEF TypeOK
    <2> QED BY <2>1, <2>2, <1>1 DEF TypeOK, rawInputs, Collected
  <1>4. LeftInv' /\ FedInv' /\ PlaceInv' /\ CauseInv' /\ CauseIsReported'
    BY DEF LeftInv, FedInv, PlaceInv, CauseInv, CauseIsReported
  <1>5. SentInv'
    <2> SUFFICES ASSUME NEW i \in 1 .. fed', results[i] = Nothing
                 PROVE  \E v \in Worker : worker'[v].state = "busy" /\ worker'[v].job.target = i
      BY DEF SentInv
    <2>1. CASE i = fed + 1
      BY <2>1, <1>1, <1>2 DEF TypeOK
    <2>2. CASE i # fed + 1
      <3>1. i \in 1 .. fed
        BY <2>2 DEF TypeOK
      <3>2. PICK v \in Worker : worker[v].state = "busy" /\ worker[v].job.target = i
        BY <3>1 DEF SentInv
      <3> QED BY <3>2, <1>2 DEF TypeOK
    <2> QED BY <2>1, <2>2
  <1>6. InterruptedInv'
    BY <1>1, <1>2 DEF InterruptedInv, WorkCancelled, TypeOK
  <1>7. DeliveredInv'
    BY DEF DeliveredInv, rawInputs, Collected
  <1> QED BY <1>3, <1>4, <1>5, <1>6, <1>7

\* A busy worker changes its job without giving up its repository.
LEMMA JobStep ==
  ASSUME Inv, NEW w \in Worker, Download(w) \/ Interrupted(w)
  PROVE  Inv'
  <1> USE Positions, NothingAssumption DEF Inv, sink
  <1>1. /\ UNCHANGED <<cancelled, aborted, main, fed, results, firstErr, clockErr, retained, outcome>>
        /\ worker[w].state = "busy"
        /\ transient' \subseteq Log
        /\ worker' \in [Worker -> [state : {"idle", "busy", "exited"}, job : Job]]
        /\ \A v \in Worker : /\ worker'[v].state = worker[v].state
                              /\ worker'[v].job.target = worker[v].job.target
        /\ ~WorkCancelled => \A v \in Worker : worker'[v].job.interrupted = worker[v].job.interrupted
    <2>1. CASE Download(w)
      <3>1. PICK log \in Log : /\ worker' = [worker EXCEPT ![w].job.logs = @ \union {log}]
                               /\ transient' \subseteq transient \union {log}
        BY <2>1 DEF Download
      <3>2. worker \in [Worker -> [state : {"idle", "busy", "exited"}, job : Job]] /\ transient \subseteq Log
        BY DEF TypeOK
      <3>3. worker[w].job.logs \union {log} \in SUBSET Log
        BY <3>2 DEF Job
      <3>4. worker' \in [Worker -> [state : {"idle", "busy", "exited"}, job : Job]]
        BY <3>1, <3>2, <3>3 DEF Job
      <3>5. \A v \in Worker : /\ worker'[v].state = worker[v].state
                              /\ worker'[v].job.target = worker[v].job.target
                              /\ worker'[v].job.interrupted = worker[v].job.interrupted
        BY <3>1, <3>2 DEF Job
      <3> QED BY <2>1, <3>1, <3>2, <3>4, <3>5 DEF Download
    <2>2. CASE Interrupted(w)
      BY <2>2 DEF Interrupted, TypeOK, Job
    <2> QED BY <2>1, <2>2
  <1>2. TypeOK'
    <2>1. \A v \in Worker : (worker'[v].state = "busy") = (worker'[v].job.target \in Target)
      BY <1>1 DEF TypeOK
    <2>2. rawInputs' = rawInputs
      BY <1>1 DEF rawInputs, Collected
    <2> QED BY <1>1, <2>1, <2>2 DEF TypeOK
  <1>3. LeftInv' /\ SentInv' /\ FedInv' /\ PlaceInv'
    BY <1>1 DEF LeftInv, SentInv, FedInv, PlaceInv, WorkCancelled
  <1>4. InterruptedInv'
    BY <1>1 DEF InterruptedInv, WorkCancelled
  <1>5. CauseInv' /\ CauseIsReported' /\ DeliveredInv'
    BY <1>1 DEF CauseInv, CauseIsReported, DeliveredInv, rawInputs, Collected
  <1> QED BY <1>2, <1>3, <1>4, <1>5

\* A worker stores the result of its repository and goes on or leaves.
LEMMA FinishStep == ASSUME Inv, NEW w \in Worker, Finish(w) PROVE Inv'
  <1> USE Positions, NothingAssumption DEF Inv, sink
  <1> DEFINE job == worker[w].job
             i == job.target
  <1>1. worker[w].state = "busy" /\ job \in Job /\ i \in Target
    BY DEF Finish, CollectRepository, CollectRepositoryFails, TypeOK
  <1>2. /\ results' = [results EXCEPT ![i] = job]
        /\ UNCHANGED <<cancelled, main, fed, clockErr, transient, retained, outcome>>
        /\ \/ worker' = [worker EXCEPT ![w] = Idle]
           \/ worker' = [worker EXCEPT ![w] = Exited]
    BY DEF Finish, CollectRepository, CollectRepositoryFails
  <1>3. \/ aborted' = aborted /\ firstErr' = firstErr
        \/ /\ aborted' = TRUE
           /\ firstErr' \in {"invariant", "cancelled"}
           /\ firstErr' = "cancelled" => cancelled
    <2>1. CASE CollectRepository(w)
      BY <2>1 DEF CollectRepository
    <2>2. CASE CollectRepositoryFails(w)
      <3>1. PICK cause \in {"invariant"} \union (IF WorkCancelled THEN {"cancelled"} ELSE {}) :
              firstErr' = FirstErr(cause)
        BY <2>2 DEF CollectRepositoryFails
      <3>2. CASE firstErr = Nothing
        BY <3>1, <3>2, <2>2 DEF FirstErr, CollectRepositoryFails, WorkCancelled, TypeOK
      <3>3. CASE firstErr # Nothing
        BY <3>1, <3>3, <2>2 DEF FirstErr, CollectRepositoryFails, CauseInv, TypeOK
      <3> QED BY <3>2, <3>3
    <2> QED BY <2>1, <2>2 DEF Finish
  <1>4. main \in {"feed", "wait"} /\ retained = {} /\ outcome = Nothing
    BY <1>1 DEF LeftInv, DeliveredInv, TypeOK
  <1>5. /\ worker'[w].state # "busy" /\ worker'[w].job = NoJob
        /\ worker' \in [Worker -> [state : {"idle", "busy", "exited"}, job : Job]]
        /\ \A v \in Worker \ {w} : worker'[v] = worker[v]
    BY <1>2, NoJobIsJob DEF Idle, Exited, TypeOK
  <1>6. /\ results' \in [Target -> Job \union {Nothing}]
        /\ results'[i] = job
        /\ \A j \in Target \ {i} : results'[j] = results[j]
    BY <1>1, <1>2 DEF TypeOK
  <1> HIDE DEF job, i
  <1>7. TypeOK'
    <2>1. \A v \in Worker : (worker'[v].state = "busy") = (worker'[v].job.target \in Target)
      BY <1>5, NoJobIsJob DEF TypeOK
    <2> QED BY <1>2, <1>3, <1>4, <1>5, <1>6, <2>1 DEF TypeOK
  <1>8. LeftInv' /\ FedInv' /\ CauseInv' /\ CauseIsReported'
    BY <1>2, <1>3, <1>4 DEF LeftInv, FedInv, CauseInv, CauseIsReported, WorkCancelled
  <1>9. SentInv'
    <2> SUFFICES ASSUME NEW j \in 1 .. fed, results'[j] = Nothing
                 PROVE  \E v \in Worker : worker'[v].state = "busy" /\ worker'[v].job.target = j
      BY <1>2 DEF SentInv
    <2>1. j \in Target /\ j # i
      BY <1>1, <1>6 DEF TypeOK
    <2>2. PICK v \in Worker : worker[v].state = "busy" /\ worker[v].job.target = j
      BY <2>1, <1>6 DEF SentInv
    <2>3. v # w
      BY <2>1, <2>2 DEF job, i
    <2> QED BY <2>2, <2>3, <1>5
  <1>10. PlaceInv'
    BY <1>6 DEF PlaceInv, i
  <1>11. InterruptedInv'
    <2> SUFFICES ASSUME ~WorkCancelled' PROVE ~WorkCancelled /\ InterruptedInv'
      BY DEF InterruptedInv
    <2>1. ~WorkCancelled
      BY <1>2, <1>3 DEF WorkCancelled
    <2>2. ~job.interrupted
      BY <2>1, <1>1 DEF InterruptedInv, job
    <2> QED BY <2>1, <2>2, <1>5, <1>6, NoJobIsJob DEF InterruptedInv
  <1>12. DeliveredInv'
    BY <1>2, <1>4 DEF DeliveredInv
  <1> QED BY <1>7, <1>8, <1>9, <1>10, <1>11, <1>12

\* The channel is closed and drained.
LEMMA LeaveStep == ASSUME Inv, NEW w \in Worker, ChannelClosed(w) PROVE Inv'
  <1> USE Positions, NothingAssumption DEF Inv, sink, pool, ChannelClosed
  <1>1. /\ worker[w].state = "idle"
        /\ worker'[w].state = "exited" /\ worker'[w].job = NoJob
        /\ worker' \in [Worker -> [state : {"idle", "busy", "exited"}, job : Job]]
        /\ \A v \in Worker \ {w} : worker'[v] = worker[v]
    BY NoJobIsJob DEF Idle, Exited, TypeOK
  <1>2. TypeOK'
    <2>1. \A v \in Worker : (worker'[v].state = "busy") = (worker'[v].job.target \in Target)
      BY <1>1, NoJobIsJob DEF TypeOK
    <2> QED BY <1>1, <2>1 DEF TypeOK, rawInputs, Collected
  <1>3. LeftInv' /\ FedInv' /\ PlaceInv' /\ CauseInv' /\ CauseIsReported'
    BY <1>1 DEF LeftInv, FedInv, PlaceInv, CauseInv, CauseIsReported, WorkCancelled
  <1>4. SentInv'
    <2> SUFFICES ASSUME NEW i \in 1 .. fed, results[i] = Nothing
                 PROVE  \E v \in Worker : worker'[v].state = "busy" /\ worker'[v].job.target = i
      BY DEF SentInv
    <2>1. PICK v \in Worker : worker[v].state = "busy" /\ worker[v].job.target = i
      BY DEF SentInv
    <2> QED BY <2>1, <1>1
  <1>5. InterruptedInv'
    BY <1>1, NoJobIsJob DEF InterruptedInv, WorkCancelled
  <1>6. DeliveredInv'
    BY DEF DeliveredInv, rawInputs, Collected
  <1> QED BY <1>2, <1>3, <1>4, <1>5, <1>6

\* The main goroutine waits for the workers.
LEMMA WaitStep == ASSUME Inv, CloseChannel \/ WorkersDone PROVE Inv'
  <1> USE Positions, NothingAssumption DEF Inv, sink, pool, CloseChannel, WorkersDone
  <1>1. UNCHANGED <<pool, sink, cancelled, clockErr, transient>>
    OBVIOUS
  <1>2. rawInputs' = rawInputs
    BY DEF rawInputs, Collected
  <1>3. TypeOK'
    BY <1>2 DEF TypeOK
  <1>4. LeftInv'
    BY DEF LeftInv, Exited
  <1>5. SentInv' /\ FedInv' /\ PlaceInv' /\ InterruptedInv' /\ CauseInv' /\ CauseIsReported'
    BY DEF SentInv, FedInv, PlaceInv, InterruptedInv, CauseInv, CauseIsReported, WorkCancelled
  <1>6. DeliveredInv'
    BY <1>2 DEF DeliveredInv, TypeOK
  <1> QED BY <1>3, <1>4, <1>5, <1>6

\* Every repository has a result, free of interruptions, when the batch is
\* assembled without an error.
LEMMA AssembleStep == ASSUME Inv, Assemble PROVE Inv'
  <1> USE Positions, NothingAssumption DEF Inv, sink, pool, Assemble, CollectionFailed
  <1>1. ~WorkCancelled
    BY DEF WorkCancelled, TypeOK
  <1>2. fed = n
    BY <1>1 DEF FedInv
  <1>3. \A i \in Target : results[i] # Nothing
    BY <1>2 DEF SentInv, LeftInv
  <1>4. \A i \in Target : ~results[i].interrupted
    BY <1>1, <1>3 DEF InterruptedInv
  <1>5. rawInputs' = rawInputs
    BY DEF rawInputs, Collected
  <1>6. TypeOK'
    BY <1>5 DEF TypeOK
  <1>7. LeftInv' /\ SentInv' /\ FedInv' /\ PlaceInv' /\ InterruptedInv'
    BY DEF LeftInv, SentInv, FedInv, PlaceInv, InterruptedInv, WorkCancelled
  <1>8. CauseInv' /\ CauseIsReported' /\ DeliveredInv'
    BY <1>3, <1>4, <1>5 DEF CauseInv, CauseIsReported, DeliveredInv, TypeOK
  <1> QED BY <1>6, <1>7, <1>8

\* A return leaves the pool as it is.
LEMMA ReturnStep ==
  ASSUME Inv, main \in {"assemble", "deliver"}, UNCHANGED retained,
         NEW value \in {"invariant", "cancelled", "clock", "sink", "appended"}, NEW inputs,
         Return(value, inputs),
         value = "cancelled" => cancelled,
         value = "appended" => main = "deliver" /\ rawInputs \subseteq retained
  PROVE  Inv'
  <1> USE Positions, NothingAssumption DEF Inv, pool, Return
  <1>1. rawInputs' = rawInputs
    BY DEF rawInputs, Collected
  <1>2. TypeOK'
    BY <1>1 DEF TypeOK
  <1>3. LeftInv' /\ SentInv' /\ FedInv' /\ PlaceInv' /\ InterruptedInv'
    BY DEF LeftInv, SentInv, FedInv, PlaceInv, InterruptedInv, WorkCancelled
  <1>4. CauseInv' /\ CauseIsReported' /\ DeliveredInv'
    BY <1>1 DEF CauseInv, CauseIsReported, DeliveredInv, TypeOK
  <1> QED BY <1>2, <1>3, <1>4

\* The returns of CollectInto: an error of the clock, of the batch, of a worker
\* or of the sink, and success.
LEMMA ReturnsStep ==
  ASSUME Inv, ClockError \/ BatchInvalid \/ Failed \/ Append \/ SinkFails
  PROVE  Inv'
  <1>1. CASE ClockError
    BY <1>1, ReturnStep DEF ClockError
  <1>2. CASE BatchInvalid
    BY <1>2, ReturnStep DEF BatchInvalid
  <1>3. CASE Failed
    <2> DEFINE value == IF firstErr # Nothing THEN firstErr ELSE "cancelled"
    <2>1. value \in {"invariant", "cancelled"} /\ (value = "cancelled" => cancelled)
      BY <1>3, NothingAssumption DEF Inv, TypeOK, CauseInv, Failed, CollectionFailed
    <2>2. main = "assemble" /\ Return(value, rawInputs) /\ UNCHANGED retained
      BY <1>3 DEF Failed
    <2> HIDE DEF value
    <2> QED BY <2>1, <2>2, ReturnStep
  <1>4. CASE Append
    BY <1>4, ReturnStep DEF Append
  <1>5. CASE SinkFails
    BY <1>5, ReturnStep DEF SinkFails
  <1> QED BY <1>1, <1>2, <1>3, <1>4, <1>5

\* The archive takes custody of a log that a result claims.
LEMMA RetainStep == ASSUME Inv, RetainRaw PROVE Inv'
  <1> USE Positions, NothingAssumption DEF Inv, pool, RetainRaw
  <1>1. rawInputs' = rawInputs /\ retained' \subseteq rawInputs
    BY DEF rawInputs, Collected, TypeOK
  <1>2. TypeOK'
    BY <1>1 DEF TypeOK
  <1>3. LeftInv' /\ SentInv' /\ FedInv' /\ PlaceInv' /\ InterruptedInv'
    BY DEF LeftInv, SentInv, FedInv, PlaceInv, InterruptedInv, WorkCancelled
  <1>4. CauseInv' /\ CauseIsReported' /\ DeliveredInv'
    BY <1>1 DEF CauseInv, CauseIsReported, DeliveredInv, TypeOK
  <1> QED BY <1>2, <1>3, <1>4

\* The caller cancels, or the clock fails.
LEMMA EnvironmentStep == ASSUME Inv, CancelContext \/ ClockFails PROVE Inv'
  <1> USE DEF Inv, pool, sink, CancelContext, ClockFails
  <1>1. rawInputs' = rawInputs
    BY DEF rawInputs, Collected
  <1>2. TypeOK'
    BY <1>1 DEF TypeOK
  <1>3. LeftInv' /\ SentInv' /\ FedInv' /\ PlaceInv' /\ InterruptedInv'
    BY DEF LeftInv, SentInv, FedInv, PlaceInv, InterruptedInv, WorkCancelled
  <1>4. CauseInv' /\ CauseIsReported' /\ DeliveredInv'
    BY <1>1 DEF CauseInv, CauseIsReported, DeliveredInv, TypeOK
  <1> QED BY <1>2, <1>3, <1>4

\* Steps of others.
LEMMA StutterStep == ASSUME Inv, UNCHANGED vars PROVE Inv'
  <1> USE DEF Inv, pool, sink, vars
  <1>1. rawInputs' = rawInputs
    BY DEF rawInputs, Collected
  <1>2. TypeOK'
    BY <1>1 DEF TypeOK
  <1>3. LeftInv' /\ SentInv' /\ FedInv' /\ PlaceInv' /\ InterruptedInv'
    BY DEF LeftInv, SentInv, FedInv, PlaceInv, InterruptedInv, WorkCancelled
  <1>4. CauseInv' /\ CauseIsReported' /\ DeliveredInv'
    BY <1>1 DEF CauseInv, CauseIsReported, DeliveredInv
  <1> QED BY <1>2, <1>3, <1>4

\* The invariant is inductive.
THEOREM Invariance == Spec => []Inv
  <1>1. Init => Inv
    BY InitInv
  <1>2. Inv /\ [Next]_vars => Inv'
    <2> SUFFICES ASSUME Inv, [Next]_vars PROVE Inv'
      OBVIOUS
    <2>1. CASE CancelContext \/ ClockFails
      BY <2>1, EnvironmentStep
    <2>2. CASE Main
      BY <2>2, WaitStep, AssembleStep, ReturnsStep, RetainStep DEF Main
    <2>3. ASSUME NEW w \in Worker,
                 \/ Send(w) \/ Download(w) \/ Interrupted(w)
                 \/ Finish(w) \/ ChannelClosed(w)
          PROVE  Inv'
      BY <2>3, SendStep, JobStep, FinishStep, LeaveStep
    <2>4. CASE UNCHANGED vars
      BY <2>4, StutterStep
    <2> QED BY <2>1, <2>2, <2>3, <2>4 DEF Next
  <1> QED BY <1>1, <1>2, PTL DEF Spec

\* The state keeps its type; in particular the workers' context is cancelled
\* exactly when an error was recorded, and a log is retained only if a result
\* claims it (CollectRepositoryFails, RetainRaw).
THEOREM TypeCorrect == Spec => []TypeOK
  <1>1. Inv => TypeOK
    BY DEF Inv
  <1> QED BY <1>1, Invariance, PTL

\* An appended batch holds the result of every repository at its position, none
\* of them cut short by a cancellation, and all its logs are in the archive,
\* for any number of repositories and workers (collect, CollectInto).
THEOREM WholeTheorem == Spec => []AppendedIsWhole
  <1>1. Inv => AppendedIsWhole
    BY DEF Inv, AppendedIsWhole, DeliveredInv, PlaceInv
  <1> QED BY <1>1, Invariance, PTL

\* A collection that was not cancelled from outside never reports that it was
\* (firstErr, cancel).
THEOREM CauseTheorem == Spec => []CauseIsReported
  <1>1. Inv => CauseIsReported
    BY DEF Inv
  <1> QED BY <1>1, Invariance, PTL

-----------------------------------------------------------------------------
(* The transient files.                                                    *)

\* A position is sent once: nobody's result is overwritten.
OnceInv ==
  /\ \A i \in Target : fed < i => results[i] = Nothing
  /\ \A w \in Worker : worker[w].state = "busy" =>
       worker[w].job.target <= fed /\ results[worker[w].job.target] = Nothing
  /\ \A v, w \in Worker :
       (worker[v].state = "busy" /\ worker[w].state = "busy"
          /\ worker[v].job.target = worker[w].job.target) => v = w

\* A transient file belongs to a result or to a repository that is being
\* collected, until they are removed.
OwnedInv ==
  main # "done" => \A log \in transient :
    \/ log \in rawInputs
    \/ \E w \in Worker : worker[w].state = "busy" /\ log \in worker[w].job.logs

KeptInv ==
  /\ ~RawRetention => transient = {}
  /\ OwnedInv /\ TransientRemoved

LEMMA InitFiles == ASSUME Init PROVE OnceInv /\ KeptInv
  <1> USE Positions DEF Init
  <1>1. OnceInv
    BY DEF OnceInv, Idle, NoJob, JobOf
  <1>2. KeptInv
    BY DEF KeptInv, OwnedInv, TransientRemoved
  <1> QED BY <1>1, <1>2

\* The next position is nobody's.
LEMMA SendOnce == ASSUME Inv, OnceInv, NEW w \in Worker, Send(w) PROVE OnceInv'
  <1>1. /\ fed' = fed + 1 /\ fed \in Nat /\ fed + 1 \in Target /\ results' = results
        /\ worker'[w].state = "busy" /\ worker'[w].job.target = fed + 1
        /\ \A v \in Worker : v # w => worker'[v] = worker[v]
    BY Positions DEF Inv, TypeOK, Send, Busy, JobOf
  <1>2. \A i \in Target : i \in Nat
    BY Positions
  <1>3. \A v \in Worker : worker[v].state = "busy" => worker[v].job.target \in Target
    BY DEF Inv, TypeOK
  <1>4. \A i \in Target : fed' < i => results'[i] = Nothing
    BY <1>1, <1>2 DEF OnceInv
  <1>5. \A v \in Worker : worker'[v].state = "busy" =>
          worker'[v].job.target <= fed' /\ results'[worker'[v].job.target] = Nothing
    BY <1>1, <1>2, <1>3 DEF OnceInv
  <1>6. \A v \in Worker \ {w} : worker'[v].state = "busy" => worker'[v].job.target # fed + 1
    BY <1>1, <1>2, <1>3 DEF OnceInv
  <1>7. \A u, v \in Worker :
          (worker'[u].state = "busy" /\ worker'[v].state = "busy"
             /\ worker'[u].job.target = worker'[v].job.target) => u = v
    BY <1>1, <1>6 DEF OnceInv
  <1> QED BY <1>4, <1>5, <1>7 DEF OnceInv

\* A worker that is done with its repository has no position any more.
LEMMA FinishOnce == ASSUME Inv, OnceInv, NEW w \in Worker, Finish(w) PROVE OnceInv'
  <1>1. /\ fed' = fed /\ worker[w].state = "busy" /\ worker'[w].state # "busy"
        /\ \A v \in Worker : v # w => worker'[v] = worker[v]
        /\ \A i \in Target : i # worker[w].job.target => results'[i] = results[i]
    BY DEF Inv, TypeOK, Finish, CollectRepository, CollectRepositoryFails, Idle, Exited
  <1>2. \A v \in Worker : worker[v].state = "busy" => worker[v].job.target \in Target
    BY DEF Inv, TypeOK
  <1>3. ~(fed < worker[w].job.target)
    <2>1. fed \in Nat /\ worker[w].job.target \in Nat
      BY <1>1, <1>2, Positions DEF Inv, TypeOK
    <2> QED BY <1>1, <2>1 DEF OnceInv
  <1>4. \A i \in Target : fed' < i => results'[i] = Nothing
    BY <1>1, <1>3 DEF OnceInv
  <1>5. \A v \in Worker : worker'[v].state = "busy" =>
          worker'[v].job.target <= fed' /\ results'[worker'[v].job.target] = Nothing
    BY <1>1, <1>2 DEF OnceInv
  <1>6. \A u, v \in Worker :
          (worker'[u].state = "busy" /\ worker'[v].state = "busy"
             /\ worker'[u].job.target = worker'[v].job.target) => u = v
    BY <1>1 DEF OnceInv
  <1> QED BY <1>4, <1>5, <1>6 DEF OnceInv

LEMMA OtherOnce ==
  ASSUME Inv, OnceInv, UNCHANGED <<fed, results>>,
         \A w \in Worker : worker'[w].state = "busy" =>
           worker[w].state = "busy" /\ worker'[w].job.target = worker[w].job.target
  PROVE  OnceInv'
  BY DEF OnceInv

\* What a worker changes of its own job.
LEMMA JobKept ==
  ASSUME Inv, NEW w \in Worker, Download(w) \/ Interrupted(w) \/ ChannelClosed(w)
  PROVE  /\ UNCHANGED <<fed, results, main, outcome>>
         /\ \A v \in Worker : worker'[v].state = "busy" =>
              worker[v].state = "busy" /\ worker'[v].job.target = worker[v].job.target
         /\ \A v \in Worker : worker[v].state = "busy" =>
              worker'[v].state = "busy" /\ worker[v].job.logs \subseteq worker'[v].job.logs
  <1> USE DEF Inv, TypeOK, sink
  <1>1. /\ UNCHANGED <<fed, results, main, outcome>>
        /\ \A v \in Worker : v # w => worker'[v] = worker[v]
    BY DEF Download, Interrupted, ChannelClosed
  <1>2. CASE Download(w)
    <2>1. PICK log \in Log : worker' = [worker EXCEPT ![w].job.logs = @ \union {log}]
      BY <1>2 DEF Download
    <2>2. /\ worker'[w].state = worker[w].state /\ worker'[w].job.target = worker[w].job.target
          /\ worker'[w].job.logs = worker[w].job.logs \union {log}
      BY <2>1 DEF Job
    <2> QED BY <1>1, <2>2
  <1>3. CASE Interrupted(w)
    <2>1. /\ worker'[w].state = worker[w].state /\ worker'[w].job.target = worker[w].job.target
          /\ worker'[w].job.logs = worker[w].job.logs
      BY <1>3 DEF Interrupted, Job
    <2> QED BY <1>1, <2>1
  <1>4. CASE ChannelClosed(w)
    <2>1. worker'[w].state = "exited" /\ worker[w].state = "idle"
      BY <1>4 DEF ChannelClosed, Exited, Idle
    <2> QED BY <1>1, <2>1
  <1> QED BY <1>2, <1>3, <1>4

LEMMA StepOnce == ASSUME Inv, OnceInv, [Next]_vars PROVE OnceInv'
  <1>1. CASE CancelContext \/ ClockFails \/ Main \/ UNCHANGED vars
    <2>1. UNCHANGED <<fed, results, worker>>
      BY <1>1 DEF CancelContext, ClockFails, Main, CloseChannel, WorkersDone, ClockError,
                  BatchInvalid, Failed, Assemble, RetainRaw, Append, SinkFails, Return, pool, vars
    <2> QED BY <2>1, OtherOnce
  <1>2. ASSUME NEW w \in Worker, Download(w) \/ Interrupted(w) \/ ChannelClosed(w)
        PROVE  OnceInv'
    BY <1>2, JobKept, OtherOnce
  <1> QED BY <1>1, <1>2, SendOnce, FinishOnce DEF Next

\* A log is written for a repository that is being collected.
LEMMA WorkerKept ==
  ASSUME Inv, KeptInv, NEW w \in Worker, Send(w) \/ Download(w) \/ Interrupted(w) \/ ChannelClosed(w)
  PROVE  KeptInv'
  <1>1. /\ main' = main /\ outcome' = outcome /\ results' = results
        /\ \A v \in Worker : worker[v].state = "busy" =>
             worker'[v].state = "busy" /\ worker[v].job.logs \subseteq worker'[v].job.logs
    <2>1. CASE Send(w)
      BY <2>1 DEF Inv, TypeOK, Send, Idle, sink
    <2> QED BY <2>1, JobKept DEF Download, Interrupted, ChannelClosed
  <1>2. rawInputs' = rawInputs
    BY <1>1 DEF rawInputs, Collected
  <1>3. ASSUME NEW log \in transient', log \notin transient
        PROVE  RawRetention /\ \E v \in Worker : worker'[v].state = "busy" /\ log \in worker'[v].job.logs
    <2>1. Download(w)
      BY <1>3 DEF Send, Interrupted, ChannelClosed
    <2>2. PICK new \in Log : /\ worker' = [worker EXCEPT ![w].job.logs = @ \union {new}]
                             /\ transient' = IF RawRetention THEN transient \union {new} ELSE transient
      BY <2>1 DEF Download
    <2>3. RawRetention /\ log = new
      BY <1>3, <2>2
    <2>4. worker'[w].state = "busy" /\ worker'[w].job.logs = worker[w].job.logs \union {new}
      BY <2>1, <2>2 DEF Inv, TypeOK, Job, Download
    <2> QED BY <2>3, <2>4
  <1>4. main # "done"
    BY DEF Inv, LeftInv, Send, Download, Interrupted, ChannelClosed, Idle
  <1> QED BY <1>1, <1>2, <1>3, <1>4 DEF KeptInv, OwnedInv, TransientRemoved

\* The logs of a job become those of its result.
LEMMA FinishKept == ASSUME Inv, OnceInv, KeptInv, NEW w \in Worker, Finish(w) PROVE KeptInv'
  <1> USE DEF Inv, TypeOK
  <1>1. /\ worker[w].state = "busy" /\ worker[w].job.target \in Target
        /\ results'[worker[w].job.target] = worker[w].job
        /\ results[worker[w].job.target] = Nothing
        /\ \A i \in Target : i # worker[w].job.target => results'[i] = results[i]
        /\ \A v \in Worker : v # w => worker'[v] = worker[v]
        /\ main' = main /\ transient' = transient
    BY DEF Finish, CollectRepository, CollectRepositoryFails, OnceInv
  <1>2. worker[w].job \in Job /\ worker[w].job # Nothing
    BY NothingAssumption
  <1>3. RawRetention => rawInputs \subseteq rawInputs' /\ worker[w].job.logs \subseteq rawInputs'
    BY <1>1, <1>2 DEF rawInputs, Collected
  <1>4. ~RawRetention => transient = {}
    BY DEF KeptInv
  <1>5. OwnedInv'
    BY <1>1, <1>3, <1>4 DEF KeptInv, OwnedInv
  <1>6. main # "done"
    BY <1>1 DEF LeftInv
  <1> QED BY <1>1, <1>4, <1>5, <1>6 DEF KeptInv, TransientRemoved

\* When all workers have left, the inputs are all there is to remove.
LEMMA MainKept ==
  ASSUME Inv, KeptInv, CancelContext \/ ClockFails \/ Main \/ UNCHANGED vars
  PROVE  KeptInv'
  <1> USE DEF KeptInv, OwnedInv, TransientRemoved
  <1>1. CASE ClockError
    BY <1>1 DEF ClockError, Return
  <1>2. CASE BatchInvalid \/ Failed \/ Append \/ SinkFails
    <2>1. main \in {"assemble", "deliver"} /\ main' = "done" /\ transient' = transient \ rawInputs
      BY <1>2 DEF BatchInvalid, Failed, Append, SinkFails, Return
    <2>2. \A w \in Worker : worker[w].state # "busy"
      BY <2>1 DEF Inv, LeftInv
    <2>3. transient' = {}
      BY <2>1, <2>2
    <2> QED BY <2>1, <2>3
  <1>3. CASE CancelContext \/ ClockFails \/ CloseChannel \/ WorkersDone \/ Assemble \/ RetainRaw
               \/ UNCHANGED vars
    <2>1. /\ UNCHANGED <<results, worker, transient, outcome>>
          /\ main = main' \/ main' # "done"
          /\ main = "done" => main' = "done"
      BY <1>3 DEF CancelContext, ClockFails, CloseChannel, WorkersDone, Assemble, RetainRaw, pool,
                  sink, vars
    <2>2. rawInputs' = rawInputs
      BY <2>1 DEF rawInputs, Collected
    <2> QED BY <2>1, <2>2
  <1> QED BY <1>1, <1>2, <1>3 DEF Main

\* However a collection ends, no transient log outlives it, unless the clock
\* failed after it was downloaded; the files of repositories that were still
\* being collected when another failed are among those removed, because all
\* workers have left and no result was overwritten (cleanupRawInputs).
THEOREM TransientTheorem == Spec => []TransientRemoved
  <1>1. Init => OnceInv /\ KeptInv
    BY InitFiles
  <1>2. Inv /\ OnceInv /\ KeptInv /\ [Next]_vars => (OnceInv /\ KeptInv)'
    BY StepOnce, WorkerKept, FinishKept, MainKept DEF Next
  <1>3. KeptInv => TransientRemoved
    BY DEF KeptInv
  <1> QED BY <1>1, <1>2, <1>3, Invariance, PTL DEF Spec
=============================================================================
