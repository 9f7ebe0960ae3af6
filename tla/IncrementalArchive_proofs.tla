----------------------- MODULE IncrementalArchive_proofs -----------------------
(***************************************************************************)
(* Proofs about IncrementalArchive for any number of runs, of attempts and *)
(* of invocations and any overlap and horizon: the watermark never runs    *)
(* ahead of what was archived.                                             *)
(***************************************************************************)
EXTENDS IncrementalArchive, TLAPS

TypeOK ==
  /\ time \in Time
  /\ created \in [Run -> 0 .. Never]
  /\ attempts \in [Run -> SUBSET Time]
  /\ archive \in [exists : BOOLEAN, attempts : [Run -> SUBSET Time],
                  checkpoint : Checkpoint \union {Nothing}]
  /\ job \in Job \union {Nothing}
  /\ start \in Int
  /\ clipped \subseteq Time
  /\ overtaken \in [Run -> SUBSET Time]

\* Attempts of which the archive is known to hold all or to miss them for good.
Known(u) == archive.attempts[u] \union overtaken[u]

\* Nothing can happen to a run that is out of the watch horizon, and all of it
\* that can be archived is.
Settled(u) == Boundary(u) <= time /\ attempts[u] \subseteq Known(u)

ArchivedBefore(u, t) == \A a \in attempts[u] : a < t => a \in Known(u)

\* What the archive holds of the runs that its checkpoint answers for: those
\* that are no longer watched need not be.
CheckpointInv ==
  checkpoint # Nothing =>
    /\ archive.exists
    /\ checkpoint.watermark <= time
    /\ \A u \in DOMAIN checkpoint.parents :
         /\ created[u] < checkpoint.watermark
         /\ checkpoint.parents[u].final => Settled(u)
    /\ \A u \in Run : (InScope(u) /\ created[u] \notin clipped) =>
         /\ ArchivedBefore(u, checkpoint.watermark)
         /\ u \in DOMAIN checkpoint.parents \/ Settled(u)

\* An invocation that may still move the watermark starts where the checkpoint
\* leaves off, and drops no parent that can change.
Continues ==
  (job.write /\ job.complete /\ checkpoint # Nothing /\ checkpoint.watermark <= job.to) =>
    /\ job.first <= checkpoint.watermark - Overlap \/ job.first <= job.from
    /\ \A u \in DOMAIN checkpoint.parents : u \in DOMAIN job.parents \/ Settled(u)

ScheduleInv ==
  job # Nothing =>
    /\ archive.exists
    /\ job.to <= time
    /\ job.seen = Nothing => job.todo = DOMAIN job.parents /\ job.reading = Nothing
    /\ \A u \in DOMAIN job.parents :
         /\ \/ created[u] < job.to
            \/ checkpoint # Nothing /\ u \in DOMAIN checkpoint.parents
         /\ job.parents[u].final =>
              /\ Boundary(u) <= time
              /\ attempts[u] \subseteq Known(u) \union job.found[u]
    /\ Continues

\* A listing without a gap holds the runs that the next one leaves out, and
\* what was read reaches up to the cutoff.
CollectInv ==
  (job # Nothing /\ job.seen # Nothing) =>
    /\ \A u \in job.seen : created[u] < job.to
    /\ job.todo \subseteq job.seen \union DOMAIN job.parents
    /\ job.reading # Nothing => job.reading.run \in job.todo
    /\ job.complete =>
         /\ \A u \in Run :
              (job.first <= created[u] /\ created[u] < job.to - Overlap) => u \in job.seen
         /\ \A u \in (job.seen \union DOMAIN job.parents) \ job.todo :
              /\ u \in DOMAIN job.parents
              /\ \A a \in attempts[u] : a < job.to => a \in job.found[u]
         /\ job.reading # Nothing =>
              \A a \in attempts[job.reading.run] : a < job.to => a \in job.found[job.reading.run]

\* An invocation that is not complete says so.
GapsInv == job # Nothing => (job.gaps = {} => job.complete)

IInv == CheckpointInv /\ ScheduleInv /\ CollectInv

-----------------------------------------------------------------------------
(* Types.                                                                  *)

\* The watched parents of a checkpoint or an invocation.
LEMMA WatchSetDomain ==
  ASSUME NEW parents \in WatchSet
  PROVE  /\ DOMAIN parents \subseteq Run
         /\ parents \in [DOMAIN parents -> Watched]
  BY DEF WatchSet

LEMMA WatchSetMember ==
  ASSUME NEW runs \in SUBSET Run, NEW parents \in [runs -> Watched]
  PROVE  parents \in WatchSet
  BY DEF WatchSet

\* What a running invocation and a checkpoint consist of.
LEMMA JobFields ==
  ASSUME TypeOK, job # Nothing
  PROVE  /\ job \in Job
         /\ job.from \in Int /\ job.to \in Nat /\ job.first \in Int
         /\ job.parents \in WatchSet /\ DOMAIN job.parents \subseteq Run
         /\ job.write \in BOOLEAN /\ job.complete \in BOOLEAN
         /\ job.seen # Nothing => job.seen \in SUBSET Run
         /\ job.todo \in SUBSET Run /\ job.found \in [Run -> SUBSET Time]
         /\ job.reading # Nothing => job.reading \in Reading /\ job.reading.run \in Run
                                      /\ job.reading.complete \in BOOLEAN
         /\ job.gaps \in SUBSET Gap
  BY WatchSetDomain DEF TypeOK, Job, Reading

LEMMA CheckpointFields ==
  ASSUME TypeOK, checkpoint # Nothing
  PROVE  /\ checkpoint \in Checkpoint
         /\ checkpoint.watermark \in Nat
         /\ checkpoint.parents \in WatchSet
         /\ DOMAIN checkpoint.parents \subseteq Run
  BY WatchSetDomain DEF TypeOK, checkpoint, Checkpoint

\* Watching one more parent.
LEMMA WatchType ==
  ASSUME TypeOK, job # Nothing, job.reading # Nothing, NEW u \in Run
  PROVE  Watch(u) \in WatchSet /\ Final(u) \in BOOLEAN
  <1>1. job.parents \in WatchSet /\ time \in Time
    BY JobFields DEF TypeOK
  <1>2. DOMAIN job.parents \subseteq Run /\ job.parents \in [DOMAIN job.parents -> Watched]
    BY <1>1, WatchSetDomain
  <1>3. Final(u) \in BOOLEAN
    BY DEF Final
  <1>4. [refreshed |-> time, final |-> Final(u)] \in Watched
    BY <1>1, <1>3 DEF Watched
  <1>5. Watch(u) \in [DOMAIN job.parents \union {u} -> Watched]
    BY <1>2, <1>4 DEF Watch
  <1> QED BY <1>2, <1>3, <1>5, WatchSetMember

LEMMA InitType == ASSUME Init PROVE TypeOK
  BY TimeAssumption DEF Init, TypeOK, Time, Never

LEMMA BeginType ==
  ASSUME TypeOK, NEW from \in Int, NEW to \in Nat, NEW first \in Int, NEW parents \in WatchSet,
         NEW write \in BOOLEAN, NEW continuous \in BOOLEAN,
         Begin(from, to, first, parents, write, continuous)
  PROVE  TypeOK'
  <1>1. DOMAIN parents \in SUBSET Run
    BY WatchSetDomain
  <1>2. job' \in Job
    BY <1>1 DEF Begin, Job, Gap
  <1>3. archive' = [archive EXCEPT !.exists = TRUE]
    BY DEF Begin
  <1> QED BY <1>2, <1>3 DEF TypeOK, Begin

LEMMA InvokeType == ASSUME TypeOK, Invoke PROVE TypeOK'
  <1>1. PICK to \in (time - Behind) .. (time + Ahead) :
          /\ to >= 0
          /\ \/ \E since \in Since : \/ BeginInitial(to - since, to)
                                    \/ BeginFallback(to - since, to)
                                    \/ BeginResume(to - since, to)
             \/ \E length \in Explicit : \/ BeginInitial(to - length, to)
                                         \/ BeginPreserve(to - length, to)
    BY DEF Invoke
  <1>2. to \in Nat
    BY <1>1, TimeAssumption DEF TypeOK, Time
  <1>3. PICK from \in Int : \/ BeginInitial(from, to) \/ BeginFallback(from, to)
                            \/ BeginResume(from, to) \/ BeginPreserve(from, to)
    BY <1>1, <1>2, TimeAssumption
  <1>4. from - Horizon \in Int
    BY TimeAssumption
  <1>5. NoParents \in WatchSet
    <2>1. {} \in SUBSET Run /\ NoParents \in [{} -> Watched]
      BY DEF NoParents
    <2> QED BY <2>1, WatchSetMember
  <1>6. CASE BeginResume(from, to)
    <2>1. checkpoint # Nothing
      BY <1>6 DEF BeginResume, Resumable
    <2>2. ResumeFrom(from) \in Int /\ Continuous(from) \in BOOLEAN
      BY <2>1, CheckpointFields, TimeAssumption DEF ResumeFrom, Later, Continuous
    <2>3. /\ Refresh(to) \subseteq Run
          /\ [u \in Refresh(to) |-> checkpoint.parents[u]] \in [Refresh(to) -> Watched]
      BY <2>1, CheckpointFields, WatchSetDomain DEF Refresh
    <2>4. [u \in Refresh(to) |-> checkpoint.parents[u]] \in WatchSet
      BY <2>3, WatchSetMember
    <2> QED BY <1>2, <1>6, <2>2, <2>4, BeginType DEF BeginResume
  <1> QED
    BY <1>2, <1>3, <1>4, <1>5, <1>6, BeginType DEF BeginInitial, BeginFallback, BeginPreserve

LEMMA CollectType == ASSUME TypeOK, Collect PROVE TypeOK'
  <1>1. CASE ListRuns \/ ListRunsPartly
    <2>1. job # Nothing
      BY <1>1 DEF ListRuns, ListRunsPartly
    <2>2. PICK seen \in SUBSET Run :
            \/ job' = [job EXCEPT !.seen = seen, !.todo = @ \union seen]
            \/ job' = [job EXCEPT !.seen = seen, !.todo = @ \union seen, !.complete = FALSE,
                                  !.gaps = @ \union {"run_partition"}]
      BY <1>1 DEF ListRuns, ListRunsPartly, InWindow
    <2>3. job' \in Job
      <3>1. job \in Job /\ seen \in {Nothing} \union SUBSET Run /\ job.todo \union seen \in SUBSET Run
        BY <2>1, JobFields
      <3>2. job.gaps \union {"run_partition"} \in SUBSET Gap
        BY <2>1, JobFields DEF Gap
      <3> QED BY <2>2, <3>1, <3>2 DEF Job
    <2> QED BY <1>1, <2>3 DEF TypeOK, ListRuns, ListRunsPartly
  <1>2. ASSUME NEW u \in Run, ReadRun(u) \/ ReadRunPartly(u) \/ RefreshFails(u) PROVE TypeOK'
    <2>1. job # Nothing
      BY <1>2 DEF ReadRun, ReadRunPartly, RefreshFails, ToCollect
    <2>2. attempts[u] \in SUBSET Time
      BY DEF TypeOK
    <2>3. [run |-> u, complete |-> TRUE] \in Reading /\ [run |-> u, complete |-> FALSE] \in Reading
      BY DEF Reading
    <2>4. job' \in Job
      <3>1. CASE ReadRun(u)
        <4>1. job' = [[job EXCEPT !.reading = [run |-> u, complete |-> TRUE]]
                        EXCEPT !.found[u] = attempts[u]]
          BY <3>1, <2>1, JobFields DEF ReadRun, Job
        <4> QED BY <4>1, <2>1, <2>2, <2>3, JobFields DEF Job
      <3>2. CASE ReadRunPartly(u)
        BY <3>2, <2>1, <2>3, JobFields DEF ReadRunPartly, Job, Gap
      <3>3. CASE RefreshFails(u)
        BY <3>3, <2>1, JobFields DEF RefreshFails, Job, Gap
      <3> QED BY <1>2, <3>1, <3>2, <3>3
    <2> QED BY <1>2, <2>4 DEF TypeOK, ReadRun, ReadRunPartly, RefreshFails
  <1>5. ASSUME NEW u \in Run, CollectRun(u) PROVE TypeOK'
    <2>1. job # Nothing /\ job.reading # Nothing
      BY <1>5 DEF CollectRun
    <2>2. Watch(u) \in WatchSet
      BY <2>1, WatchType
    <2>3. job' \in Job
      BY <1>5, <2>1, <2>2, JobFields DEF CollectRun, Job
    <2>4. attempts[u] \ job.found[u] \in SUBSET Time
      BY DEF TypeOK
    <2>5. overtaken' \in [Run -> SUBSET Time]
      BY <1>5, <2>4 DEF CollectRun, TypeOK
    <2> QED BY <1>5, <2>3, <2>5 DEF TypeOK, CollectRun
  <1>3. CASE Commit
    <2>1. job # Nothing
      BY <1>3 DEF Commit
    <2>2. Offered \in Checkpoint
      BY <2>1, JobFields DEF Offered, Checkpoint
    <2>3. archive' \in [exists : BOOLEAN, attempts : [Run -> SUBSET Time],
                        checkpoint : Checkpoint \union {Nothing}]
      BY <1>3, <2>1, <2>2, JobFields DEF Commit, TypeOK, checkpoint
    <2>4. start' \in Int /\ clipped' \subseteq Time /\ job' = Nothing
      BY <1>3, <2>1, JobFields DEF Commit, TypeOK
    <2> QED BY <1>3, <2>3, <2>4 DEF TypeOK, Commit
  <1>4. CASE Abort
    BY <1>4 DEF TypeOK, Abort
  <1> QED BY <1>1, <1>2, <1>3, <1>4, <1>5 DEF Collect

LEMMA StepType == ASSUME TypeOK, [Next]_vars PROVE TypeOK'
  <1>1. CASE Tick
    BY <1>1, TimeAssumption DEF Tick, TypeOK, Time
  <1>2. ASSUME NEW u \in Run, CreateRun(u) \/ StartAttempt(u) PROVE TypeOK'
    <2>1. time \in 0 .. Never
      BY TimeAssumption DEF TypeOK, Time, Never
    <2>2. time \in Time
      BY DEF TypeOK
    <2>3. UNCHANGED <<time, archive, job, start, clipped, overtaken>>
      BY <1>2 DEF CreateRun, StartAttempt
    <2>4. CASE CreateRun(u)
      <3>1. created' = [created EXCEPT ![u] = time] /\ attempts' = [attempts EXCEPT ![u] = {time}]
        BY <2>4 DEF CreateRun
      <3>2. created' \in [Run -> 0 .. Never]
        BY <2>1, <3>1 DEF TypeOK
      <3>3. attempts' \in [Run -> SUBSET Time]
        BY <2>2, <3>1 DEF TypeOK
      <3> QED BY <2>3, <3>2, <3>3 DEF TypeOK
    <2>5. CASE StartAttempt(u)
      <3>1. /\ UNCHANGED created
            /\ attempts' = [attempts EXCEPT ![u] = @ \union {time}]
        BY <2>5 DEF StartAttempt
      <3>2. attempts' \in [Run -> SUBSET Time]
        BY <2>2, <3>1 DEF TypeOK
      <3> QED BY <2>3, <3>1, <3>2 DEF TypeOK
    <2> QED BY <1>2, <2>4, <2>5
  <1>3. CASE UNCHANGED vars
    BY <1>3 DEF vars, TypeOK
  <1> QED BY <1>1, <1>2, <1>3, InvokeType, CollectType DEF Next

\* The state keeps its type: a checkpoint watches runs of the repository, and
\* only gaps of four kinds are reported (collectRepository, scheduleRepository).
THEOREM TypeCorrect == Spec => []TypeOK
  <1>1. Init => TypeOK
    BY InitType
  <1>2. TypeOK /\ [Next]_vars => TypeOK'
    BY StepType
  <1> QED BY <1>1, <1>2, PTL DEF Spec
-----------------------------------------------------------------------------
(* The environment.                                                        *)

\* A run is missing from a listing no longer than the overlap lasts, and no
\* invocation asks for a cutoff after the present.
Timely == Latency <= Overlap /\ Ahead = 0

LEMMA InitInv == ASSUME Init PROVE IInv
  BY DEF Init, IInv, CheckpointInv, ScheduleInv, CollectInv, checkpoint

LEMMA StutterStep == ASSUME IInv, UNCHANGED vars PROVE IInv'
  BY DEF vars, IInv, CheckpointInv, ScheduleInv, Continues, CollectInv, checkpoint, InScope,
         Boundary, Settled, ArchivedBefore, Known

\* A run comes into scope by a later watermark only.
LEMMA TickStep == ASSUME TypeOK, IInv, Tick PROVE IInv'
  <1> USE TimeAssumption DEF Tick, Boundary, Settled, ArchivedBefore, Known, checkpoint
  <1>1. time \in Int /\ time' = time + 1
    BY DEF TypeOK, Time
  <1>2. \A u \in Run : created[u] \in Int /\ (Settled(u) => Settled(u)')
    BY <1>1 DEF TypeOK, Never
  <1>3. CheckpointInv'
    <2> SUFFICES ASSUME checkpoint # Nothing PROVE CheckpointInv'
      BY DEF CheckpointInv
    <2>1. checkpoint.watermark \in Int /\ DOMAIN checkpoint.parents \subseteq Run
      BY CheckpointFields
    <2>2. ASSUME NEW u \in Run, InScope(u)' PROVE InScope(u)
      BY <1>1, <1>2, <2>1, <2>2 DEF InScope, IInv, CheckpointInv
    <2> QED BY <1>1, <1>2, <2>1, <2>2 DEF IInv, CheckpointInv
  <1>4. ScheduleInv'
    <2> SUFFICES ASSUME job # Nothing PROVE ScheduleInv'
      BY DEF ScheduleInv
    <2>1. job.to \in Int /\ DOMAIN job.parents \subseteq Run
      BY JobFields
    <2>2. Continues'
      BY <1>1, <1>2, CheckpointFields DEF IInv, ScheduleInv, Continues
    <2> QED BY <1>1, <1>2, <2>1, <2>2 DEF IInv, ScheduleInv
  <1>5. CollectInv'
    BY DEF IInv, CollectInv
  <1> QED BY <1>3, <1>4, <1>5 DEF IInv

\* A new run is younger than the watermark and every cutoff.
LEMMA CreateRunStep == ASSUME TypeOK, IInv, NEW r \in Run, CreateRun(r) PROVE IInv'
  <1> USE TimeAssumption DEF CreateRun, Boundary, Settled, ArchivedBefore, Known, checkpoint
  <1>1. time \in Int /\ time <= MaxTime /\ created[r] = MaxTime + 1 /\ created'[r] = time
    BY DEF TypeOK, Time, Never
  <1>2. ASSUME NEW u \in Run, u # r
        PROVE  created'[u] = created[u] /\ attempts'[u] = attempts[u] /\ created[u] \in Int
    BY <1>2 DEF TypeOK, Never
  <1>3. ~Settled(r)
    BY <1>1
  <1>4. \A u \in Run : Settled(u) => Settled(u)'
    BY <1>2, <1>3
  <1>5. CheckpointInv'
    <2> SUFFICES ASSUME checkpoint # Nothing PROVE CheckpointInv'
      BY DEF CheckpointInv
    <2>1. checkpoint.watermark \in Int /\ DOMAIN checkpoint.parents \subseteq Run
      BY CheckpointFields
    <2>2. r \notin DOMAIN checkpoint.parents /\ ~InScope(r)'
      BY <1>1, <2>1 DEF IInv, CheckpointInv, InScope
    <2>3. ASSUME NEW u \in Run, InScope(u)' PROVE u # r /\ InScope(u)
      BY <1>1, <1>2, <2>1, <2>2, <2>3 DEF InScope
    <2> QED BY <1>2, <1>4, <2>1, <2>2, <2>3 DEF IInv, CheckpointInv
  <1>6. job # Nothing => r \notin DOMAIN job.parents
    BY <1>1, JobFields, CheckpointFields DEF IInv, CheckpointInv, ScheduleInv
  <1>7. ScheduleInv'
    <2> SUFFICES ASSUME job # Nothing PROVE ScheduleInv'
      BY DEF ScheduleInv
    <2>1. DOMAIN job.parents \subseteq Run
      BY JobFields
    <2>2. Continues'
      BY <1>4, CheckpointFields DEF IInv, ScheduleInv, Continues
    <2> QED BY <1>2, <1>6, <2>1, <2>2 DEF IInv, ScheduleInv
  <1>8. CollectInv'
    <2> SUFFICES ASSUME job # Nothing, job.seen # Nothing PROVE CollectInv'
      BY DEF CollectInv
    <2>1. /\ DOMAIN job.parents \subseteq Run /\ job.to \in Int /\ job.seen \in SUBSET Run
          /\ job.to <= time
      BY JobFields DEF IInv, ScheduleInv
    <2>2. r \notin job.seen /\ ~(created'[r] < job.to - Overlap)
      BY <1>1, <2>1 DEF IInv, CollectInv
    <2>3. job.reading # Nothing => job.reading.run \in Run /\ job.reading.run # r
      BY <1>6, <2>2, JobFields DEF IInv, CollectInv
    <2> QED BY <1>2, <1>6, <2>1, <2>2, <2>3 DEF IInv, CollectInv
  <1> QED BY <1>5, <1>7, <1>8 DEF IInv

\* A new attempt starts after the watermark and every cutoff, and not after
\* the watch horizon of its run.
LEMMA StartAttemptStep == ASSUME TypeOK, IInv, NEW r \in Run, StartAttempt(r) PROVE IInv'
  <1> USE TimeAssumption DEF StartAttempt, Boundary, Known, checkpoint
  <1>1. time \in Int /\ created[r] \in Int /\ ~(Boundary(r) <= time)
    BY DEF TypeOK, Time, Never
  <1>2. /\ attempts'[r] = attempts[r] \union {time}
        /\ \A u \in Run : u # r => attempts'[u] = attempts[u]
    BY DEF TypeOK
  <1>3. \A u \in Run : Settled(u) => Settled(u)'
    BY <1>1, <1>2 DEF Settled
  <1>4. CheckpointInv'
    <2> SUFFICES ASSUME checkpoint # Nothing PROVE CheckpointInv'
      BY DEF CheckpointInv
    <2>1. checkpoint.watermark \in Int /\ DOMAIN checkpoint.parents \subseteq Run
      BY CheckpointFields
    <2>2. \A u \in Run : ArchivedBefore(u, checkpoint.watermark)
                            => ArchivedBefore(u, checkpoint.watermark)'
      BY <1>1, <1>2, <2>1 DEF ArchivedBefore, IInv, CheckpointInv
    <2> QED BY <1>3, <2>1, <2>2 DEF IInv, CheckpointInv, InScope
  <1>5. ScheduleInv'
    <2> SUFFICES ASSUME job # Nothing PROVE ScheduleInv'
      BY DEF ScheduleInv
    <2>1. DOMAIN job.parents \subseteq Run
      BY JobFields
    <2>2. Continues'
      BY <1>3, CheckpointFields DEF IInv, ScheduleInv, Continues
    <2> QED BY <1>1, <1>2, <2>1, <2>2 DEF IInv, ScheduleInv
  <1>6. CollectInv'
    <2> SUFFICES ASSUME job # Nothing, job.seen # Nothing PROVE CollectInv'
      BY DEF CollectInv
    <2>1. /\ DOMAIN job.parents \subseteq Run /\ job.to \in Int /\ job.seen \in SUBSET Run
          /\ job.to <= time /\ (job.reading # Nothing => job.reading.run \in Run)
      BY JobFields DEF IInv, ScheduleInv
    <2> QED BY <1>1, <1>2, <2>1 DEF IInv, CollectInv
  <1> QED BY <1>4, <1>5, <1>6 DEF IInv

-----------------------------------------------------------------------------
(* An invocation.                                                          *)

\* An invocation takes watched parents over from the checkpoint.
TakesOver(parents) ==
  \A u \in DOMAIN parents : /\ checkpoint # Nothing /\ u \in DOMAIN checkpoint.parents
                            /\ parents[u].final => Settled(u)

\* One that may move the watermark leaves no instant and no parent out.
LeavesNoneOut(from, to, first, parents) ==
  (checkpoint # Nothing /\ checkpoint.watermark <= to) =>
    /\ first <= checkpoint.watermark - Overlap \/ first <= from
    /\ \A u \in DOMAIN checkpoint.parents : u \in DOMAIN parents \/ Settled(u)

LEMMA BeginStep ==
  ASSUME TypeOK, IInv, NEW from \in Int, NEW to \in Nat, NEW first \in Int,
         NEW parents \in WatchSet, NEW write \in BOOLEAN, NEW continuous \in BOOLEAN,
         Begin(from, to, first, parents, write, continuous), to <= time,
         TakesOver(parents),
         write /\ continuous => LeavesNoneOut(from, to, first, parents)
  PROVE  IInv'
  <1> USE DEF checkpoint, Boundary, Settled, Known, TakesOver, LeavesNoneOut
  <1>1. /\ job'.reading = Nothing /\ job'.from = from /\ job'.to = to /\ job'.first = first /\ job'.parents = parents
        /\ job'.write = write /\ job'.seen = Nothing /\ job'.todo = DOMAIN parents
        /\ job'.found = [u \in Run |-> {}] /\ job'.complete = continuous
    BY DEF Begin
  <1>2. /\ archive'.exists = TRUE /\ archive'.attempts = archive.attempts
        /\ archive'.checkpoint = archive.checkpoint
        /\ UNCHANGED <<time, created, attempts, start, clipped, overtaken>>
    BY DEF Begin, TypeOK
  <1>3. CheckpointInv'
    BY <1>2 DEF IInv, CheckpointInv, InScope, ArchivedBefore
  <1>4. ScheduleInv'
    <2>1. DOMAIN parents \subseteq Run
      BY WatchSetDomain
    <2>2. Continues'
      BY <1>1, <1>2 DEF Continues
    <2>3. \A u \in DOMAIN parents : u \in Run /\ job'.found[u] = {}
      BY <1>1, <2>1
    <2> QED BY <1>1, <1>2, <2>2, <2>3 DEF ScheduleInv
  <1>5. CollectInv'
    BY <1>1 DEF CollectInv
  <1> QED BY <1>3, <1>4, <1>5 DEF IInv

\* A parent that need not be refreshed is settled; a checkpoint that is not
\* resumed cannot be replaced.
LEMMA InvokeStep == ASSUME TypeOK, IInv, Timely, Invoke PROVE IInv'
  <1>1. PICK to \in (time - Behind) .. (time + Ahead) :
          /\ to >= 0
          /\ \/ \E since \in Since : \/ BeginInitial(to - since, to)
                                    \/ BeginFallback(to - since, to)
                                    \/ BeginResume(to - since, to)
             \/ \E length \in Explicit : \/ BeginInitial(to - length, to)
                                         \/ BeginPreserve(to - length, to)
    BY DEF Invoke
  <1>2. to \in Nat /\ to <= time
    BY <1>1, TimeAssumption DEF TypeOK, Time, Timely
  <1>3. PICK from \in Int : \/ BeginInitial(from, to) \/ BeginFallback(from, to)
                            \/ BeginResume(from, to) \/ BeginPreserve(from, to)
    BY <1>1, <1>2, TimeAssumption
  <1>4. from - Horizon \in Int
    BY TimeAssumption
  <1>5. NoParents \in WatchSet /\ DOMAIN NoParents = {}
    <2>1. {} \in SUBSET Run /\ NoParents \in [{} -> Watched]
      BY DEF NoParents
    <2> QED BY <2>1, WatchSetMember
  <1>6. TakesOver(NoParents)
    BY <1>5 DEF TakesOver
  <1>7. CASE BeginInitial(from, to)
    <2>1. LeavesNoneOut(from, to, from - Horizon, NoParents)
      BY <1>7 DEF BeginInitial, IInv, CheckpointInv, LeavesNoneOut
    <2> QED BY <1>2, <1>4, <1>5, <1>6, <1>7, <2>1, BeginStep DEF BeginInitial
  <1>8. CASE BeginPreserve(from, to)
    BY <1>2, <1>4, <1>5, <1>6, <1>8, BeginStep DEF BeginPreserve
  <1>9. CASE BeginFallback(from, to)
    <2>1. LeavesNoneOut(from, to, from - Horizon, NoParents)
      <3> SUFFICES ASSUME checkpoint # Nothing, checkpoint.watermark <= to PROVE Resumable(to)
        BY <1>9 DEF LeavesNoneOut, BeginFallback
      <3>1. checkpoint.watermark \in Nat /\ DOMAIN checkpoint.parents \subseteq Run
        BY CheckpointFields
      <3>2. \A u \in DOMAIN checkpoint.parents : created[u] \in Int /\ created[u] <= to
        BY <1>2, <3>1 DEF IInv, CheckpointInv, TypeOK, Never
      <3> QED BY <1>2, <3>1, <3>2, TimeAssumption DEF Resumable
    <2> QED BY <1>2, <1>4, <1>5, <1>6, <1>9, <2>1, BeginStep DEF BeginFallback
  <1>10. CASE BeginResume(from, to)
    <2>1. checkpoint # Nothing
      BY <1>10 DEF BeginResume, Resumable
    <2>2. checkpoint.watermark \in Nat /\ DOMAIN checkpoint.parents \subseteq Run
      BY <2>1, CheckpointFields
    <2>3. PICK first \in Int : /\ first = ResumeFrom(from)
                               /\ \/ first <= checkpoint.watermark - Overlap
                                  \/ first <= from
      BY <2>2, TimeAssumption DEF ResumeFrom, Later
    <2>4. PICK parents \in WatchSet : parents = [u \in Refresh(to) |-> checkpoint.parents[u]]
      <3>1. /\ Refresh(to) \subseteq Run
            /\ [u \in Refresh(to) |-> checkpoint.parents[u]] \in [Refresh(to) -> Watched]
        BY <2>1, CheckpointFields, WatchSetDomain DEF Refresh
      <3> QED BY <3>1, WatchSetMember
    <2>5. DOMAIN parents = Refresh(to) /\ TakesOver(parents)
      BY <2>1, <2>4 DEF Refresh, IInv, CheckpointInv, TakesOver
    <2>6. LeavesNoneOut(from, to, first, parents)
      BY <2>3, <2>5 DEF Refresh, NeedsRefresh, IInv, CheckpointInv, LeavesNoneOut
    <2>7. Begin(from, to, first, parents, TRUE, Continuous(from))
      BY <1>10, <2>3, <2>4 DEF BeginResume
    <2>8. Continuous(from) \in BOOLEAN
      BY DEF Continuous
    <2> QED BY <1>2, <2>5, <2>6, <2>7, <2>8, BeginStep
  <1> QED BY <1>3, <1>7, <1>8, <1>9, <1>10

\* A listing without a gap holds all runs that are older than the latency.
LEMMA ListStep == ASSUME TypeOK, IInv, Timely, ListRuns \/ ListRunsPartly PROVE IInv'
  <1> USE DEF checkpoint, Boundary, Settled, Known
  <1>1. job # Nothing /\ job.seen = Nothing /\ UNCHANGED <<time, created, attempts, archive, start, clipped, overtaken>>
    BY DEF ListRuns, ListRunsPartly
  <1>2. PICK seen \in SUBSET InWindow :
          \/ /\ MustList \subseteq seen
             /\ job' = [job EXCEPT !.seen = seen, !.todo = @ \union seen]
          \/ job' = [job EXCEPT !.seen = seen, !.todo = @ \union seen, !.complete = FALSE,
                                !.gaps = @ \union {"run_partition"}]
    BY DEF ListRuns, ListRunsPartly
  <1>3. /\ job'.from = job.from /\ job'.to = job.to /\ job'.first = job.first
        /\ job'.parents = job.parents /\ job'.write = job.write /\ job'.found = job.found
        /\ job'.seen = seen /\ job'.todo = job.todo \union seen
        /\ job'.reading = job.reading
        /\ job'.complete => job.complete /\ MustList \subseteq seen
    BY <1>1, <1>2, JobFields DEF Job
  <1>4. seen # Nothing
    BY <1>2, NothingAssumption DEF InWindow
  <1>5. CheckpointInv'
    BY <1>1 DEF IInv, CheckpointInv, InScope, ArchivedBefore
  <1>6. ScheduleInv'
    BY <1>1, <1>3, <1>4 DEF IInv, ScheduleInv, Continues
  <1>7. CollectInv'
    <2>1. /\ job.to \in Int /\ job.first \in Int /\ time \in Int /\ job.to <= time
          /\ \A u \in Run : created[u] \in Int
      BY <1>1, JobFields DEF IInv, ScheduleInv, TypeOK, Time, Never
    <2>2. \A u \in Run : (job.first <= created[u] /\ created[u] < job.to - Overlap) => u \in MustList
      BY <2>1, TimeAssumption DEF MustList, InWindow, Timely
    <2>3. job.todo = DOMAIN job.parents /\ job.reading = Nothing
      BY <1>1 DEF IInv, ScheduleInv
    <2> QED BY <1>1, <1>2, <1>3, <2>2, <2>3 DEF CollectInv, InWindow
  <1> QED BY <1>5, <1>6, <1>7 DEF IInv

\* A parent that was read without a gap is held up to the cutoff.
LEMMA ReadStep ==
  ASSUME TypeOK, IInv, NEW r \in Run, ReadRun(r) \/ ReadRunPartly(r) \/ RefreshFails(r)
  PROVE  IInv'
  <1> USE DEF checkpoint, Boundary, Settled, Known
  <1>1. /\ job # Nothing /\ job.seen # Nothing /\ job.reading = Nothing /\ r \in job.todo
        /\ UNCHANGED <<time, created, attempts, archive, start, clipped, overtaken>>
    BY DEF ReadRun, ReadRunPartly, RefreshFails, ToCollect
  <1>2. /\ job'.from = job.from /\ job'.to = job.to /\ job'.first = job.first
        /\ job'.write = job.write /\ job'.seen = job.seen /\ job'.parents = job.parents
        /\ job'.todo \subseteq job.todo
        /\ job'.complete => job.complete /\ ReadRun(r) /\ job'.todo = job.todo
        /\ job'.reading # Nothing => job'.reading.run = r /\ job'.todo = job.todo
        /\ \A u \in Run : job'.found[u] = job.found[u] \/ (u = r /\ job'.found[u] = attempts[u])
        /\ ReadRun(r) => job'.found[r] = attempts[r]
    <2>1. CASE ReadRun(r)
      BY <1>1, <2>1, JobFields DEF ReadRun, Job
    <2>2. CASE ~ReadRun(r) /\ ReadRunPartly(r)
      BY <1>1, <2>2, JobFields DEF ReadRunPartly, Job
    <2>3. CASE ~ReadRun(r) /\ RefreshFails(r)
      BY <1>1, <2>3, JobFields DEF RefreshFails, Job
    <2> QED BY <2>1, <2>2, <2>3
  <1>3. DOMAIN job.parents \subseteq Run /\ job.seen \in SUBSET Run
    BY <1>1, JobFields
  <1>4. CheckpointInv'
    BY <1>1 DEF IInv, CheckpointInv, InScope, ArchivedBefore
  <1>5. ScheduleInv'
    <2>1. Continues'
      BY <1>1, <1>2 DEF IInv, ScheduleInv, Continues
    <2>2. ASSUME NEW u \in DOMAIN job.parents, job.parents[u].final
          PROVE  attempts[u] \subseteq Known(u) \union job'.found[u]
      BY <1>1, <1>2, <1>3, <2>2 DEF IInv, ScheduleInv
    <2> QED BY <1>1, <1>2, <2>1, <2>2 DEF IInv, ScheduleInv
  <1>6. CollectInv'
    <2>1. ASSUME job'.complete, NEW u \in (job.seen \union DOMAIN job.parents) \ job.todo
          PROVE  u \in DOMAIN job.parents /\ \A a \in attempts[u] : a < job.to => a \in job'.found[u]
      BY <1>1, <1>2, <1>3, <2>1 DEF IInv, CollectInv
    <2> QED BY <1>1, <1>2, <2>1 DEF IInv, CollectInv
  <1> QED BY <1>4, <1>5, <1>6 DEF IInv

\* A parent that was collected without a gap is watched on, or is past its
\* horizon and all of it is known.
LEMMA CollectStep == ASSUME TypeOK, IInv, NEW r \in Run, CollectRun(r) PROVE IInv'
  <1> USE DEF checkpoint, Boundary
  <1>1. /\ job # Nothing /\ job.reading # Nothing /\ job.reading.run = r
        /\ job' = [job EXCEPT !.reading = Nothing, !.todo = @ \ {r}, !.parents = Watch(r)]
        /\ UNCHANGED <<time, created, attempts, archive, start, clipped>>
    BY DEF CollectRun
  <1>2. /\ job'.from = job.from /\ job'.to = job.to /\ job'.first = job.first
        /\ job'.write = job.write /\ job'.seen = job.seen /\ job'.todo = job.todo \ {r}
        /\ job'.complete = job.complete /\ job'.found = job.found /\ job'.reading = Nothing
        /\ job'.parents = Watch(r)
    BY <1>1, JobFields DEF Job
  <1>3. /\ DOMAIN job'.parents = DOMAIN job.parents \union {r}
        /\ job'.parents[r].final = Final(r)
        /\ \A u \in DOMAIN job.parents : u # r => job'.parents[u] = job.parents[u]
    BY <1>2 DEF Watch
  <1>4. /\ DOMAIN job.parents \subseteq Run
        /\ job.seen # Nothing /\ job.seen \in SUBSET Run /\ r \in job.todo
    BY <1>1, JobFields DEF IInv, ScheduleInv, CollectInv
  <1>5. \A u \in Run : Known(u) \subseteq Known(u)' /\ (Settled(u) => Settled(u)')
    <2>1. \A u \in Run : overtaken[u] \subseteq overtaken'[u]
      BY DEF CollectRun, TypeOK
    <2> QED BY <1>1, <2>1 DEF Known, Settled
  <1>6. Final(r) => Boundary(r) <= time /\ attempts[r] \subseteq Known(r)' \union job.found[r]
    <2>1. Final(r) => overtaken'[r] = overtaken[r] \union (attempts[r] \ job.found[r])
      BY DEF CollectRun, TypeOK
    <2> QED BY <2>1 DEF Final, Known
  <1>7. CheckpointInv'
    <2>1. checkpoint # Nothing => DOMAIN checkpoint.parents \subseteq Run
      BY CheckpointFields
    <2> QED BY <1>1, <1>5, <2>1 DEF IInv, CheckpointInv, InScope, ArchivedBefore
  <1>8. ScheduleInv'
    <2>1. Continues'
      <3>1. checkpoint # Nothing => DOMAIN checkpoint.parents \subseteq Run
        BY CheckpointFields
      <3> QED BY <1>1, <1>2, <1>3, <1>5, <3>1 DEF IInv, ScheduleInv, Continues
    <2>2. ASSUME NEW u \in DOMAIN job'.parents, job'.parents[u].final
          PROVE  /\ Boundary(u) <= time
                 /\ attempts[u] \subseteq Known(u)' \union job.found[u]
      <3>1. CASE u = r
        BY <1>3, <1>6, <2>2, <3>1
      <3>2. CASE u # r
        BY <1>1, <1>3, <1>4, <1>5, <2>2, <3>2 DEF IInv, ScheduleInv
      <3> QED BY <3>1, <3>2
    <2>3. ASSUME NEW u \in DOMAIN job'.parents
          PROVE  created[u] < job.to \/ (checkpoint # Nothing /\ u \in DOMAIN checkpoint.parents)
      BY <1>1, <1>3, <1>4, <2>3 DEF IInv, ScheduleInv, CollectInv
    <2> QED BY <1>1, <1>2, <1>4, <2>1, <2>2, <2>3 DEF IInv, ScheduleInv
  <1>9. CollectInv'
    <2>1. ASSUME job.complete, NEW u \in (job.seen \union DOMAIN job'.parents) \ job'.todo
          PROVE  /\ u \in DOMAIN job'.parents
                 /\ \A a \in attempts[u] : a < job.to => a \in job.found[u]
      <3>1. CASE u = r
        BY <1>1, <1>3, <1>4, <2>1, <3>1 DEF IInv, CollectInv
      <3>2. CASE u # r
        BY <1>1, <1>2, <1>3, <1>4, <2>1, <3>2 DEF IInv, CollectInv
      <3> QED BY <3>1, <3>2
    <2> QED BY <1>1, <1>2, <1>3, <1>4, <2>1 DEF IInv, CollectInv
  <1> QED BY <1>7, <1>8, <1>9 DEF IInv

\* The archive never loses an attempt, nor a watched parent that can change.
LEMMA CommitStep == ASSUME TypeOK, IInv, Commit PROVE IInv'
  <1> USE TimeAssumption DEF checkpoint, Boundary
  <1>1. /\ job # Nothing /\ job.seen # Nothing /\ job.todo = {} /\ job' = Nothing
        /\ UNCHANGED <<time, created, attempts, overtaken>>
    BY DEF Commit
  <1>2. \A u \in Run : archive'.attempts[u] = archive.attempts[u] \union job.found[u]
    BY DEF Commit
  <1>3. archive'.exists /\ archive'.checkpoint = (IF Writes THEN Offered ELSE checkpoint)
    BY DEF Commit
  <1>4. \A u \in Run : Settled(u) => Settled(u)'
    BY <1>1, <1>2 DEF Settled, Known
  <1>5. CASE ~Writes
    <2>1. checkpoint' = checkpoint /\ start' = start /\ clipped' = clipped
      BY <1>3, <1>5 DEF Commit
    <2>2. CheckpointInv'
      <3> SUFFICES ASSUME checkpoint # Nothing PROVE CheckpointInv'
        BY <2>1 DEF CheckpointInv
      <3>1. DOMAIN checkpoint.parents \subseteq Run
        BY CheckpointFields
      <3> QED BY <1>1, <1>2, <1>3, <1>4, <2>1, <3>1 DEF IInv, CheckpointInv, InScope, ArchivedBefore, Known
    <2> QED BY <1>1, <2>2 DEF IInv, ScheduleInv, CollectInv
  <1>6. CASE Writes
    <2>1. /\ job.write /\ job.complete
          /\ checkpoint # Nothing => checkpoint.watermark <= job.to
          /\ checkpoint'.watermark = job.to /\ checkpoint'.parents = job.parents
      BY <1>3, <1>6 DEF Writes, Offered
    <2>2. /\ job.to \in Int /\ job.first \in Int /\ job.from \in Int /\ time \in Time /\ job.to <= time
          /\ DOMAIN job.parents \subseteq Run /\ job.seen \in SUBSET Run
          /\ checkpoint # Nothing => /\ checkpoint.watermark \in Int
                                     /\ DOMAIN checkpoint.parents \subseteq Run
          /\ \A u \in Run : created[u] \in 0 .. Never
      BY <1>1, JobFields, CheckpointFields DEF IInv, ScheduleInv, TypeOK
    <2>3. ASSUME NEW u \in DOMAIN job.parents
          PROVE  /\ created[u] < job.to
                 /\ job.parents[u].final => Settled(u)'
      BY <1>1, <1>2, <2>1, <2>2, <2>3 DEF IInv, ScheduleInv, CheckpointInv, Settled, Known
    <2>4. ASSUME NEW u \in job.seen \union DOMAIN job.parents
          PROVE  u \in DOMAIN job.parents /\ ArchivedBefore(u, checkpoint.watermark)'
      BY <1>1, <1>2, <2>1, <2>2, <2>4 DEF IInv, CollectInv, ArchivedBefore, Known
    <2>5. ASSUME NEW u \in Run, InScope(u)', created[u] \notin clipped'
          PROVE  \/ u \in job.seen
                 \/ checkpoint # Nothing /\ InScope(u) /\ created[u] \notin clipped
      <3>1. start' <= created[u] /\ created[u] < job.to - Overlap /\ created[u] <= time
        BY <1>1, <2>1, <2>5 DEF InScope
      <3>2. job.first <= created[u] => u \in job.seen
        BY <1>1, <2>1, <3>1 DEF IInv, CollectInv
      <3>3. CASE checkpoint = Nothing
        BY <1>6, <3>1, <3>2, <3>3 DEF Commit
      <3>4. CASE checkpoint # Nothing /\ ~(job.first <= created[u])
        <4>1. /\ start' = start
              /\ clipped' = clipped \union {t \in Time : /\ checkpoint.watermark - Overlap <= t
                                                         /\ t < job.from}
          BY <1>6, <3>4 DEF Commit
        <4>2. job.first <= checkpoint.watermark - Overlap \/ job.first <= job.from
          BY <1>1, <2>1, <3>4 DEF IInv, ScheduleInv, Continues
        <4>3. created[u] \in Time
          BY <2>2, <3>1 DEF Time, Never
        <4>4. created[u] < checkpoint.watermark - Overlap
          BY <2>2, <2>5, <3>4, <4>1, <4>2, <4>3
        <4> QED BY <2>5, <3>1, <3>4, <4>1, <4>4 DEF InScope
      <3> QED BY <3>2, <3>3, <3>4
    <2>6. ASSUME NEW u \in Run, InScope(u)', created[u] \notin clipped'
          PROVE  /\ ArchivedBefore(u, checkpoint.watermark)'
                 /\ u \in DOMAIN job.parents \/ Settled(u)'
      <3>1. CASE u \in job.seen \union DOMAIN job.parents
        BY <2>4, <3>1
      <3>2. CASE u \notin job.seen \union DOMAIN job.parents
        <4>1. checkpoint # Nothing /\ InScope(u) /\ created[u] \notin clipped
          BY <2>5, <2>6, <3>2
        <4>2. u \in DOMAIN checkpoint.parents => Settled(u)
          BY <1>1, <2>1, <3>2, <4>1 DEF IInv, ScheduleInv, Continues
        <4>3. Settled(u)'
          BY <1>4, <4>1, <4>2 DEF IInv, CheckpointInv
        <4> QED BY <4>3 DEF Settled, ArchivedBefore
      <3> QED BY <3>1, <3>2
    <2>7. CheckpointInv'
      BY <1>1, <1>3, <2>1, <2>2, <2>3, <2>6 DEF CheckpointInv
    <2> QED BY <1>1, <2>7 DEF IInv, ScheduleInv, CollectInv
  <1> QED BY <1>5, <1>6

LEMMA AbortStep == ASSUME IInv, Abort PROVE IInv'
  BY DEF Abort, IInv, CheckpointInv, ScheduleInv, CollectInv, checkpoint, InScope, Boundary,
         Settled, ArchivedBefore, Known

\* The invariant is inductive.
THEOREM Invariance == ASSUME Timely PROVE Spec => [](TypeOK /\ IInv)
  <1>1. Init => TypeOK /\ IInv
    BY InitType, InitInv
  <1>2. TypeOK /\ IInv /\ [Next]_vars => (TypeOK /\ IInv)'
    <2> SUFFICES ASSUME TypeOK, IInv, [Next]_vars PROVE IInv'
      BY StepType
    <2>1. CASE Collect
      BY <2>1, ListStep, ReadStep, CollectStep, CommitStep, AbortStep DEF Collect
    <2>2. ASSUME NEW u \in Run, CreateRun(u) \/ StartAttempt(u) PROVE IInv'
      BY <2>2, CreateRunStep, StartAttemptStep
    <2> QED BY <2>1, <2>2, TickStep, InvokeStep, StutterStep DEF Next
  <1> QED BY <1>1, <1>2, PTL DEF Spec

\* Whatever invocations overlapped, failed, were aborted or asked for an
\* explicit window, and however often and late a run was run again: the archive
\* holds every attempt before the watermark of every run the checkpoint answers
\* for, except those that NoSilentHole sets aside by name: attempts that started
\* while their run was collected for what counts as its last refresh, and runs
\* created where an explicit start cut the overlap off (collectRepository, collectParentRun, PlanIncrementalArchive,
\* insertCheckpoint).
THEOREM NoSilentHoleTheorem == ASSUME Timely PROVE Spec => []NoSilentHole
  <1>1. TypeOK /\ IInv => NoSilentHole
    BY DEF IInv, CheckpointInv, NoSilentHole, InScope, ArchivedBefore, Known
  <1> QED BY <1>1, Invariance, PTL

-----------------------------------------------------------------------------
(* What a step never does.                                                 *)

LEMMA InitGaps == ASSUME Init PROVE GapsInv
  BY DEF Init, GapsInv

\* Whatever makes an invocation incomplete is a gap.
LEMMA GapsStep == ASSUME TypeOK, GapsInv, [Next]_vars PROVE GapsInv'
  <1> SUFFICES ASSUME job' # Nothing, job'.gaps = {} PROVE job'.complete
    BY DEF GapsInv
  <1>1. CASE job = Nothing
    <2>1. PICK from, to, first, parents, write, continuous :
            Begin(from, to, first, parents, write, continuous)
      BY <1>1 DEF Next, vars, Tick, CreateRun, StartAttempt, Invoke, BeginInitial, BeginPreserve,
                  BeginFallback, BeginResume, Collect, ListRuns, ListRunsPartly, ReadRun,
                  ReadRunPartly, RefreshFails, ToCollect, CollectRun, Commit, Abort
    <2> QED BY <2>1 DEF Begin
  <1>2. CASE job # Nothing
    <2>1. CASE job' = job
      BY <1>2, <2>1 DEF GapsInv
    <2>2. CASE ListRuns \/ ListRunsPartly
      BY <1>2, <2>2, JobFields DEF GapsInv, ListRuns, ListRunsPartly, Job
    <2>3. ASSUME NEW u \in Run, ReadRun(u) \/ ReadRunPartly(u) \/ RefreshFails(u) \/ CollectRun(u)
          PROVE  job'.complete
      BY <1>2, <2>3, JobFields DEF GapsInv, ReadRun, ReadRunPartly, RefreshFails, CollectRun, Job
    <2>4. CASE Collect
      BY <1>2, <2>2, <2>3, <2>4 DEF Collect, Commit, Abort
    <2>5. ~Invoke
      BY <1>2 DEF Invoke, Begin, BeginInitial, BeginPreserve, BeginFallback, BeginResume
    <2> QED BY <2>1, <2>4, <2>5 DEF Next, vars, Tick, CreateRun, StartAttempt
  <1> QED BY <1>1, <1>2

LEMMA GapsInvariant == Spec => [](TypeOK /\ GapsInv)
  <1>1. Init => TypeOK /\ GapsInv
    BY InitType, InitGaps
  <1>2. TypeOK /\ GapsInv /\ [Next]_vars => (TypeOK /\ GapsInv)'
    BY StepType, GapsStep
  <1> QED BY <1>1, <1>2, PTL DEF Spec

\* An invocation that continues the checkpoint and reports no gap brings the
\* watermark to its cutoff, or leaves a later one (collectRepository).
THEOREM NoSilentStallTheorem == Spec => NoSilentStall
  <1>1. TypeOK /\ GapsInv /\ Commit /\ job.write /\ job.gaps = {} =>
          archive'.checkpoint # Nothing /\ job.to <= archive'.checkpoint.watermark
    <2> SUFFICES ASSUME TypeOK, GapsInv, Commit, job.write, job.gaps = {}
                 PROVE  archive'.checkpoint # Nothing /\ job.to <= archive'.checkpoint.watermark
      OBVIOUS
    <2>1. job # Nothing /\ job.complete
      BY DEF Commit, GapsInv
    <2>2. job.to \in Int /\ Offered \in Checkpoint
      BY <2>1, JobFields DEF Offered, Checkpoint
    <2>3. CASE Writes
      BY <2>2, <2>3, NothingAssumption DEF Commit, Offered
    <2>4. CASE ~Writes
      BY <2>1, <2>2, <2>4, CheckpointFields DEF Commit, Writes, checkpoint
    <2> QED BY <2>3, <2>4
  <1> QED BY <1>1, GapsInvariant, PTL DEF NoSilentStall

\* The watermark is never taken back, and an explicit window does not move it,
\* also when an invocation was planned from an older checkpoint
\* (insertCheckpoint).
THEOREM WatermarkTheorem == Spec => WatermarkHolds
  <1>1. TypeOK /\ [Next]_vars =>
          (checkpoint # Nothing =>
             /\ archive'.checkpoint # Nothing
             /\ checkpoint.watermark <= archive'.checkpoint.watermark
             /\ (job # Nothing /\ ~job.write) => archive'.checkpoint = checkpoint)
    <2> SUFFICES ASSUME TypeOK, [Next]_vars, checkpoint # Nothing
                 PROVE  /\ archive'.checkpoint # Nothing
                        /\ checkpoint.watermark <= archive'.checkpoint.watermark
                        /\ (job # Nothing /\ ~job.write) => archive'.checkpoint = checkpoint
      OBVIOUS
    <2>1. checkpoint.watermark \in Int
      BY CheckpointFields
    <2>2. CASE Commit
      <3>1. Offered \in Checkpoint
        BY <2>2, JobFields DEF Commit, Offered, Checkpoint
      <3> QED BY <2>1, <2>2, <3>1, NothingAssumption DEF Commit, Writes, Offered
    <2>3. CASE ~Commit
      <3>1. archive'.checkpoint = checkpoint
        BY <2>3 DEF Next, vars, Tick, CreateRun, StartAttempt, Invoke, Begin, BeginInitial,
             BeginPreserve, BeginFallback, BeginResume, Collect, ListRuns, ListRunsPartly,
             ReadRun, ReadRunPartly, RefreshFails, CollectRun, Abort, TypeOK, checkpoint
      <3> QED BY <2>1, <3>1
    <2> QED BY <2>2, <2>3
  <1> QED BY <1>1, TypeCorrect, PTL DEF WatermarkHolds, Spec
=============================================================================
