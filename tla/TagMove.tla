------------------------------- MODULE TagMove -------------------------------
(***************************************************************************)
(* The public laboratory moves its mutable tag v1 from the harmless commit *)
(* A to the marker commit B and back (internal/publiclab/tagmove.go), and  *)
(* keeps a record of every move from which the incident pack of the        *)
(* laboratory is derived (tagrecord.go, provenance.go, tools/publiclab).   *)
(*                                                                         *)
(* One move is a process: it reserves its record file, reads the remote,   *)
(* pushes with a lease on the expected old target, reads the remote back,  *)
(* judges what it saw and writes the record.  Several moves, other writers *)
(* of the repository, an impatient operator and a network that loses       *)
(* answers are interleaved with it.                                        *)
(***************************************************************************)
EXTENDS Integers, Sequences

CONSTANTS
  A, B, Other, \* targets of v1: marker commits A and B, any other object
  Move,        \* invocations of move-v1, on one host with one clock
  MaxClock,    \* bound: readings of the host's clock
  MaxStops,    \* bound: moves interrupted or killed
  MaxForeign,  \* bound: changes made by anybody else
  Nothing

Target == {A, B, Other}

ASSUME TagMoveAssumption ==
  /\ A # B /\ A # Other /\ B # Other
  /\ MaxClock \in Nat /\ MaxStops \in Nat /\ MaxForeign \in Nat
  /\ Nothing \notin Move
  /\ Nothing \notin Target \cup [observed : Target \cup {Nothing}, restore : BOOLEAN]

VARIABLES
  remote,    \* the remote repository: target of v1, and whether main and the
             \* fixture tags are those of the reviewed policy
  worktree,  \* the operator's clone: "reviewed", "unreviewed" or "grafted"
  clock,     \* the host's clock
  stops,     \* moves interrupted or killed so far
  foreign,   \* foreign changes so far
  pc,        \* where each move is
  request,   \* [old, new] of each move
  cancelled, \* the context of the move is cancelled
  wire,      \* what became of its push at the remote
  seen,      \* the topology of its latest successful ls-remote
  push,      \* what RunGit returned for the push: [err, confirmed, interrupted]
  result,    \* its TagMoveResult and the set of errors it returned
  file,      \* its record file: "none", "reserved", "record" or "removed"
  record,    \* the record it preserved
  told,      \* what its last line tells the operator
  pushedAt,  \* when the remote applied its push            (history)
  order,     \* the moves in the order they were applied    (history)
  writer,    \* the move that last changed v1, or Nothing   (history)
  packInput, \* the pack input derived from two records
  published, \* what the observations commit holds
  pack       \* the incident pack was generated

env     == <<worktree, clock, stops, foreign>>
history == <<pushedAt, order, writer>>
output  == <<file, record, told>>
derived == <<packInput, published, pack>>
vars    == <<remote, env, pc, request, cancelled, wire, seen, push, result,
             output, history, derived>>

Topology == [v1 : Target, fixed : BOOLEAN]
Time == 0 .. MaxClock

-----------------------------------------------------------------------------
(* The plan and the results.                                                *)

Install == [old |-> A, new |-> B]
Restore == [old |-> B, new |-> A]

\* What the operator asks for: a transition, a literal acknowledgement and the
\* binding to repository, remote, ref and worktree.
Ask == [move : {Install, Restore, [old |-> A, new |-> A], [old |-> B, new |-> Other]},
        acknowledged : {Install, Restore}, bound : BOOLEAN]

PlanV1Move(ask) ==
  /\ ask.bound
  /\ ask.move \in {Install, Restore}
  /\ ask.acknowledged = ask.move

\* Recovery guidance names the target of the readback; only an exact B comes
\* with the arguments of a restore.
RecoveryPlan(observed) == [observed |-> observed, restore |-> observed = B]

NoResult == [before |-> Nothing, beforeAt |-> 0, after |-> Nothing, afterAt |-> 0,
             verified |-> FALSE, recovery |-> Nothing, err |-> {}]

Fails(res, err, recovery) == [res EXCEPT !.err = err, !.recovery = recovery]

VerifyRemoteTopology(topology) == topology.fixed /\ topology.v1 \in {A, B}

\* Fault: a restore that finds A is told to restore.
PreconditionEager(res, req, topology, at, isCancelled) ==
  LET read == [res EXCEPT !.before = topology.v1, !.beforeAt = at] IN
  IF ~VerifyRemoteTopology(topology) THEN Fails(res, {"Precondition"}, Nothing)
  ELSE IF topology.v1 # req.old THEN Fails(read, {"Precondition"}, RecoveryPlan(req.old))
  ELSE IF isCancelled THEN Fails(read, {"Interrupted"}, Nothing)
  ELSE read

\* The decision between the first reading of the remote and the push.
Precondition(res, req, topology, at, isCancelled) ==
  LET read == [res EXCEPT !.before = topology.v1, !.beforeAt = at] IN
  IF ~VerifyRemoteTopology(topology) THEN Fails(res, {"Precondition"}, Nothing)
  ELSE IF topology.v1 # req.old
    THEN Fails(read, {"Precondition"},
               IF topology.v1 = B THEN RecoveryPlan(B) ELSE Nothing)
  ELSE IF isCancelled THEN Fails(read, {"Interrupted"}, Nothing)
  ELSE read

\* The remote could not be read back.
Unreadable(res, req, p) ==
  Fails(res,
        {"Unknown"} \union (IF p.interrupted THEN {"Interrupted"}
                            ELSE IF req = Restore THEN {"RestoreFailed"} ELSE {}),
        RecoveryPlan(Nothing))

\* Fault: an interrupted move that read its new target back needs no guidance.
ReachedSilently(res, req, p) ==
  LET verified == [res EXCEPT !.verified = TRUE] IN
  IF p.interrupted THEN Fails(verified, {"Interrupted"}, Nothing)
  ELSE IF p.err \/ ~p.confirmed
    THEN Fails(verified, {"Unconfirmed"}, IF req.new = B THEN RecoveryPlan(B) ELSE Nothing)
  ELSE verified

\* The new target was read back.
Reached(res, req, p) ==
  LET guidance == IF req.new = B THEN RecoveryPlan(B) ELSE Nothing
      verified == [res EXCEPT !.verified = TRUE]
  IN IF p.interrupted THEN Fails(verified, {"Interrupted"}, guidance)
     ELSE IF p.err \/ ~p.confirmed THEN Fails(verified, {"Unconfirmed"}, guidance)
     ELSE verified

\* The expected old target was read back.
Unmoved(res, req, p) ==
  LET guidance == RecoveryPlan(res.after) IN
  IF p.interrupted
    THEN Fails(res, {"Interrupted", IF req = Install THEN "Unknown" ELSE "RestoreFailed"},
               guidance)
  ELSE IF req = Restore THEN Fails(res, {"RestoreFailed"}, guidance)
  ELSE Fails(res, {"Failed"}, Nothing)

Judge(res, req, p, topology, at) ==
  LET read == [res EXCEPT !.after = topology.v1, !.afterAt = at] IN
  IF topology.fixed /\ topology.v1 = req.new THEN Reached(read, req, p)
  ELSE IF topology.fixed /\ topology.v1 = req.old THEN Unmoved(read, req, p)
  ELSE Fails(read, {"Concurrent"} \union (IF p.interrupted THEN {"Interrupted"} ELSE {}),
             RecoveryPlan(topology.v1))

-----------------------------------------------------------------------------
(* The record of a move.                                                    *)

\* The first error in this order names the outcome.
Outcomes == << <<"Unconfirmed", "REMOTE_TARGET_REACHED_UNCONFIRMED">>,
               <<"Concurrent", "CONCURRENT_CHANGE">>,
               <<"Unknown", "OUTCOME_UNKNOWN">>,
               <<"RestoreFailed", "RESTORE_FAILED">>,
               <<"Interrupted", "INTERRUPTED">>,
               <<"Precondition", "PRECONDITION_FAILED">>,
               <<"Failed", "FAILED_UNCHANGED">> >>

ClassifyTagMoveOutcome(err) ==
  IF err = {} THEN "CONFIRMED_APPLIED"
  ELSE LET i == CHOOSE k \in DOMAIN Outcomes :
                  /\ Outcomes[k][1] \in err
                  /\ \A j \in 1 .. (k - 1) : Outcomes[j][1] \notin err
       IN Outcomes[i][2]

EncodeTagMoveRecord(req, res, at) ==
  [move |-> req, before |-> res.before, beforeAt |-> res.beforeAt,
   after |-> res.after, afterAt |-> res.afterAt, verified |-> res.verified,
   outcome |-> ClassifyTagMoveOutcome(res.err), recovery |-> res.recovery,
   recordedAt |-> at]

\* The observations of a record lie before it, in order.
TimesOrdered(rec) ==
  /\ rec.before # Nothing /\ rec.after # Nothing => rec.beforeAt < rec.afterAt
  /\ rec.after # Nothing => rec.afterAt <= rec.recordedAt
  /\ rec.after = Nothing /\ rec.before # Nothing => rec.beforeAt <= rec.recordedAt

\* Recovery guidance is the latest readback, and only B is to be restored.
RecoveryBound(rec) ==
  LET latest == IF rec.outcome = "PRECONDITION_FAILED" THEN rec.before ELSE rec.after IN
  rec.recovery # Nothing =>
    /\ rec.recovery.restore <=> rec.recovery.observed = B
    /\ IF rec.recovery.observed = Nothing
       THEN rec.outcome = "OUTCOME_UNKNOWN" /\ rec.after = Nothing /\ rec.before # Nothing
       ELSE rec.recovery.observed = latest

OutcomeBound(rec) ==
  LET required == rec.recovery # Nothing IN
  CASE rec.outcome = "CONFIRMED_APPLIED" ->
         rec.verified /\ rec.before # Nothing /\ rec.after = rec.move.new /\ ~required
    [] rec.outcome = "PRECONDITION_FAILED" ->
         /\ ~rec.verified /\ rec.after = Nothing
         /\ required <=> rec.before = B
    [] rec.outcome = "FAILED_UNCHANGED" ->
         ~rec.verified /\ rec.before # Nothing /\ rec.after = rec.move.old /\ ~required
    [] rec.outcome = "REMOTE_TARGET_REACHED_UNCONFIRMED" ->
         rec.verified /\ rec.after = rec.move.new
    [] rec.outcome = "OUTCOME_UNKNOWN" -> ~rec.verified /\ required
    [] rec.outcome = "CONCURRENT_CHANGE" -> ~rec.verified /\ rec.after # Nothing /\ required
    [] rec.outcome = "INTERRUPTED" -> TRUE
    [] rec.outcome = "RESTORE_FAILED" ->
         rec.move = Restore /\ ~rec.verified /\ rec.after = B /\ required

ValidateTagMoveRecordSemantics(rec) ==
  /\ rec.before \in {Nothing, rec.move.old} \/ rec.outcome = "PRECONDITION_FAILED"
  /\ rec.verified => rec.after = rec.move.new
  /\ TimesOrdered(rec) /\ RecoveryBound(rec) /\ OutcomeBound(rec)

\* What a move prints that preserved its record.
Told(res) ==
  IF res.err = {} THEN "applied"
  ELSE IF res.recovery = Nothing THEN "failed"
  ELSE IF res.recovery.restore THEN "recover" ELSE "readback"

\* What it prints when no record could be preserved: the latest readback
\* decides.
TagRecordPersistenceError(res) ==
  LET latest == IF res.after # Nothing THEN res.after ELSE res.before IN
  IF latest = B THEN "recover"
  ELSE IF latest = A /\ res.recovery = Nothing /\ "Unknown" \notin res.err THEN "good"
  ELSE "readback"

-----------------------------------------------------------------------------
(* One invocation of move-v1.                                               *)

At(i, from, to) == pc[i] = from /\ pc' = [pc EXCEPT ![i] = to]

NoTopology == [v1 |-> Nothing, fixed |-> FALSE]
NoPush == [err |-> FALSE, confirmed |-> FALSE, interrupted |-> FALSE]

\* Two readings of the clock may agree; it is not set back.
Readings == {now \in Time : now \in {clock, clock + 1}}

\* moveV1 returns: its context and its local variables are gone.
Returned(i) ==
  /\ cancelled' = [cancelled EXCEPT ![i] = FALSE]
  /\ seen' = [seen EXCEPT ![i] = NoTopology]
  /\ push' = [push EXCEPT ![i] = NoPush]

\* The output file is reserved before anything else, and given up when the
\* plan is refused: nothing was read and there is nothing to record.
Reserve(i) ==
  /\ \E ask \in Ask :
       IF PlanV1Move(ask)
       THEN /\ At(i, "idle", "local")
            /\ request' = [request EXCEPT ![i] = ask.move]
            /\ file' = [file EXCEPT ![i] = "reserved"]
            /\ UNCHANGED told
       ELSE /\ At(i, "idle", "ended")
            /\ file' = [file EXCEPT ![i] = "removed"]
            /\ told' = [told EXCEPT ![i] = "failed"]
            /\ UNCHANGED request
  /\ UNCHANGED <<remote, env, cancelled, wire, seen, push, result, record, history, derived>>

\* The file cannot be reserved: the move is not started.
ReserveFails(i) ==
  /\ At(i, "idle", "ended")
  /\ told' = [told EXCEPT ![i] = "failed"]
  /\ UNCHANGED <<remote, env, request, cancelled, wire, seen, push, result, file, record,
                 history, derived>>

\* The boundary refuses to run Git beside grafts, shallow history, links or an
\* alternate object store.
GitRuns == worktree # "grafted"

\* The clone is the reviewed one, or Git fails or is interrupted on the way.
VerifyLocalPreconditions(i) ==
  /\ \/ /\ At(i, "local", "read")
        /\ ~cancelled[i] /\ worktree = "reviewed"
        /\ UNCHANGED <<result, cancelled, seen, push>>
     \/ /\ At(i, "local", "encode")
        /\ \E err \in {"Precondition"} \union (IF cancelled[i] THEN {"Interrupted"} ELSE {}) :
             result' = [result EXCEPT ![i] = Fails(@, {err}, Nothing)]
        /\ Returned(i)
  /\ UNCHANGED <<remote, env, request, wire, output, history, derived>>

\* readRemoteTopology before the push: all six refs, or an error.
ReadBefore(i) ==
  /\ \/ /\ At(i, "read", "verify")
        /\ GitRuns /\ ~cancelled[i]
        /\ seen' = [seen EXCEPT ![i] = remote]
        /\ UNCHANGED <<result, cancelled, push>>
     \/ /\ At(i, "read", "encode")
        /\ result' = [result EXCEPT ![i] = Fails(@, {"Precondition"}, Nothing)]
        /\ Returned(i)
  /\ UNCHANGED <<remote, env, request, wire, output, history, derived>>

\* The answer is dated and judged after the remote gave it.
VerifyBefore(i) ==
  \E now \in Readings :
  LET judged == Precondition(result[i], request[i], seen[i], now, cancelled[i]) IN
  /\ clock' = now
  /\ At(i, "verify", IF judged.err = {} THEN "push" ELSE "encode")
  /\ result' = [result EXCEPT ![i] = judged]
  /\ IF judged.err = {} THEN seen' = [seen EXCEPT ![i] = NoTopology] /\ UNCHANGED <<cancelled, push>>
     ELSE Returned(i)
  /\ UNCHANGED <<remote, worktree, stops, foreign, request, wire, output, history, derived>>

SendPush(i) ==
  /\ At(i, "push", "sent")
  /\ GitRuns /\ ~cancelled[i]
  /\ wire' = [wire EXCEPT ![i] = "sent"]
  /\ UNCHANGED <<remote, env, request, cancelled, seen, push, result, output, history, derived>>

PushNotSent(i) ==
  /\ At(i, "push", "readback")
  /\ push' = [push EXCEPT ![i] = [err |-> TRUE, confirmed |-> FALSE, interrupted |-> cancelled[i]]]
  /\ UNCHANGED <<remote, env, request, cancelled, wire, seen, result, output, history, derived>>

\* Fault: a push without an error counts as confirmed.
AnyPushWasApplied(i, confirmed) == confirmed => wire[i] \in {"applied", "uptodate"}

\* exactPushWasApplied: one status line, a forced update of our refspec.  The
\* line of an applied push may be lost; a remote that had the target already
\* and a refused push have another one.
ExactPushWasApplied(i, confirmed) == confirmed => wire[i] = "applied"

\* Git returns: with an answer, after a lost connection, or killed.
PushReturns(i) ==
  /\ At(i, "sent", "readback")
  /\ \E err, confirmed \in BOOLEAN :
       /\ err \/ wire[i] \in {"applied", "uptodate"}
       /\ confirmed => ~err
       /\ ExactPushWasApplied(i, confirmed)
       /\ push' = [push EXCEPT ![i] =
            [err |-> err, confirmed |-> confirmed, interrupted |-> cancelled[i]]]
  /\ UNCHANGED <<remote, env, request, cancelled, wire, seen, result, output, history, derived>>

\* The readback has a context of its own when the move was cancelled before it.
ReadAfter(i) ==
  /\ \/ /\ At(i, "readback", "judge")
        /\ GitRuns
        /\ seen' = [seen EXCEPT ![i] = remote]
        /\ UNCHANGED <<result, cancelled, push>>
     \/ /\ At(i, "readback", "encode")
        /\ result' = [result EXCEPT ![i] = Unreadable(@, request[i], push[i])]
        /\ Returned(i)
  /\ UNCHANGED <<remote, env, request, wire, output, history, derived>>

JudgeAfter(i) ==
  /\ At(i, "judge", "encode")
  /\ \E now \in Readings :
       /\ clock' = now
       /\ result' = [result EXCEPT ![i] = Judge(@, request[i], push[i], seen[i], now)]
  /\ Returned(i)
  /\ UNCHANGED <<remote, worktree, stops, foreign, request, wire, output, history, derived>>

\* The record is validated and then written, in a context of its own; what
\* cannot be recorded is told.  The write fails with the device, or when
\* another file took the name.
WriteRecord(i) ==
  LET rec == EncodeTagMoveRecord(request[i], result[i], clock) IN
  /\ At(i, "encode", "ended")
  /\ \/ /\ ValidateTagMoveRecordSemantics(rec)
        /\ record' = [record EXCEPT ![i] = rec]
        /\ file' = [file EXCEPT ![i] = "record"]
        /\ told' = [told EXCEPT ![i] = Told(result[i])]
     \/ /\ file' = [file EXCEPT ![i] = "removed"]
        /\ told' = [told EXCEPT ![i] = TagRecordPersistenceError(result[i])]
        /\ UNCHANGED record
  /\ UNCHANGED <<remote, env, request, cancelled, wire, seen, push, result, history, derived>>

-----------------------------------------------------------------------------
(* The surroundings.                                                        *)

Stop == stops < MaxStops /\ stops' = stops + 1 /\ UNCHANGED foreign

Foreign == foreign < MaxForeign /\ foreign' = foreign + 1 /\ UNCHANGED stops

Running(i) == pc[i] \notin {"idle", "ended", "dead"}

Interrupt(i) ==
  /\ Running(i) /\ pc[i] # "encode" /\ ~cancelled[i]
  /\ Stop
  /\ cancelled' = [cancelled EXCEPT ![i] = TRUE]
  /\ UNCHANGED <<remote, worktree, clock, pc, request, wire, seen, push, result, output, history, derived>>

\* The process dies: the reserved file stays behind.
Kill(i) ==
  /\ Running(i) /\ Stop
  /\ pc' = [pc EXCEPT ![i] = "dead"]
  /\ Returned(i)
  /\ result' = [result EXCEPT ![i] = NoResult]
  /\ UNCHANGED <<remote, worktree, clock, request, wire, output, history, derived>>

\* The remote processes a push whenever it arrives, also after its client has
\* gone.  The lease is compared with the ref; a ref that is there already is
\* left alone.
RemoteReceives(i) ==
  /\ wire[i] = "sent"
  /\ IF remote.v1 = request[i].new
     THEN /\ wire' = [wire EXCEPT ![i] = "uptodate"]
          /\ UNCHANGED <<remote, history>>
     ELSE IF remote.v1 = request[i].old
     THEN /\ wire' = [wire EXCEPT ![i] = "applied"]
          /\ remote' = [remote EXCEPT !.v1 = request[i].new]
          /\ pushedAt' = [pushedAt EXCEPT ![i] = clock]
          /\ order' = Append(order, i)
          /\ writer' = i
     ELSE /\ wire' = [wire EXCEPT ![i] = "rejected"]
          /\ UNCHANGED <<remote, history>>
  /\ UNCHANGED <<env, pc, request, cancelled, seen, push, result, output, derived>>

\* Somebody else moves v1, touches main or a fixture tag.
ForeignChange ==
  /\ Foreign
  /\ \/ /\ \E target \in Target \ {remote.v1} : remote' = [remote EXCEPT !.v1 = target]
        /\ writer' = Nothing
     \/ /\ remote' = [remote EXCEPT !.fixed = ~@]
        /\ UNCHANGED writer
  /\ UNCHANGED <<worktree, clock, pc, request, cancelled, wire, seen, push, result,
                 output, pushedAt, order, derived>>

\* The operator's clone changes under the move.
WorktreeChange ==
  /\ Foreign
  /\ worktree = "reviewed" /\ worktree' = "grafted"
  /\ UNCHANGED <<remote, clock, pc, request, cancelled, wire, seen, push, result,
                 output, history, derived>>

-----------------------------------------------------------------------------
(* The pack input and the incident pack.                                    *)

\* Fault: the restore is not asked to follow the install.
ClosedInAnyOrder(install, restore, at) ==
  /\ install.move = Install /\ restore.move = Restore
  /\ install.outcome = "CONFIRMED_APPLIED" /\ restore.outcome = "CONFIRMED_APPLIED"
  /\ install.after = restore.before
  /\ restore.afterAt <= at

\* GeneratePackInputRecord and validatePackInputDerivation ask the same.
ClosedDerivationInputs(install, restore, at) ==
  /\ install.move = Install /\ restore.move = Restore
  /\ install.outcome = "CONFIRMED_APPLIED" /\ restore.outcome = "CONFIRMED_APPLIED"
  /\ install.after = restore.before
  /\ install.afterAt < restore.beforeAt
  /\ restore.afterAt <= at

GeneratePackInput(i, r) ==
  /\ packInput = Nothing
  /\ record[i] # Nothing /\ record[r] # Nothing
  /\ ClosedDerivationInputs(record[i], record[r], clock)
  /\ packInput' = [install |-> i, restore |-> r,
                   before |-> record[i].beforeAt, during |-> record[i].afterAt,
                   after |-> record[r].afterAt, createdAt |-> clock]
  /\ UNCHANGED <<remote, env, pc, request, cancelled, wire, seen, push, result, output,
                 history, published, pack>>

\* The operator commits blobs to the observations branch.
PublishObservations ==
  /\ packInput # Nothing /\ pack = Nothing
  /\ \E blobs \in SUBSET ({i \in Move : file[i] = "record"} \union {"pack-input"}) :
       blobs # published /\ published' = blobs
  /\ UNCHANGED <<remote, env, pc, request, cancelled, wire, seen, push, result, output,
                 history, packInput, pack>>

\* render-pack: the commit holds exactly these three records, and the
\* derivation is validated again.
RenderPack(i, r) ==
  /\ packInput # Nothing /\ pack = Nothing
  /\ packInput.install = i /\ packInput.restore = r
  /\ ClosedDerivationInputs(record[i], record[r], packInput.createdAt)
  /\ {i, r, "pack-input"} \subseteq published
  /\ pack' = <<i, r>>
  /\ UNCHANGED <<remote, env, pc, request, cancelled, wire, seen, push, result, output,
                 history, packInput, published>>

-----------------------------------------------------------------------------
Init ==
  /\ remote \in [v1 : {A, B}, fixed : {TRUE}]
  /\ worktree \in {"reviewed", "unreviewed"}
  /\ clock = 0 /\ stops = 0 /\ foreign = 0
  /\ pc = [i \in Move |-> "idle"]
  /\ request = [i \in Move |-> Install]
  /\ cancelled = [i \in Move |-> FALSE]
  /\ wire = [i \in Move |-> "none"]
  /\ seen = [i \in Move |-> NoTopology]
  /\ push = [i \in Move |-> NoPush]
  /\ result = [i \in Move |-> NoResult]
  /\ file = [i \in Move |-> "none"]
  /\ record = [i \in Move |-> Nothing]
  /\ told = [i \in Move |-> "nothing"]
  /\ pushedAt = [i \in Move |-> 0] /\ order = <<>> /\ writer = Nothing
  /\ packInput = Nothing /\ published = {} /\ pack = Nothing

Step(i) ==
  \/ Reserve(i) \/ ReserveFails(i) \/ VerifyLocalPreconditions(i)
  \/ ReadBefore(i) \/ VerifyBefore(i) \/ SendPush(i) \/ PushNotSent(i) \/ PushReturns(i)
  \/ ReadAfter(i) \/ JudgeAfter(i) \/ WriteRecord(i)

Next ==
  \/ \E i \in Move : Step(i) \/ Interrupt(i) \/ Kill(i) \/ RemoteReceives(i)
  \/ ForeignChange \/ WorktreeChange
  \/ \E i, r \in Move : GeneratePackInput(i, r) \/ RenderPack(i, r)
  \/ PublishObservations

Spec == Init /\ [][Next]_vars

-----------------------------------------------------------------------------
(* Properties.                                                              *)

\* Every result moveV1 can return passes the validator of its own record
\* format, unless the host's clock did not advance between two readings.
RecordIsAccepted ==
  \A i \in Move : pc[i] = "encode" =>
    LET rec == EncodeTagMoveRecord(request[i], result[i], clock) IN
    TimesOrdered(rec) => ValidateTagMoveRecordSemantics(rec)

\* A move recorded as CONFIRMED_APPLIED was applied by its own push, between
\* its two observations.
ConfirmedMeansMoved ==
  \A i \in Move : record[i] # Nothing /\ record[i].outcome = "CONFIRMED_APPLIED" =>
    /\ wire[i] = "applied"
    /\ record[i].beforeAt <= pushedAt[i] /\ pushedAt[i] <= record[i].afterAt

\* The move put B in place, or its push still may.
LeftInstalled(i) ==
  /\ request[i] = Install
  /\ \/ wire[i] = "sent" /\ remote.v1 \in {A, B}
     \/ remote.v1 = B /\ writer = i

\* The move read B last and did not restore A.
LeftUnrestored(i) ==
  /\ request[i] = Restore
  /\ result[i].err # {}
  /\ (IF result[i].after # Nothing THEN result[i].after ELSE result[i].before) = B

\* Two ways a move ends without guidance although B may be there: a push that
\* failed without being interrupted is still under way when A is read back,
\* and a restore is interrupted between its first reading and its push.
Unguarded(i) ==
  \/ result[i].err = {"Failed"}
  \/ result[i].err = {"Interrupted"} /\ result[i].after = Nothing

\* Whoever leaves B behind says so: a confirmed record, guidance to restore or
\* to read the remote again, or the reserved file of a process that died.
NothingLeftBehind ==
  \A i \in Move :
    /\ pc[i] = "ended" /\ (LeftInstalled(i) \/ LeftUnrestored(i)) =>
         told[i] \in {"applied", "recover", "readback"} \/ Unguarded(i)
    /\ pc[i] = "dead" => file[i] = "reserved"

\* A pack input stands for an installation by one of the two moves and its
\* later end by the other, both inside the window it states; a pack is
\* generated from a pack input only.
ClosedDerivation ==
  /\ packInput # Nothing =>
       LET i == packInput.install
           r == packInput.restore
           place(m) == CHOOSE k \in DOMAIN order : order[k] = m
       IN /\ {i, r} \subseteq {order[k] : k \in DOMAIN order}
          /\ place(i) < place(r)
          /\ packInput.before <= pushedAt[i] /\ pushedAt[i] <= packInput.during
          /\ pushedAt[r] <= packInput.after /\ packInput.after <= packInput.createdAt
  /\ pack # Nothing => packInput # Nothing /\ {pack[1], pack[2]} \subseteq published

=============================================================================
