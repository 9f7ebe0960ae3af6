--------------------------- MODULE TagMove_proofs ---------------------------
(***************************************************************************)
(* Proofs about TagMove for every number of moves, of interruptions and of *)
(* foreign changes: what a record that says CONFIRMED_APPLIED proves, and  *)
(* what a pack input derived from two of them stands for.                  *)
(***************************************************************************)
EXTENDS TagMove, TLAPS

Errors == {"Unconfirmed", "Concurrent", "Unknown", "RestoreFailed", "Interrupted",
           "Precondition", "Failed"}

Seen     == Target \cup {Nothing}
Guidance == [observed : Seen, restore : BOOLEAN]
Advice   == Guidance \cup {Nothing}

Result == [before : Seen, beforeAt : Nat, after : Seen, afterAt : Nat,
           verified : BOOLEAN, recovery : Advice, err : SUBSET Errors]

Answer  == [v1 : Seen, fixed : BOOLEAN]
Pushed  == [err : BOOLEAN, confirmed : BOOLEAN, interrupted : BOOLEAN]
Request == {Install, Restore}

-----------------------------------------------------------------------------
(* The results of a move.                                                  *)

\* An error and its guidance leave what was read as it is.
LEMMA FailsResult ==
  ASSUME NEW res \in Result, NEW err \in SUBSET Errors, NEW recovery \in Advice
  PROVE  /\ Fails(res, err, recovery) \in Result
         /\ Fails(res, err, recovery).err = err
         /\ Fails(res, err, recovery).recovery = recovery
         /\ Fails(res, err, recovery).before = res.before
         /\ Fails(res, err, recovery).beforeAt = res.beforeAt
         /\ Fails(res, err, recovery).after = res.after
         /\ Fails(res, err, recovery).afterAt = res.afterAt
         /\ Fails(res, err, recovery).verified = res.verified
  <1>1. Fails(res, err, recovery) = [[res EXCEPT !.err = err] EXCEPT !.recovery = recovery]
    BY DEF Fails, Result
  <1> QED BY <1>1 DEF Result

\* Guidance says what was read, and what to do.
LEMMA RecoveryAdvice ==
  ASSUME NEW target \in Seen
  PROVE  RecoveryPlan(target) \in Advice
  BY DEF RecoveryPlan, Advice, Guidance

\* The decision before the push dates what it read.
LEMMA PreconditionResult ==
  ASSUME NEW res \in Result, NEW req \in Request, NEW topology \in Answer, NEW at \in Nat,
         NEW isCancelled \in BOOLEAN
  PROVE  LET judged == Precondition(res, req, topology, at, isCancelled) IN
         /\ judged \in Result
         /\ judged.beforeAt \in {res.beforeAt, at}
         /\ judged.afterAt = res.afterAt
  <1> DEFINE read == [res EXCEPT !.before = topology.v1, !.beforeAt = at]
             judged == Precondition(res, req, topology, at, isCancelled)
  <1>1. topology.v1 \in Seen
    BY DEF Answer
  <1>2. read \in Result /\ read.beforeAt = at /\ read.afterAt = res.afterAt
    <2>1. read = [[res EXCEPT !.before = topology.v1] EXCEPT !.beforeAt = at]
      BY DEF Result
    <2> QED BY <1>1, <2>1 DEF Result
  <1>3. B \in Seen /\ Nothing \in Advice
    BY DEF Seen, Target, Advice
  <1>4. RecoveryPlan(B) \in Advice
    BY <1>3, RecoveryAdvice
  <1>5. \/ judged = Fails(res, {"Precondition"}, Nothing)
        \/ judged = Fails(read, {"Precondition"}, RecoveryPlan(B))
        \/ judged = Fails(read, {"Precondition"}, Nothing)
        \/ judged = Fails(read, {"Interrupted"}, Nothing)
        \/ judged = read
    BY DEF Precondition
  <1>6. {"Precondition"} \in SUBSET Errors /\ {"Interrupted"} \in SUBSET Errors
    BY DEF Errors
  <1> HIDE DEF read, judged
  <1> QED BY <1>2, <1>3, <1>4, <1>5, <1>6, FailsResult DEF judged

\* A remote that cannot be read back is an error.
LEMMA UnreadableResult ==
  ASSUME NEW res \in Result, NEW req \in Request, NEW p \in Pushed
  PROVE  /\ Unreadable(res, req, p) \in Result
         /\ Unreadable(res, req, p).err # {}
         /\ Unreadable(res, req, p).beforeAt = res.beforeAt
  <1> DEFINE err == {"Unknown"} \union (IF p.interrupted THEN {"Interrupted"}
                                        ELSE IF req = Restore THEN {"RestoreFailed"} ELSE {})
  <1>1. err \in SUBSET Errors /\ err # {}
    BY DEF Errors
  <1>2. RecoveryPlan(Nothing) \in Advice
    BY RecoveryAdvice DEF Seen
  <1>3. Unreadable(res, req, p) = Fails(res, err, RecoveryPlan(Nothing))
    BY DEF Unreadable
  <1> HIDE DEF err
  <1> QED BY <1>1, <1>2, <1>3, FailsResult

\* Where the new target was read back, only a confirmed push is no error.
LEMMA ReachedResult ==
  ASSUME NEW res \in Result, NEW req \in Request, NEW p \in Pushed
  PROVE  LET reached == Reached(res, req, p) IN
         /\ reached \in Result
         /\ reached.beforeAt = res.beforeAt /\ reached.afterAt = res.afterAt
         /\ reached.err = {} => p.confirmed
  <1> DEFINE guidance == IF req.new = B THEN RecoveryPlan(B) ELSE Nothing
             verified == [res EXCEPT !.verified = TRUE]
             reached  == Reached(res, req, p)
  <1>1. guidance \in Advice
    <2>1. RecoveryPlan(B) \in Advice
      BY RecoveryAdvice DEF Seen, Target
    <2> QED BY <2>1 DEF Advice
  <1>2. /\ verified \in Result /\ verified.beforeAt = res.beforeAt
        /\ verified.afterAt = res.afterAt
    BY DEF Result
  <1>3. \/ reached = Fails(verified, {"Interrupted"}, guidance)
        \/ reached = Fails(verified, {"Unconfirmed"}, guidance)
        \/ reached = verified /\ p.confirmed
    BY DEF Reached, Pushed
  <1>4. {"Interrupted"} \in SUBSET Errors /\ {"Unconfirmed"} \in SUBSET Errors
    BY DEF Errors
  <1> HIDE DEF guidance, verified, reached
  <1>5. /\ reached \in Result
        /\ reached.beforeAt = res.beforeAt /\ reached.afterAt = res.afterAt
        /\ reached.err = {} => p.confirmed
    BY <1>1, <1>2, <1>3, <1>4, FailsResult
  <1> QED BY <1>5 DEF reached

\* Where the old target was read back there is always an error.
LEMMA UnmovedResult ==
  ASSUME NEW res \in Result, NEW req \in Request, NEW p \in Pushed
  PROVE  LET unmoved == Unmoved(res, req, p) IN
         /\ unmoved \in Result
         /\ unmoved.beforeAt = res.beforeAt /\ unmoved.afterAt = res.afterAt
         /\ unmoved.err # {}
  <1> DEFINE guidance == RecoveryPlan(res.after)
             unmoved  == Unmoved(res, req, p)
  <1>1. guidance \in Advice /\ Nothing \in Advice
    BY RecoveryAdvice DEF Result, Advice
  <1>2. PICK err \in SUBSET Errors :
          err # {} /\ (unmoved = Fails(res, err, guidance) \/ unmoved = Fails(res, err, Nothing))
    <2>1. \/ unmoved = Fails(res, {"Interrupted",
                                   IF req = Install THEN "Unknown" ELSE "RestoreFailed"}, guidance)
          \/ unmoved = Fails(res, {"RestoreFailed"}, guidance)
          \/ unmoved = Fails(res, {"Failed"}, Nothing)
      BY DEF Unmoved
    <2>2. {"Interrupted", IF req = Install THEN "Unknown" ELSE "RestoreFailed"} \in SUBSET Errors
      BY DEF Errors
    <2>3. {"RestoreFailed"} \in SUBSET Errors /\ {"Failed"} \in SUBSET Errors
      BY DEF Errors
    <2> HIDE DEF unmoved, guidance
    <2>4. CASE unmoved = Fails(res, {"RestoreFailed"}, guidance)
      BY <2>3, <2>4
    <2>5. CASE unmoved = Fails(res, {"Failed"}, Nothing)
      BY <2>3, <2>5
    <2>6. CASE unmoved = Fails(res, {"Interrupted",
                                     IF req = Install THEN "Unknown" ELSE "RestoreFailed"}, guidance)
      BY <2>2, <2>6
    <2> QED BY <2>1, <2>4, <2>5, <2>6
  <1> HIDE DEF unmoved, guidance
  <1>3. /\ unmoved \in Result
        /\ unmoved.beforeAt = res.beforeAt /\ unmoved.afterAt = res.afterAt
        /\ unmoved.err # {}
    BY <1>1, <1>2, FailsResult
  <1> QED BY <1>3 DEF unmoved

\* The judgement after the push finds no error only behind a confirmed push.
LEMMA JudgeResult ==
  ASSUME NEW res \in Result, NEW req \in Request, NEW p \in Pushed,
         NEW topology \in Answer, NEW at \in Nat
  PROVE  LET judged == Judge(res, req, p, topology, at) IN
         /\ judged \in Result
         /\ judged.beforeAt = res.beforeAt /\ judged.afterAt = at
         /\ judged.err = {} => p.confirmed
  <1> DEFINE read   == [res EXCEPT !.after = topology.v1, !.afterAt = at]
             judged == Judge(res, req, p, topology, at)
             err    == {"Concurrent"} \union (IF p.interrupted THEN {"Interrupted"} ELSE {})
  <1>1. read \in Result /\ read.beforeAt = res.beforeAt /\ read.afterAt = at
    <2>1. topology.v1 \in Seen
      BY DEF Answer
    <2>2. read = [[res EXCEPT !.after = topology.v1] EXCEPT !.afterAt = at]
      BY DEF Result
    <2> QED BY <2>1, <2>2 DEF Result
  <1>2. RecoveryPlan(topology.v1) \in Advice
    BY RecoveryAdvice DEF Answer
  <1>3. err \in SUBSET Errors /\ err # {}
    BY DEF Errors
  <1>4. \/ judged = Reached(read, req, p)
        \/ judged = Unmoved(read, req, p)
        \/ judged = Fails(read, err, RecoveryPlan(topology.v1))
    BY DEF Judge
  <1> HIDE DEF read, judged, err
  <1>5. /\ judged \in Result
        /\ judged.beforeAt = res.beforeAt /\ judged.afterAt = at
        /\ judged.err = {} => p.confirmed
    BY <1>1, <1>2, <1>3, <1>4, ReachedResult, UnmovedResult, FailsResult
  <1> QED BY <1>5 DEF judged

\* Only the absence of errors is recorded as a confirmed move: every error has
\* its outcome.
LEMMA ConfirmedOutcome ==
  ASSUME NEW err \in SUBSET Errors, ClassifyTagMoveOutcome(err) = "CONFIRMED_APPLIED"
  PROVE  err = {}
  <1> SUFFICES ASSUME err # {} PROVE FALSE
    OBVIOUS
  <1> DEFINE First(k) == /\ Outcomes[k][1] \in err
                         /\ \A j \in 1 .. (k - 1) : Outcomes[j][1] \notin err
  <1>1. DOMAIN Outcomes = 1 .. 7
    BY DEF Outcomes
  <1>2. /\ Outcomes[1][1] = "Unconfirmed" /\ Outcomes[2][1] = "Concurrent"
        /\ Outcomes[3][1] = "Unknown" /\ Outcomes[4][1] = "RestoreFailed"
        /\ Outcomes[5][1] = "Interrupted" /\ Outcomes[6][1] = "Precondition"
        /\ Outcomes[7][1] = "Failed"
    BY DEF Outcomes
  <1>3. \E k \in DOMAIN Outcomes : First(k)
    <2> DEFINE In(k) == Outcomes[k][1] \in err
    <2>1. In(1) \/ In(2) \/ In(3) \/ In(4) \/ In(5) \/ In(6) \/ In(7)
      BY <1>2 DEF Errors
    <2>2. \A k \in 1 .. 7 : In(k) /\ (\A j \in 1 .. (k - 1) : ~In(j)) => First(k)
      OBVIOUS
    <2> HIDE DEF In, First
    <2>3. \E k \in 1 .. 7 : In(k) /\ \A j \in 1 .. (k - 1) : ~In(j)
      BY <2>1
    <2> QED BY <1>1, <2>2, <2>3
  <1> DEFINE i == CHOOSE k \in DOMAIN Outcomes : First(k)
  <1>4. i \in DOMAIN Outcomes
    BY <1>3
  <1>5. ClassifyTagMoveOutcome(err) = Outcomes[i][2]
    BY DEF ClassifyTagMoveOutcome
  <1>6. \A k \in 1 .. 7 : Outcomes[k][2] # "CONFIRMED_APPLIED"
    BY DEF Outcomes
  <1> HIDE DEF i
  <1> QED BY <1>1, <1>4, <1>5, <1>6

-----------------------------------------------------------------------------
(* The invariant behind a confirmed record.                                *)

Steps == {"idle", "local", "read", "verify", "push", "sent", "readback", "judge",
          "encode", "ended", "dead"}

TypeOK ==
  /\ remote \in [v1 : Target, fixed : BOOLEAN]
  /\ clock \in Nat
  /\ pc \in [Move -> Steps]
  /\ request \in [Move -> Request]
  /\ cancelled \in [Move -> BOOLEAN]
  /\ wire \in [Move -> {"none", "sent", "applied", "uptodate", "rejected"}]
  /\ seen \in [Move -> Answer]
  /\ push \in [Move -> Pushed]
  /\ result \in [Move -> Result]
  /\ pushedAt \in [Move -> Nat]
  /\ DOMAIN record = Move /\ record = [i \in Move |-> record[i]]

\* Nothing is dated in the future.
PastInv ==
  \A i \in Move : result[i].beforeAt <= clock /\ pushedAt[i] <= clock

\* A push is sent once, after the first reading, and is only confirmed when the
\* remote applied it after that reading.
WireInv ==
  \A i \in Move :
    /\ pc[i] \in {"idle", "local", "read", "verify", "push"} => wire[i] = "none"
    /\ wire[i] = "applied" => result[i].beforeAt <= pushedAt[i]
    /\ push[i].confirmed => wire[i] = "applied" /\ pc[i] \in {"readback", "judge"}

\* What a result without errors proves.
ResultInv ==
  \A i \in Move :
    pc[i] = "encode" /\ result[i].err = {} =>
      wire[i] = "applied" /\ pushedAt[i] <= result[i].afterAt

Inv == TypeOK /\ PastInv /\ WireInv /\ ResultInv /\ ConfirmedMeansMoved

\* The invariant holds before the first move.
LEMMA InitInv == Init => Inv
  <1> SUFFICES ASSUME Init PROVE Inv
    OBVIOUS
  <1>1. NoResult \in Result /\ NoResult.beforeAt = 0
    BY DEF NoResult, Result, Seen, Advice
  <1>2. NoTopology \in Answer /\ NoPush \in Pushed /\ ~NoPush.confirmed
    BY DEF NoTopology, NoPush, Answer, Pushed, Seen
  <1>3. TypeOK
    BY <1>1, <1>2 DEF Init, TypeOK, Steps, Request, Target
  <1>4. PastInv /\ WireInv /\ ResultInv
    BY <1>1, <1>2 DEF Init, PastInv, WireInv, ResultInv
  <1>5. ConfirmedMeansMoved
    BY DEF Init, ConfirmedMeansMoved
  <1> QED BY <1>3, <1>4, <1>5 DEF Inv

\* A confirmed record stays true while the push it rests on stays applied.
LEMMA ConfirmedStays ==
  ASSUME Inv, record' = record,
         \A i \in Move : wire[i] = "applied" => wire'[i] = "applied" /\ pushedAt'[i] = pushedAt[i]
  PROVE  ConfirmedMeansMoved'
  BY DEF Inv, ConfirmedMeansMoved

\* A new reading of the clock is not earlier.
LEMMA ReadingsForward ==
  ASSUME Inv, NEW now \in Readings
  PROVE  now \in Nat /\ clock <= now
  BY DEF Inv, TypeOK, Readings, Time

\* What a move starts from has the types of its variables.
LEMMA NoPushTypes ==
  /\ NoTopology \in Answer /\ NoPush \in Pushed /\ ~NoPush.confirmed
  /\ NoResult \in Result /\ NoResult.beforeAt = 0
  BY DEF NoTopology, NoPush, NoResult, Answer, Pushed, Seen, Result, Advice

\* What a return does to the types.
LEMMA ReturnedTypes ==
  ASSUME Inv, NEW i \in Move, Returned(i)
  PROVE  /\ cancelled' \in [Move -> BOOLEAN]
         /\ seen' \in [Move -> Answer]
         /\ push' \in [Move -> Pushed]
         /\ ~push'[i].confirmed
         /\ \A j \in Move \ {i} : push'[j] = push[j]
  BY NoPushTypes DEF Inv, TypeOK, Returned

\* A move begins, or is refused before it reads anything.
LEMMA ReserveInv ==
  ASSUME Inv, NEW i \in Move, Reserve(i) \/ ReserveFails(i)
  PROVE  Inv'
  <1>1. /\ pc[i] = "idle" /\ \E to \in {"local", "ended"} : pc' = [pc EXCEPT ![i] = to]
        /\ \E ask \in Request : request' \in {request, [request EXCEPT ![i] = ask]}
        /\ UNCHANGED <<remote, clock, cancelled, wire, seen, push, result, record, pushedAt>>
    BY DEF Reserve, ReserveFails, At, PlanV1Move, Request, env, history
  <1>2. TypeOK'
    BY <1>1 DEF Inv, TypeOK, Steps
  <1>3. PastInv' /\ WireInv' /\ ResultInv'
    BY <1>1 DEF Inv, TypeOK, PastInv, WireInv, ResultInv
  <1>4. ConfirmedMeansMoved'
    BY <1>1, ConfirmedStays
  <1> QED BY <1>2, <1>3, <1>4 DEF Inv

\* A step before the push keeps its result or ends with an error.
LEMMA BeforePushInv ==
  ASSUME Inv, NEW i \in Move, VerifyLocalPreconditions(i) \/ ReadBefore(i)
  PROVE  Inv'
  <1>1. PICK err \in SUBSET Errors :
          /\ err # {}
          /\ \/ UNCHANGED <<result, cancelled, push>>
                /\ \E to \in {"read", "verify"} : pc' = [pc EXCEPT ![i] = to]
             \/ /\ pc' = [pc EXCEPT ![i] = "encode"]
                /\ result' = [result EXCEPT ![i] = Fails(@, err, Nothing)]
                /\ Returned(i)
    <2>1. CASE VerifyLocalPreconditions(i)
      <3>1. \/ UNCHANGED <<result, cancelled, push>> /\ pc' = [pc EXCEPT ![i] = "read"]
            \/ \E e \in {"Precondition", "Interrupted"} :
                 /\ pc' = [pc EXCEPT ![i] = "encode"]
                 /\ result' = [result EXCEPT ![i] = Fails(@, {e}, Nothing)]
                 /\ Returned(i)
        BY <2>1 DEF VerifyLocalPreconditions, At
      <3>2. \A e \in {"Precondition", "Interrupted"} : {e} \in SUBSET Errors /\ {e} # {}
        BY DEF Errors
      <3> QED BY <3>1, <3>2
    <2>2. CASE ReadBefore(i)
      <3>1. \/ UNCHANGED <<result, cancelled, push>> /\ pc' = [pc EXCEPT ![i] = "verify"]
            \/ /\ pc' = [pc EXCEPT ![i] = "encode"]
               /\ result' = [result EXCEPT ![i] = Fails(@, {"Precondition"}, Nothing)]
               /\ Returned(i)
        BY <2>2 DEF ReadBefore, At
      <3>2. {"Precondition"} \in SUBSET Errors
        BY DEF Errors
      <3> QED BY <3>1, <3>2
    <2> QED BY <2>1, <2>2
  <1>2. /\ pc[i] \in {"local", "read"}
        /\ seen' \in [Move -> Answer]
        /\ UNCHANGED <<remote, clock, request, wire, record, pushedAt>>
    <2>1. /\ pc[i] \in {"local", "read"}
          /\ UNCHANGED <<remote, clock, request, wire, record, pushedAt>>
      BY DEF VerifyLocalPreconditions, ReadBefore, At, env, output, history
    <2>2. \/ seen' = seen
          \/ seen' = [seen EXCEPT ![i] = remote]
          \/ seen' = [seen EXCEPT ![i] = NoTopology]
      BY DEF VerifyLocalPreconditions, ReadBefore, Returned
    <2>3. remote \in Answer
      BY DEF Inv, TypeOK, Answer, Seen
    <2> QED BY <2>1, <2>2, <2>3, NoPushTypes DEF Inv, TypeOK
  <1>3. Fails(result[i], err, Nothing) \in Result
        /\ Fails(result[i], err, Nothing).err # {}
        /\ Fails(result[i], err, Nothing).beforeAt = result[i].beforeAt
    BY <1>1, FailsResult DEF Inv, TypeOK, Advice
  <1>4. TypeOK'
    BY <1>1, <1>2, <1>3, ReturnedTypes DEF Inv, TypeOK, Steps
  <1>5. \A j \in Move : result'[j].beforeAt = result[j].beforeAt
    BY <1>1, <1>3 DEF Inv, TypeOK
  <1>6. \A j \in Move : push'[j].confirmed => push[j].confirmed /\ j # i
    BY <1>1, <1>2, ReturnedTypes DEF Inv, TypeOK, WireInv
  <1>7. PastInv' /\ WireInv'
    BY <1>1, <1>2, <1>5, <1>6 DEF Inv, TypeOK, PastInv, WireInv
  <1>8. ResultInv'
    BY <1>1, <1>2, <1>3 DEF Inv, TypeOK, ResultInv
  <1>9. ConfirmedMeansMoved'
    BY <1>2, ConfirmedStays
  <1> QED BY <1>4, <1>7, <1>8, <1>9 DEF Inv

\* The first reading is dated, and lets the move go on or ends it.
LEMMA VerifyBeforeInv ==
  ASSUME Inv, NEW i \in Move, VerifyBefore(i)
  PROVE  Inv'
  <1>1. PICK now \in Readings :
          LET judged == Precondition(result[i], request[i], seen[i], now, cancelled[i]) IN
          /\ clock' = now
          /\ At(i, "verify", IF judged.err = {} THEN "push" ELSE "encode")
          /\ result' = [result EXCEPT ![i] = judged]
          /\ IF judged.err = {} THEN /\ seen' = [seen EXCEPT ![i] = NoTopology]
                                     /\ UNCHANGED <<cancelled, push>>
             ELSE Returned(i)
          /\ UNCHANGED <<remote, request, wire, record, pushedAt>>
    BY DEF VerifyBefore, output, history
  <1> DEFINE judged == Precondition(result[i], request[i], seen[i], now, cancelled[i])
  <1>2. now \in Nat /\ clock <= now
    BY ReadingsForward
  <1>3. judged \in Result /\ judged.beforeAt \in {result[i].beforeAt, now}
    BY <1>2, PreconditionResult DEF Inv, TypeOK
  <1>4. /\ pc[i] = "verify" /\ clock' = now /\ result' = [result EXCEPT ![i] = judged]
        /\ UNCHANGED <<remote, request, wire, record, pushedAt>>
        /\ \/ /\ pc' = [pc EXCEPT ![i] = "push"]
              /\ seen' = [seen EXCEPT ![i] = NoTopology]
              /\ UNCHANGED <<cancelled, push>>
           \/ /\ pc' = [pc EXCEPT ![i] = "encode"]
              /\ judged.err # {} /\ Returned(i)
    BY <1>1 DEF At
  <1> HIDE DEF judged
  <1>5. TypeOK'
    <2>1. /\ seen' \in [Move -> Answer] /\ cancelled' \in [Move -> BOOLEAN]
          /\ push' \in [Move -> Pushed]
      BY <1>4, NoPushTypes, ReturnedTypes DEF Inv, TypeOK
    <2>2. result' \in [Move -> Result] /\ pc' \in [Move -> Steps] /\ clock' \in Nat
      BY <1>2, <1>3, <1>4 DEF Inv, TypeOK, Steps
    <2> QED BY <1>4, <2>1, <2>2 DEF Inv, TypeOK
  <1>6. PastInv'
    <2>1. \A j \in Move : /\ result[j].beforeAt \in Nat /\ result[j].beforeAt <= clock
                          /\ pushedAt[j] \in Nat /\ pushedAt[j] <= clock
      BY DEF Inv, TypeOK, PastInv, Result
    <2>2. \A j \in Move : result'[j].beforeAt \in {result[j].beforeAt, now}
      BY <1>3, <1>4 DEF Inv, TypeOK
    <2>3. clock \in Nat
      BY DEF Inv, TypeOK
    <2> QED BY <1>2, <1>4, <2>1, <2>2, <2>3 DEF PastInv
  <1>7. \A j \in Move : push'[j].confirmed => push[j].confirmed /\ j # i
    BY <1>4, ReturnedTypes DEF Inv, TypeOK, WireInv
  <1>8. WireInv'
    BY <1>4, <1>7 DEF Inv, TypeOK, WireInv
  <1>9. ResultInv'
    BY <1>4 DEF Inv, TypeOK, ResultInv
  <1>10. ConfirmedMeansMoved'
    BY <1>4, ConfirmedStays
  <1> QED BY <1>5, <1>6, <1>8, <1>9, <1>10 DEF Inv

\* The push is sent, is not sent, or returns.
LEMMA PushInv ==
  ASSUME Inv, NEW i \in Move, SendPush(i) \/ PushNotSent(i) \/ PushReturns(i)
  PROVE  Inv'
  <1>1. CASE SendPush(i)
    <2>1. /\ pc[i] = "push" /\ pc' = [pc EXCEPT ![i] = "sent"]
          /\ wire' = [wire EXCEPT ![i] = "sent"] /\ wire[i] = "none"
          /\ UNCHANGED <<remote, clock, request, cancelled, seen, push, result, record, pushedAt>>
      BY <1>1 DEF SendPush, At, env, output, history, Inv, WireInv
    <2>2. TypeOK'
      BY <2>1 DEF Inv, TypeOK, Steps
    <2>3. PastInv' /\ WireInv' /\ ResultInv'
      BY <2>1 DEF Inv, TypeOK, PastInv, WireInv, ResultInv
    <2>4. ConfirmedMeansMoved'
      BY <2>1, ConfirmedStays DEF Inv, TypeOK
    <2> QED BY <2>2, <2>3, <2>4 DEF Inv
  <1>2. CASE PushNotSent(i) \/ PushReturns(i)
    <2>1. PICK p \in Pushed :
            /\ push' = [push EXCEPT ![i] = p]
            /\ p.confirmed => wire[i] = "applied"
      <3>1. CASE PushNotSent(i)
        <4> DEFINE p == [err |-> TRUE, confirmed |-> FALSE, interrupted |-> cancelled[i]]
        <4>1. p \in Pushed /\ ~p.confirmed
          BY DEF Pushed, Inv, TypeOK
        <4>2. push' = [push EXCEPT ![i] = p]
          BY <3>1 DEF PushNotSent
        <4> HIDE DEF p
        <4> QED BY <4>1, <4>2
      <3>2. CASE PushReturns(i)
        <4>1. PICK err, confirmed \in BOOLEAN :
                /\ confirmed => wire[i] = "applied"
                /\ push' = [push EXCEPT ![i] =
                     [err |-> err, confirmed |-> confirmed, interrupted |-> cancelled[i]]]
          BY <3>2 DEF PushReturns, ExactPushWasApplied
        <4> DEFINE p == [err |-> err, confirmed |-> confirmed, interrupted |-> cancelled[i]]
        <4>2. p \in Pushed /\ p.confirmed = confirmed
          BY DEF Pushed, Inv, TypeOK
        <4>3. push' = [push EXCEPT ![i] = p]
          BY <4>1
        <4> HIDE DEF p
        <4> QED BY <4>1, <4>2, <4>3
      <3> QED BY <1>2, <3>1, <3>2
    <2>2. /\ pc[i] \in {"push", "sent"} /\ pc' = [pc EXCEPT ![i] = "readback"]
          /\ UNCHANGED <<remote, clock, request, cancelled, wire, seen, result, record, pushedAt>>
      BY <1>2 DEF PushNotSent, PushReturns, At, env, output, history
    <2>3. TypeOK'
      BY <2>1, <2>2 DEF Inv, TypeOK, Steps
    <2>4. PastInv' /\ WireInv' /\ ResultInv'
      BY <2>1, <2>2 DEF Inv, TypeOK, PastInv, WireInv, ResultInv
    <2>5. ConfirmedMeansMoved'
      BY <2>2, ConfirmedStays
    <2> QED BY <2>3, <2>4, <2>5 DEF Inv
  <1> QED BY <1>1, <1>2

\* The remote is read back, or cannot be.
LEMMA ReadAfterInv ==
  ASSUME Inv, NEW i \in Move, ReadAfter(i)
  PROVE  Inv'
  <1>1. /\ pc[i] = "readback"
        /\ UNCHANGED <<remote, clock, request, wire, record, pushedAt>>
    BY DEF ReadAfter, At, env, output, history
  <1>2. CASE pc' = [pc EXCEPT ![i] = "judge"] /\ seen' = [seen EXCEPT ![i] = remote]
             /\ UNCHANGED <<result, cancelled, push>>
    <2>1. remote \in Answer
      BY DEF Inv, TypeOK, Answer, Seen
    <2>2. TypeOK'
      BY <1>1, <1>2, <2>1 DEF Inv, TypeOK, Steps
    <2>3. PastInv' /\ WireInv' /\ ResultInv'
      BY <1>1, <1>2 DEF Inv, TypeOK, PastInv, WireInv, ResultInv
    <2>4. ConfirmedMeansMoved'
      BY <1>1, ConfirmedStays
    <2> QED BY <2>2, <2>3, <2>4 DEF Inv
  <1>3. CASE /\ pc' = [pc EXCEPT ![i] = "encode"] /\ Returned(i)
             /\ result' = [result EXCEPT ![i] = Unreadable(@, request[i], push[i])]
    <2> DEFINE unread == Unreadable(result[i], request[i], push[i])
    <2>1. unread \in Result /\ unread.err # {} /\ unread.beforeAt = result[i].beforeAt
      <3>1. result[i] \in Result /\ request[i] \in Request /\ push[i] \in Pushed
        BY DEF Inv, TypeOK
      <3> QED BY <3>1, UnreadableResult
    <2>2. result' = [result EXCEPT ![i] = unread]
      BY <1>3
    <2> HIDE DEF unread
    <2>3. TypeOK'
      BY <1>1, <1>3, <2>1, <2>2, ReturnedTypes DEF Inv, TypeOK, Steps
    <2>4. \A j \in Move : result'[j].beforeAt = result[j].beforeAt
      BY <2>1, <2>2 DEF Inv, TypeOK
    <2>5. \A j \in Move : push'[j].confirmed => push[j].confirmed /\ j # i
      BY <1>3, ReturnedTypes
    <2>6. PastInv' /\ WireInv'
      BY <1>1, <1>3, <2>4, <2>5 DEF Inv, TypeOK, PastInv, WireInv
    <2>7. ResultInv'
      BY <1>1, <1>3, <2>1, <2>2 DEF Inv, TypeOK, ResultInv
    <2>8. ConfirmedMeansMoved'
      BY <1>1, ConfirmedStays
    <2> QED BY <2>3, <2>6, <2>7, <2>8 DEF Inv
  <1> QED BY <1>2, <1>3 DEF ReadAfter, At

\* What was read back is dated and judged.
LEMMA JudgeAfterInv ==
  ASSUME Inv, NEW i \in Move, JudgeAfter(i)
  PROVE  Inv'
  <1>1. PICK now \in Readings :
          /\ clock' = now
          /\ result' = [result EXCEPT ![i] = Judge(@, request[i], push[i], seen[i], now)]
    BY DEF JudgeAfter
  <1> DEFINE judged == Judge(result[i], request[i], push[i], seen[i], now)
  <1>2. /\ pc[i] = "judge" /\ pc' = [pc EXCEPT ![i] = "encode"] /\ Returned(i)
        /\ UNCHANGED <<remote, request, wire, record, pushedAt>>
    BY DEF JudgeAfter, At, output, history
  <1>3. now \in Nat /\ clock <= now
    BY ReadingsForward
  <1>4. /\ judged \in Result
        /\ judged.beforeAt = result[i].beforeAt /\ judged.afterAt = now
        /\ judged.err = {} => push[i].confirmed
    <2>1. /\ result[i] \in Result /\ request[i] \in Request /\ push[i] \in Pushed
          /\ seen[i] \in Answer
      BY DEF Inv, TypeOK
    <2> QED BY <1>3, <2>1, JudgeResult
  <1>5. result' = [result EXCEPT ![i] = judged]
    BY <1>1
  <1> HIDE DEF judged
  <1>6. TypeOK'
    BY <1>1, <1>2, <1>3, <1>4, <1>5, ReturnedTypes DEF Inv, TypeOK, Steps
  <1>7. \A j \in Move : /\ result'[j].beforeAt = result[j].beforeAt
                        /\ result[j].beforeAt \in Nat /\ result[j].beforeAt <= clock
                        /\ pushedAt[j] \in Nat /\ pushedAt[j] <= clock /\ clock \in Nat
    BY <1>4, <1>5 DEF Inv, TypeOK, PastInv, Result
  <1>8. PastInv'
    BY <1>1, <1>2, <1>3, <1>7 DEF PastInv
  <1>9. \A j \in Move : push'[j].confirmed => push[j].confirmed /\ j # i
    BY <1>2, ReturnedTypes
  <1>10. WireInv'
    BY <1>2, <1>7, <1>9 DEF Inv, TypeOK, WireInv
  <1>11. ResultInv'
    <2>1. push[i].confirmed => wire[i] = "applied"
      BY DEF Inv, WireInv
    <2>2. result'[i].err = {} => wire[i] = "applied" /\ pushedAt[i] <= result'[i].afterAt
      BY <1>3, <1>4, <1>5, <1>7, <2>1 DEF Inv, TypeOK
    <2>3. \A j \in Move \ {i} : pc'[j] = pc[j] /\ result'[j] = result[j]
      BY <1>2, <1>5 DEF Inv, TypeOK
    <2> QED BY <1>2, <2>2, <2>3 DEF Inv, ResultInv
  <1>12. ConfirmedMeansMoved'
    BY <1>2, ConfirmedStays
  <1> QED BY <1>6, <1>8, <1>10, <1>11, <1>12 DEF Inv

\* A record that is written as confirmed has a result without errors.
LEMMA WriteRecordInv ==
  ASSUME Inv, NEW i \in Move, WriteRecord(i)
  PROVE  Inv'
  <1> DEFINE rec == EncodeTagMoveRecord(request[i], result[i], clock)
  <1>1. /\ pc[i] = "encode" /\ pc' = [pc EXCEPT ![i] = "ended"]
        /\ record' \in {record, [record EXCEPT ![i] = rec]}
        /\ UNCHANGED <<remote, clock, request, cancelled, wire, seen, push, result, pushedAt>>
    BY DEF WriteRecord, At, env, history
  <1>2. /\ rec.beforeAt = result[i].beforeAt /\ rec.afterAt = result[i].afterAt
        /\ rec.outcome = ClassifyTagMoveOutcome(result[i].err)
    BY DEF EncodeTagMoveRecord
  <1> HIDE DEF rec
  <1>3. TypeOK'
    BY <1>1 DEF Inv, TypeOK, Steps
  <1>4. PastInv' /\ WireInv' /\ ResultInv'
    BY <1>1 DEF Inv, TypeOK, PastInv, WireInv, ResultInv
  <1>5. rec.outcome = "CONFIRMED_APPLIED" =>
          /\ wire[i] = "applied"
          /\ rec.beforeAt <= pushedAt[i] /\ pushedAt[i] <= rec.afterAt
    <2>1. result[i].err \in SUBSET Errors
      BY DEF Inv, TypeOK, Result
    <2>2. rec.outcome = "CONFIRMED_APPLIED" => result[i].err = {}
      BY <1>2, <2>1, ConfirmedOutcome
    <2> QED BY <1>1, <1>2, <2>2 DEF Inv, ResultInv, WireInv
  <1>6. ConfirmedMeansMoved'
    <2>1. \A j \in Move : record'[j] = record[j] \/ (j = i /\ record'[j] = rec)
      BY <1>1 DEF Inv, TypeOK
    <2> QED BY <1>1, <1>5, <2>1 DEF Inv, ConfirmedMeansMoved
  <1> QED BY <1>3, <1>4, <1>6 DEF Inv

\* The remote takes a push at most once, not before it was sent.
LEMMA RemoteReceivesInv ==
  ASSUME Inv, NEW i \in Move, RemoteReceives(i)
  PROVE  Inv'
  <1>1. /\ wire[i] = "sent"
        /\ UNCHANGED <<clock, pc, request, cancelled, seen, push, result, record>>
    BY DEF RemoteReceives, env, output
  <1>2. \/ /\ wire' = [wire EXCEPT ![i] = "applied"]
           /\ remote' = [remote EXCEPT !.v1 = request[i].new]
           /\ pushedAt' = [pushedAt EXCEPT ![i] = clock]
        \/ /\ \E answer \in {"uptodate", "rejected"} : wire' = [wire EXCEPT ![i] = answer]
           /\ UNCHANGED <<remote, pushedAt>>
    BY DEF RemoteReceives, history
  <1>3. request[i].new \in Target
    BY DEF Inv, TypeOK, Request, Install, Restore, Target
  <1>4. TypeOK'
    BY <1>1, <1>2, <1>3 DEF Inv, TypeOK
  <1>5. pc[i] \notin {"idle", "local", "read", "verify", "push"} /\ ~push[i].confirmed
    BY <1>1 DEF Inv, WireInv
  <1>6. \A j \in Move : j # i => wire'[j] = wire[j] /\ pushedAt'[j] = pushedAt[j]
    BY <1>2 DEF Inv, TypeOK
  <1>7. pushedAt'[i] \in {pushedAt[i], clock} /\ (wire'[i] = "applied" => pushedAt'[i] = clock)
    BY <1>1, <1>2 DEF Inv, TypeOK
  <1>8. \A j \in Move : result[j].beforeAt <= clock /\ pushedAt[j] <= clock /\ clock \in Nat
    BY DEF Inv, PastInv, TypeOK
  <1>9. PastInv'
    BY <1>1, <1>6, <1>7, <1>8 DEF PastInv
  <1>10. WireInv'
    BY <1>1, <1>5, <1>6, <1>7, <1>8 DEF Inv, WireInv
  <1>11. ResultInv'
    BY <1>1, <1>6 DEF Inv, ResultInv
  <1>12. ConfirmedMeansMoved'
    BY <1>1, <1>6, ConfirmedStays
  <1> QED BY <1>4, <1>9, <1>10, <1>11, <1>12 DEF Inv

\* The operator stops a move, or its process dies.
LEMMA StopInv ==
  ASSUME Inv, NEW i \in Move, Interrupt(i) \/ Kill(i)
  PROVE  Inv'
  <1>1. CASE Interrupt(i)
    <2>1. /\ cancelled' = [cancelled EXCEPT ![i] = TRUE]
          /\ UNCHANGED <<remote, clock, pc, request, wire, seen, push, result, record, pushedAt>>
      BY <1>1 DEF Interrupt, output, history
    <2>2. TypeOK'
      BY <2>1 DEF Inv, TypeOK
    <2>3. PastInv' /\ WireInv' /\ ResultInv'
      BY <2>1 DEF Inv, PastInv, WireInv, ResultInv
    <2>4. ConfirmedMeansMoved'
      BY <2>1, ConfirmedStays
    <2> QED BY <2>2, <2>3, <2>4 DEF Inv
  <1>2. CASE Kill(i)
    <2>1. /\ pc' = [pc EXCEPT ![i] = "dead"] /\ Returned(i)
          /\ result' = [result EXCEPT ![i] = NoResult]
          /\ UNCHANGED <<remote, clock, request, wire, record, pushedAt>>
      BY <1>2 DEF Kill, output, history
    <2>2. TypeOK'
      BY <2>1, NoPushTypes, ReturnedTypes DEF Inv, TypeOK, Steps
    <2>3. \A j \in Move : push'[j].confirmed => push[j].confirmed /\ j # i
      BY <2>1, ReturnedTypes
    <2>4. \A j \in Move : /\ result'[j].beforeAt \in {0, result[j].beforeAt}
                          /\ pushedAt[j] \in Nat /\ clock \in Nat
      BY <2>1, NoPushTypes DEF Inv, TypeOK
    <2>5. PastInv' /\ WireInv'
      BY <2>1, <2>3, <2>4 DEF Inv, TypeOK, PastInv, WireInv
    <2>6. ResultInv'
      BY <2>1 DEF Inv, TypeOK, ResultInv
    <2>7. ConfirmedMeansMoved'
      BY <2>1, ConfirmedStays
    <2> QED BY <2>2, <2>5, <2>6, <2>7 DEF Inv
  <1> QED BY <1>1, <1>2

moves == <<clock, pc, request, cancelled, wire, seen, push, result, record, pushedAt>>

\* A step that changes no move changes at most the remote.
LEMMA IdleInv ==
  ASSUME Inv, UNCHANGED moves, remote' \in [v1 : Target, fixed : BOOLEAN]
  PROVE  Inv'
  BY DEF moves, Inv, TypeOK, PastInv, WireInv, ResultInv, ConfirmedMeansMoved

\* Somebody else changes the remote.
LEMMA ForeignInv ==
  ASSUME Inv, ForeignChange
  PROVE  Inv'
  <1>1. UNCHANGED moves
    BY DEF ForeignChange, Foreign, moves, output, derived
  <1>2. \/ \E target \in Target : remote' = [remote EXCEPT !.v1 = target]
        \/ remote' = [remote EXCEPT !.fixed = ~@]
    BY DEF ForeignChange
  <1>3. remote' \in [v1 : Target, fixed : BOOLEAN]
    BY <1>2 DEF Inv, TypeOK
  <1> QED BY <1>1, <1>3, IdleInv

\* Every step keeps the invariant.
LEMMA StepInv == Inv /\ [Next]_vars => Inv'
  <1> SUFFICES ASSUME Inv, [Next]_vars PROVE Inv'
    OBVIOUS
  <1>1. ASSUME NEW i \in Move, Step(i) PROVE Inv'
    BY <1>1, ReserveInv, BeforePushInv, VerifyBeforeInv, PushInv, ReadAfterInv, JudgeAfterInv,
       WriteRecordInv DEF Step
  <1>2. ASSUME NEW i \in Move, Interrupt(i) \/ Kill(i) \/ RemoteReceives(i) PROVE Inv'
    BY <1>2, StopInv, RemoteReceivesInv
  <1>3. CASE ForeignChange
    BY <1>3, ForeignInv
  <1>4. CASE \/ WorktreeChange \/ PublishObservations \/ UNCHANGED vars
             \/ \E i, r \in Move : GeneratePackInput(i, r) \/ RenderPack(i, r)
    <2>1. UNCHANGED <<moves, remote>>
      BY <1>4 DEF WorktreeChange, Foreign, PublishObservations, GeneratePackInput, RenderPack,
                  vars, env, output, history, derived, moves
    <2> QED BY <2>1, IdleInv DEF Inv, TypeOK
  <1> QED BY <1>1, <1>2, <1>3, <1>4 DEF Next

\* A move recorded as CONFIRMED_APPLIED was applied by its own push, between
\* its two observations.
THEOREM ConfirmedTheorem == Spec => []ConfirmedMeansMoved
  <1>1. Inv => ConfirmedMeansMoved
    BY DEF Inv
  <1> QED BY <1>1, InitInv, StepInv, PTL DEF Spec

-----------------------------------------------------------------------------
(* The pack input.                                                         *)

\* Records carry the dates of what they observed.
DatesInv ==
  \A i \in Move : record[i] # Nothing => record[i].beforeAt \in Nat /\ record[i].afterAt \in Nat

\* The applied pushes have one place each, in the order of their time.
OrderInv ==
  /\ order \in Seq(Move)
  /\ \A i \in Move : wire[i] = "applied" <=> \E k \in DOMAIN order : order[k] = i
  /\ \A j, k \in DOMAIN order :
       j < k => order[j] # order[k] /\ pushedAt[order[j]] <= pushedAt[order[k]]

\* A pack input has an applied install before an applied restore, inside its
\* window.
DerivedInv ==
  /\ packInput # Nothing =>
       LET i == packInput.install
           r == packInput.restore
       IN /\ i \in Move /\ r \in Move
          /\ wire[i] = "applied" /\ wire[r] = "applied"
          /\ pushedAt[i] < pushedAt[r]
          /\ packInput.before <= pushedAt[i] /\ pushedAt[i] <= packInput.during
          /\ pushedAt[r] <= packInput.after /\ packInput.after <= packInput.createdAt
  /\ pack # Nothing => packInput # Nothing /\ {pack[1], pack[2]} \subseteq published

Derivation == Inv /\ DatesInv /\ OrderInv /\ DerivedInv

\* No push has been applied at the beginning.
LEMMA InitDerivation == Init => Derivation
  <1> SUFFICES ASSUME Init PROVE Derivation
    OBVIOUS
  <1>1. Inv
    BY InitInv
  <1>2. DatesInv /\ DerivedInv
    BY DEF Init, DatesInv, DerivedInv
  <1>3. OrderInv
    BY DEF Init, OrderInv
  <1> QED BY <1>1, <1>2, <1>3 DEF Derivation

\* A step that applies no push, writes no record and derives nothing.
Quiet ==
  /\ UNCHANGED <<record, order, pushedAt, derived>>
  /\ \A i \in Move : wire'[i] = "applied" <=> wire[i] = "applied"

\* A quiet step keeps the places, the dates and what was derived.
LEMMA QuietDerivation ==
  ASSUME Derivation, Inv', Quiet
  PROVE  Derivation'
  <1>1. DatesInv' /\ OrderInv'
    BY DEF Derivation, DatesInv, OrderInv, Quiet
  <1>2. DerivedInv'
    BY DEF Derivation, DerivedInv, Quiet, derived
  <1> QED BY <1>1, <1>2 DEF Derivation

\* The steps of a move, apart from writing its record, are quiet.
LEMMA StepQuiet ==
  ASSUME Inv, NEW i \in Move, Step(i), ~WriteRecord(i)
  PROVE  Quiet
  <1>1. CASE SendPush(i)
    <2>1. /\ wire' = [wire EXCEPT ![i] = "sent"] /\ wire[i] = "none"
          /\ UNCHANGED <<record, order, pushedAt, derived>>
      BY <1>1 DEF SendPush, At, output, history, Inv, WireInv
    <2> QED BY <2>1 DEF Quiet, Inv, TypeOK
  <1>2. CASE ~SendPush(i)
    <2>1. UNCHANGED <<wire, record, order, pushedAt, derived>>
      BY <1>2 DEF Step, Reserve, ReserveFails, VerifyLocalPreconditions, ReadBefore, VerifyBefore,
                  PushNotSent, PushReturns, ReadAfter, JudgeAfter, output, history
    <2> QED BY <2>1 DEF Quiet
  <1> QED BY <1>1, <1>2

\* An applied push takes the last place.
LEMMA AppliedDerivation ==
  ASSUME Derivation, Inv', NEW i \in Move, RemoteReceives(i)
  PROVE  Derivation'
  <1>1. wire[i] = "sent" /\ UNCHANGED <<record, derived>>
    BY DEF RemoteReceives, output
  <1>2. CASE UNCHANGED history
    <2>1. \E answer \in {"uptodate", "rejected", "applied"} : wire' = [wire EXCEPT ![i] = answer]
      BY DEF RemoteReceives
    <2>2. wire'[i] # "applied"
      <3>1. order' # Append(order, i)
        BY <1>2 DEF history, Derivation, OrderInv
      <3> QED BY <3>1 DEF RemoteReceives, Derivation, Inv, TypeOK
    <2>3. Quiet
      BY <1>1, <1>2, <2>1, <2>2 DEF Quiet, history, Derivation, Inv, TypeOK
    <2> QED BY <2>3, QuietDerivation
  <1>3. CASE /\ wire' = [wire EXCEPT ![i] = "applied"] /\ order' = Append(order, i)
             /\ pushedAt' = [pushedAt EXCEPT ![i] = clock]
    <2>1. \A j \in Move : j # i => wire'[j] = wire[j] /\ pushedAt'[j] = pushedAt[j]
      BY <1>3 DEF Derivation, Inv, TypeOK
    <2>2. wire'[i] = "applied" /\ pushedAt'[i] = clock
      BY <1>3 DEF Derivation, Inv, TypeOK
    <2>3. /\ order \in Seq(Move) /\ order' \in Seq(Move)
          /\ Len(order') = Len(order) + 1 /\ order'[Len(order) + 1] = i
          /\ \A k \in 1 .. Len(order) : order'[k] = order[k] /\ order[k] \in Move
      BY <1>3 DEF Derivation, OrderInv
    <2>4. DOMAIN order = 1 .. Len(order) /\ DOMAIN order' = 1 .. (Len(order) + 1)
          /\ Len(order) \in Nat
      BY <2>3
    <2>5. \A k \in DOMAIN order : order[k] # i /\ pushedAt'[order[k]] <= clock
      <3>1. \A k \in DOMAIN order : wire[order[k]] = "applied" /\ order[k] \in Move
        BY <2>3, <2>4 DEF Derivation, OrderInv
      <3> QED BY <1>1, <2>1, <3>1 DEF Derivation, Inv, PastInv
    <2>6. OrderInv'
      <3>1. \A j \in Move : wire'[j] = "applied" <=> \E k \in DOMAIN order' : order'[k] = j
        <4>1. \A j \in Move \ {i} :
                wire'[j] = "applied" <=> \E k \in 1 .. Len(order) : order[k] = j
          BY <2>1, <2>4 DEF Derivation, OrderInv
        <4>2. \A j \in Move \ {i} :
                (\E k \in 1 .. Len(order) : order[k] = j)
                  <=> \E k \in 1 .. (Len(order) + 1) : order'[k] = j
          BY <2>3, <2>4
        <4> QED BY <2>2, <2>3, <2>4, <4>1, <4>2
      <3>2. ASSUME NEW j \in DOMAIN order', NEW k \in DOMAIN order', j < k
            PROVE  order'[j] # order'[k] /\ pushedAt'[order'[j]] <= pushedAt'[order'[k]]
        <4>1. j \in 1 .. Len(order) /\ order'[j] = order[j]
          BY <2>3, <2>4, <3>2
        <4>2. CASE k = Len(order) + 1
          BY <2>2, <2>3, <2>4, <2>5, <4>1, <4>2
        <4>3. CASE k # Len(order) + 1
          <5>1. k \in 1 .. Len(order) /\ order'[k] = order[k]
            BY <2>3, <2>4, <4>3
          <5>2. order[j] # order[k] /\ pushedAt[order[j]] <= pushedAt[order[k]]
            BY <2>4, <3>2, <4>1, <5>1 DEF Derivation, OrderInv
          <5>3. /\ pushedAt'[order[j]] = pushedAt[order[j]]
                /\ pushedAt'[order[k]] = pushedAt[order[k]]
            BY <2>1, <2>3, <2>4, <2>5, <4>1, <5>1
          <5> QED BY <4>1, <5>1, <5>2, <5>3
        <4> QED BY <4>2, <4>3
      <3> QED BY <2>3, <3>1, <3>2 DEF OrderInv
    <2>7. DatesInv'
      BY <1>1 DEF Derivation, DatesInv
    <2>8. DerivedInv'
      <3>1. packInput' = packInput /\ pack' = pack /\ published' = published
        BY <1>1 DEF derived
      <3> QED BY <1>1, <2>1, <3>1 DEF Derivation, DerivedInv
    <2> QED BY <2>6, <2>7, <2>8 DEF Derivation
  <1> QED BY <1>2, <1>3 DEF RemoteReceives

\* A record is written with the dates of its result.
LEMMA RecordDerivation ==
  ASSUME Derivation, Inv', NEW i \in Move, WriteRecord(i)
  PROVE  Derivation'
  <1> DEFINE rec == EncodeTagMoveRecord(request[i], result[i], clock)
  <1>1. /\ record' \in {record, [record EXCEPT ![i] = rec]}
        /\ UNCHANGED <<wire, order, pushedAt, derived>>
    BY DEF WriteRecord, history
  <1>2. rec.beforeAt \in Nat /\ rec.afterAt \in Nat
    BY DEF EncodeTagMoveRecord, Derivation, Inv, TypeOK, Result
  <1> HIDE DEF rec
  <1>3. DatesInv'
    BY <1>1, <1>2 DEF Derivation, Inv, TypeOK, DatesInv
  <1>4. OrderInv' /\ DerivedInv'
    BY <1>1 DEF Derivation, OrderInv, DerivedInv, derived
  <1> QED BY <1>3, <1>4 DEF Derivation

\* Two records that pass the derivation's checks have their pushes in order.
LEMMA GenerateDerivation ==
  ASSUME Derivation, Inv', NEW i \in Move, NEW r \in Move, GeneratePackInput(i, r)
  PROVE  Derivation'
  <1> DEFINE input == [install |-> i, restore |-> r,
                       before |-> record[i].beforeAt, during |-> record[i].afterAt,
                       after |-> record[r].afterAt, createdAt |-> clock]
  <1>1. /\ packInput' = input /\ packInput = Nothing
        /\ ClosedDerivationInputs(record[i], record[r], clock)
        /\ UNCHANGED <<wire, record, order, pushedAt, published, pack>>
    BY DEF GeneratePackInput, env, output, history
  <1>2. record[i] # Nothing /\ record[r] # Nothing
    BY DEF GeneratePackInput
  <1>3. /\ wire[i] = "applied" /\ wire[r] = "applied"
        /\ record[i].beforeAt <= pushedAt[i] /\ pushedAt[i] <= record[i].afterAt
        /\ record[r].beforeAt <= pushedAt[r] /\ pushedAt[r] <= record[r].afterAt
        /\ record[i].afterAt < record[r].beforeAt /\ record[r].afterAt <= clock
    BY <1>1, <1>2 DEF ClosedDerivationInputs, Derivation, Inv, ConfirmedMeansMoved
  <1>4. /\ record[i].afterAt \in Nat /\ record[r].beforeAt \in Nat
        /\ pushedAt[i] \in Nat /\ pushedAt[r] \in Nat
    BY <1>2 DEF Derivation, Inv, TypeOK, DatesInv
  <1>5. pushedAt[i] < pushedAt[r]
    BY <1>3, <1>4
  <1>6. pack = Nothing
    BY <1>1 DEF Derivation, DerivedInv
  <1>7. DerivedInv'
    BY <1>1, <1>3, <1>5, <1>6 DEF DerivedInv
  <1>8. DatesInv' /\ OrderInv'
    BY <1>1 DEF Derivation, DatesInv, OrderInv
  <1> QED BY <1>7, <1>8 DEF Derivation

\* What is published changes only before the pack, which needs all of it.
LEMMA PackDerivation ==
  ASSUME Derivation, Inv',
         PublishObservations \/ \E i, r \in Move : RenderPack(i, r)
  PROVE  Derivation'
  <1>1. UNCHANGED <<wire, record, order, pushedAt, packInput>>
    BY DEF PublishObservations, RenderPack, env, output, history
  <1>2. /\ packInput # Nothing
        /\ (pack' = pack /\ pack = Nothing) \/ {pack'[1], pack'[2]} \subseteq published'
    BY DEF PublishObservations, RenderPack
  <1>3. DerivedInv'
    BY <1>1, <1>2 DEF Derivation, DerivedInv
  <1>4. DatesInv' /\ OrderInv'
    BY <1>1 DEF Derivation, DatesInv, OrderInv
  <1> QED BY <1>3, <1>4 DEF Derivation

\* Every step keeps the order of the pushes and what was derived.
LEMMA StepDerivation == Derivation /\ [Next]_vars => Derivation'
  <1> SUFFICES ASSUME Derivation, [Next]_vars PROVE Derivation'
    OBVIOUS
  <1>1. Inv /\ Inv'
    BY StepInv DEF Derivation
  <1>2. ASSUME NEW i \in Move, Step(i) PROVE Derivation'
    BY <1>1, <1>2, RecordDerivation, StepQuiet, QuietDerivation
  <1>3. ASSUME NEW i \in Move, RemoteReceives(i) PROVE Derivation'
    BY <1>1, <1>3, AppliedDerivation
  <1>4. ASSUME NEW i, NEW r \in Move, i \in Move, GeneratePackInput(i, r) PROVE Derivation'
    BY <1>1, <1>4, GenerateDerivation
  <1>5. CASE PublishObservations \/ \E i, r \in Move : RenderPack(i, r)
    BY <1>1, <1>5, PackDerivation
  <1>6. CASE \/ ForeignChange \/ WorktreeChange \/ UNCHANGED vars
             \/ \E i \in Move : Interrupt(i) \/ Kill(i)
    <2>1. UNCHANGED <<record, order, pushedAt, derived, wire>>
      BY <1>6 DEF ForeignChange, WorktreeChange, Interrupt, Kill, vars, output, history, derived
    <2> QED BY <1>1, <2>1, QuietDerivation DEF Quiet
  <1> QED BY <1>2, <1>3, <1>4, <1>5, <1>6 DEF Next

\* In the order of the applied pushes the earlier one has the smaller place.
LEMMA PlacesInOrder ==
  ASSUME Derivation, NEW i \in Move, NEW r \in Move,
         wire[i] = "applied", wire[r] = "applied", pushedAt[i] < pushedAt[r]
  PROVE  LET place(m) == CHOOSE k \in DOMAIN order : order[k] = m
         IN  /\ {i, r} \subseteq {order[k] : k \in DOMAIN order}
             /\ place(i) < place(r)
  <1> DEFINE place(m) == CHOOSE k \in DOMAIN order : order[k] = m
  <1>1. /\ \E k \in DOMAIN order : order[k] = i
        /\ \E k \in DOMAIN order : order[k] = r
    BY DEF Derivation, OrderInv
  <1>2. place(i) \in DOMAIN order /\ order[place(i)] = i
    BY <1>1
  <1>3. place(r) \in DOMAIN order /\ order[place(r)] = r
    BY <1>1
  <1>4. {i, r} \subseteq {order[k] : k \in DOMAIN order}
    BY <1>1
  <1> HIDE DEF place
  <1>5. DOMAIN order \subseteq Nat
    BY DEF Derivation, OrderInv
  <1>6. pushedAt[i] \in Nat /\ pushedAt[r] \in Nat
    BY DEF Derivation, Inv, TypeOK
  <1>7. place(i) # place(r)
    BY <1>2, <1>3, <1>6
  <1>8. ~(place(r) < place(i))
    <2>1. place(r) < place(i) => pushedAt[r] <= pushedAt[i]
      BY <1>2, <1>3 DEF Derivation, OrderInv
    <2> QED BY <1>6, <2>1
  <1>9. place(i) < place(r)
    BY <1>2, <1>3, <1>5, <1>7, <1>8
  <1> QED BY <1>4, <1>9 DEF place

\* A pack input stands for an installation by one of the two moves and its
\* later end by the other, both inside the window it states, whoever else
\* moved the tag; a pack is generated from a pack input only.
THEOREM DerivationTheorem == Spec => []ClosedDerivation
  <1>1. Derivation => ClosedDerivation
    <2> SUFFICES ASSUME Derivation PROVE ClosedDerivation
      OBVIOUS
    <2>1. pack # Nothing => packInput # Nothing /\ {pack[1], pack[2]} \subseteq published
      BY DEF Derivation, DerivedInv
    <2>2. CASE packInput # Nothing
      <3> DEFINE i == packInput.install
                 r == packInput.restore
      <3>1. /\ i \in Move /\ r \in Move /\ wire[i] = "applied" /\ wire[r] = "applied"
            /\ pushedAt[i] < pushedAt[r]
            /\ packInput.before <= pushedAt[i] /\ pushedAt[i] <= packInput.during
            /\ pushedAt[r] <= packInput.after /\ packInput.after <= packInput.createdAt
        BY <2>2 DEF Derivation, DerivedInv
      <3> HIDE DEF i, r
      <3>2. LET place(m) == CHOOSE k \in DOMAIN order : order[k] = m
            IN  /\ {i, r} \subseteq {order[k] : k \in DOMAIN order}
                /\ place(i) < place(r)
        BY <3>1, PlacesInOrder
      <3> QED BY <2>1, <3>1, <3>2 DEF ClosedDerivation, i, r
    <2>3. CASE packInput = Nothing
      BY <2>1, <2>3 DEF ClosedDerivation
    <2> QED BY <2>2, <2>3
  <1> QED BY <1>1, InitDerivation, StepDerivation, PTL DEF Spec

-----------------------------------------------------------------------------
(* The record of every result.                                             *)

\* A result whose record passes its own validator, whenever it is written.
Accepted(req, res) ==
  \A at \in Nat : LET rec == EncodeTagMoveRecord(req, res, at) IN
                  TimesOrdered(rec) => ValidateTagMoveRecordSemantics(rec)

\* The first error in the order of outcomes decides.
LEMMA OutcomeOf ==
  ASSUME NEW err \in SUBSET Errors, NEW k \in 1 .. 7, Outcomes[k][1] \in err,
         \A j \in 1 .. (k - 1) : Outcomes[j][1] \notin err
  PROVE  ClassifyTagMoveOutcome(err) = Outcomes[k][2]
  <1> DEFINE First(m) == /\ Outcomes[m][1] \in err
                         /\ \A j \in 1 .. (m - 1) : Outcomes[j][1] \notin err
             i == CHOOSE m \in DOMAIN Outcomes : First(m)
  <1>1. DOMAIN Outcomes = 1 .. 7
    BY DEF Outcomes
  <1>2. First(k) /\ k \in DOMAIN Outcomes
    BY <1>1
  <1>3. First(i) /\ i \in DOMAIN Outcomes
    BY <1>2
  <1>4. \A m \in 1 .. 7 : First(m) => m = k
    BY <1>2
  <1>5. i = k
    BY <1>1, <1>3, <1>4
  <1>6. err # {}
    OBVIOUS
  <1>7. ClassifyTagMoveOutcome(err) = Outcomes[i][2]
    BY <1>6 DEF ClassifyTagMoveOutcome
  <1> HIDE DEF i
  <1> QED BY <1>5, <1>7

\* The outcomes of the errors that a move returns.
LEMMA OutcomesOf ==
  /\ ClassifyTagMoveOutcome({}) = "CONFIRMED_APPLIED"
  /\ ClassifyTagMoveOutcome({"Precondition"}) = "PRECONDITION_FAILED"
  /\ ClassifyTagMoveOutcome({"Interrupted"}) = "INTERRUPTED"
  /\ ClassifyTagMoveOutcome({"Failed"}) = "FAILED_UNCHANGED"
  /\ ClassifyTagMoveOutcome({"Unconfirmed"}) = "REMOTE_TARGET_REACHED_UNCONFIRMED"
  /\ \A more \in SUBSET {"Interrupted", "RestoreFailed"} :
       ClassifyTagMoveOutcome({"Unknown"} \cup more) = "OUTCOME_UNKNOWN"
  /\ \A more \in SUBSET {"Interrupted"} :
       /\ ClassifyTagMoveOutcome({"RestoreFailed"} \cup more) = "RESTORE_FAILED"
       /\ ClassifyTagMoveOutcome({"Concurrent"} \cup more) = "CONCURRENT_CHANGE"
  <1> USE DEF Errors
  <1>1. /\ Outcomes[1] = <<"Unconfirmed", "REMOTE_TARGET_REACHED_UNCONFIRMED">>
        /\ Outcomes[2] = <<"Concurrent", "CONCURRENT_CHANGE">>
        /\ Outcomes[3] = <<"Unknown", "OUTCOME_UNKNOWN">>
        /\ Outcomes[4] = <<"RestoreFailed", "RESTORE_FAILED">>
        /\ Outcomes[5] = <<"Interrupted", "INTERRUPTED">>
        /\ Outcomes[6] = <<"Precondition", "PRECONDITION_FAILED">>
        /\ Outcomes[7] = <<"Failed", "FAILED_UNCHANGED">>
    BY DEF Outcomes
  <1>2. ClassifyTagMoveOutcome({}) = "CONFIRMED_APPLIED"
    BY DEF ClassifyTagMoveOutcome
  <1>3. ClassifyTagMoveOutcome({"Unconfirmed"}) = Outcomes[1][2]
    BY <1>1, OutcomeOf
  <1>4. ClassifyTagMoveOutcome({"Precondition"}) = Outcomes[6][2]
    BY <1>1, OutcomeOf
  <1>5. ClassifyTagMoveOutcome({"Interrupted"}) = Outcomes[5][2]
    BY <1>1, OutcomeOf
  <1>6. ClassifyTagMoveOutcome({"Failed"}) = Outcomes[7][2]
    BY <1>1, OutcomeOf
  <1>7. ASSUME NEW more \in SUBSET {"Interrupted", "RestoreFailed"}
        PROVE  ClassifyTagMoveOutcome({"Unknown"} \cup more) = Outcomes[3][2]
    BY <1>1, OutcomeOf
  <1>8. ASSUME NEW more \in SUBSET {"Interrupted"}
        PROVE  ClassifyTagMoveOutcome({"RestoreFailed"} \cup more) = Outcomes[4][2]
    BY <1>1, OutcomeOf
  <1>9. ASSUME NEW more \in SUBSET {"Interrupted"}
         PROVE  ClassifyTagMoveOutcome({"Concurrent"} \cup more) = Outcomes[2][2]
    BY <1>1, OutcomeOf
  <1> QED BY <1>1, <1>2, <1>3, <1>4, <1>5, <1>6, <1>7, <1>8, <1>9

\* What the validator asks of a result with a known outcome.
Sound(req, res, outcome) ==
  LET guided == res.recovery # Nothing
      latest == IF outcome = "PRECONDITION_FAILED" THEN res.before ELSE res.after
  IN /\ res.before \in {Nothing, req.old} \/ outcome = "PRECONDITION_FAILED"
     /\ res.verified => res.after = req.new
     /\ guided => /\ res.recovery.restore <=> res.recovery.observed = B
                  /\ IF res.recovery.observed = Nothing
                     THEN outcome = "OUTCOME_UNKNOWN" /\ res.after = Nothing /\ res.before # Nothing
                     ELSE res.recovery.observed = latest
     /\ \/ outcome = "CONFIRMED_APPLIED" /\ res.verified /\ res.before # Nothing
           /\ res.after = req.new /\ ~guided
        \/ outcome = "PRECONDITION_FAILED" /\ ~res.verified /\ res.after = Nothing
           /\ (guided <=> res.before = B)
        \/ outcome = "FAILED_UNCHANGED" /\ ~res.verified /\ res.before # Nothing
           /\ res.after = req.old /\ ~guided
        \/ outcome = "REMOTE_TARGET_REACHED_UNCONFIRMED" /\ res.verified /\ res.after = req.new
        \/ outcome = "OUTCOME_UNKNOWN" /\ ~res.verified /\ guided
        \/ outcome = "CONCURRENT_CHANGE" /\ ~res.verified /\ res.after # Nothing /\ guided
        \/ outcome = "INTERRUPTED"
        \/ outcome = "RESTORE_FAILED" /\ req = Restore /\ ~res.verified /\ res.after = B /\ guided

\* The validator asks no more than that.
LEMMA SoundAccepted ==
  ASSUME NEW req \in Request, NEW res \in Result,
         Sound(req, res, ClassifyTagMoveOutcome(res.err))
  PROVE  Accepted(req, res)
  <1> DEFINE outcome == ClassifyTagMoveOutcome(res.err)
  <1> SUFFICES ASSUME NEW at \in Nat, TimesOrdered(EncodeTagMoveRecord(req, res, at))
               PROVE  ValidateTagMoveRecordSemantics(EncodeTagMoveRecord(req, res, at))
    BY DEF Accepted
  <1> DEFINE rec == EncodeTagMoveRecord(req, res, at)
  <1>1. /\ rec.move = req /\ rec.before = res.before /\ rec.after = res.after
        /\ rec.verified = res.verified /\ rec.recovery = res.recovery
        /\ rec.outcome = outcome
    BY DEF EncodeTagMoveRecord
  <1>2. TimesOrdered(rec)
    OBVIOUS
  <1>3. Sound(req, res, outcome)
    OBVIOUS
  <1> HIDE DEF rec, outcome
  <1>4. RecoveryBound(rec)
    BY <1>1, <1>3 DEF RecoveryBound, Sound
  <1>5. OutcomeBound(rec)
    BY <1>1, <1>3 DEF OutcomeBound, Sound
  <1>6. ValidateTagMoveRecordSemantics(rec)
    BY <1>1, <1>2, <1>3, <1>4, <1>5 DEF ValidateTagMoveRecordSemantics, Sound
  <1> QED BY <1>6 DEF rec

\* A move that may push has read its old target and nothing else.
Pending(req, res) ==
  /\ res.before = req.old /\ res.after = Nothing
  /\ ~res.verified /\ res.recovery = Nothing /\ res.err = {}

\* A move that did not read the remote.
LEMMA UnreadAccepted ==
  ASSUME NEW req \in Request, NEW err \in {"Precondition", "Interrupted"}
  PROVE  Accepted(req, Fails(NoResult, {err}, Nothing))
  <1> DEFINE res == Fails(NoResult, {err}, Nothing)
  <1>1. NoResult \in Result /\ {err} \in SUBSET Errors /\ Nothing \in Advice
    BY NoPushTypes DEF Errors, Advice
  <1>2. /\ res \in Result /\ res.err = {err} /\ res.recovery = Nothing
        /\ res.before = Nothing /\ res.after = Nothing /\ ~res.verified
    <2>1. NoResult.before = Nothing /\ NoResult.after = Nothing /\ ~NoResult.verified
      BY DEF NoResult
    <2> QED BY <1>1, <2>1, FailsResult
  <1>3. ClassifyTagMoveOutcome(res.err) \in {"PRECONDITION_FAILED", "INTERRUPTED"}
    BY <1>2, OutcomesOf
  <1> HIDE DEF res
  <1>4. Sound(req, res, ClassifyTagMoveOutcome(res.err))
    BY <1>2, <1>3, TagMoveAssumption DEF Sound, Target
  <1>5. Accepted(req, res)
    BY <1>2, <1>4, SoundAccepted
  <1> QED BY <1>5 DEF res

\* Guidance is told apart from none.
LEMMA GuidanceGiven ==
  ASSUME NEW target \in Seen
  PROVE  /\ RecoveryPlan(target) \in Advice /\ RecoveryPlan(target) # Nothing
         /\ RecoveryPlan(target).observed = target
         /\ RecoveryPlan(target).restore <=> target = B
  <1>1. RecoveryPlan(target) \in Guidance
    BY DEF RecoveryPlan, Guidance
  <1> QED BY <1>1, TagMoveAssumption DEF RecoveryPlan, Guidance, Advice, Seen

\* The two targets and the two transitions are told apart.
LEMMA Targets ==
  /\ A # B /\ A # Nothing /\ B # Nothing /\ A \in Seen /\ B \in Seen /\ Nothing \in Seen
  /\ \A req \in Request : \/ req.old = A /\ req.new = B /\ req = Install /\ req # Restore
                          \/ req.old = B /\ req.new = A /\ req = Restore /\ req # Install
  BY TagMoveAssumption DEF Target, Seen, Request, Install, Restore

\* The first reading: its refusals are recorded, and otherwise the move is
\* pending.
LEMMA PreconditionAccepted ==
  ASSUME NEW req \in Request, NEW topology \in Answer, NEW at \in Nat,
         NEW isCancelled \in BOOLEAN
  PROVE  LET judged == Precondition(NoResult, req, topology, at, isCancelled) IN
         IF judged.err = {} THEN Pending(req, judged) ELSE Accepted(req, judged)
  <1> DEFINE read == [NoResult EXCEPT !.before = topology.v1, !.beforeAt = at]
             judged == Precondition(NoResult, req, topology, at, isCancelled)
  <1>1. topology.v1 \in Seen /\ Nothing \in Advice /\ NoResult \in Result
    BY NoPushTypes DEF Answer, Advice
  <1>2. /\ read \in Result /\ read.before = topology.v1 /\ read.after = Nothing
        /\ ~read.verified /\ read.recovery = Nothing /\ read.err = {}
    <2>1. read = [[NoResult EXCEPT !.before = topology.v1] EXCEPT !.beforeAt = at]
      BY DEF NoResult
    <2>2. /\ NoResult.after = Nothing /\ ~NoResult.verified /\ NoResult.recovery = Nothing
          /\ NoResult.err = {}
      BY DEF NoResult
    <2> QED BY <1>1, <2>1, <2>2 DEF Result
  <1>3. {"Precondition"} \in SUBSET Errors /\ {"Interrupted"} \in SUBSET Errors
    BY DEF Errors
  <1>4. CASE judged = Fails(NoResult, {"Precondition"}, Nothing)
    <2>1. judged.err # {}
      BY <1>1, <1>3, <1>4, FailsResult
    <2> QED BY <1>4, <2>1, UnreadAccepted
  <1>5. CASE topology.v1 = B /\ req.old # B
             /\ judged = Fails(read, {"Precondition"}, RecoveryPlan(B))
    <2> HIDE DEF read, judged
    <2>1. /\ judged \in Result /\ judged.err = {"Precondition"} /\ judged.before = B
          /\ judged.after = Nothing /\ ~judged.verified /\ judged.recovery = RecoveryPlan(B)
      BY <1>2, <1>3, <1>5, Targets, GuidanceGiven, FailsResult
    <2>2. ClassifyTagMoveOutcome(judged.err) = "PRECONDITION_FAILED"
      BY <2>1, OutcomesOf
    <2>3. Sound(req, judged, "PRECONDITION_FAILED")
      BY <2>1, Targets, GuidanceGiven DEF Sound
    <2>4. Accepted(req, judged)
      BY <2>1, <2>2, <2>3, SoundAccepted
    <2> QED BY <2>1, <2>4 DEF judged
  <1>6. CASE topology.v1 # B /\ judged = Fails(read, {"Precondition"}, Nothing)
    <2> HIDE DEF read, judged
    <2>1. /\ judged \in Result /\ judged.err = {"Precondition"} /\ judged.before # B
          /\ judged.after = Nothing /\ ~judged.verified /\ judged.recovery = Nothing
      BY <1>1, <1>2, <1>3, <1>6, FailsResult
    <2>2. ClassifyTagMoveOutcome(judged.err) = "PRECONDITION_FAILED"
      BY <2>1, OutcomesOf
    <2>3. Sound(req, judged, "PRECONDITION_FAILED")
      BY <2>1 DEF Sound
    <2>4. Accepted(req, judged)
      BY <2>1, <2>2, <2>3, SoundAccepted
    <2> QED BY <2>1, <2>4 DEF judged
  <1>7. CASE topology.v1 = req.old /\ judged = Fails(read, {"Interrupted"}, Nothing)
    <2> HIDE DEF read, judged
    <2>1. /\ judged \in Result /\ judged.err = {"Interrupted"} /\ judged.before = req.old
          /\ judged.after = Nothing /\ ~judged.verified /\ judged.recovery = Nothing
      BY <1>1, <1>2, <1>3, <1>7, FailsResult
    <2>2. ClassifyTagMoveOutcome(judged.err) = "INTERRUPTED"
      BY <2>1, OutcomesOf
    <2>3. Sound(req, judged, "INTERRUPTED")
      BY <2>1 DEF Sound
    <2>4. Accepted(req, judged)
      BY <2>1, <2>2, <2>3, SoundAccepted
    <2> QED BY <2>1, <2>4 DEF judged
  <1>8. CASE topology.v1 = req.old /\ judged = read
    <2>1. Pending(req, judged) /\ judged.err = {}
      BY <1>2, <1>8 DEF Pending
    <2> QED BY <2>1
  <1>9. \/ judged = Fails(NoResult, {"Precondition"}, Nothing)
        \/ /\ topology.v1 = B /\ req.old # B
           /\ judged = Fails(read, {"Precondition"}, RecoveryPlan(B))
        \/ topology.v1 # B /\ judged = Fails(read, {"Precondition"}, Nothing)
        \/ topology.v1 = req.old /\ judged = Fails(read, {"Interrupted"}, Nothing)
        \/ topology.v1 = req.old /\ judged = read
    BY DEF Precondition
  <1> QED BY <1>4, <1>5, <1>6, <1>7, <1>8, <1>9

\* A remote that could not be read back: guidance says to read it again.
LEMMA UnreadableAccepted ==
  ASSUME NEW req \in Request, NEW res \in Result, Pending(req, res), NEW p \in Pushed
  PROVE  Accepted(req, Unreadable(res, req, p))
  <1> DEFINE more == IF p.interrupted THEN {"Interrupted"}
                     ELSE IF req = Restore THEN {"RestoreFailed"} ELSE {}
             unread == Unreadable(res, req, p)
  <1>1. more \in SUBSET {"Interrupted", "RestoreFailed"}
    OBVIOUS
  <1>2. unread = Fails(res, {"Unknown"} \cup more, RecoveryPlan(Nothing))
    BY DEF Unreadable
  <1> HIDE DEF more, unread
  <1>3. {"Unknown"} \cup more \in SUBSET Errors
    BY <1>1 DEF Errors
  <1>4. /\ unread \in Result /\ unread.err = {"Unknown"} \cup more /\ unread.before = req.old
        /\ unread.after = Nothing /\ ~unread.verified
        /\ unread.recovery = RecoveryPlan(Nothing)
    BY <1>2, <1>3, Targets, GuidanceGiven, FailsResult DEF Pending
  <1>5. Sound(req, unread, "OUTCOME_UNKNOWN")
    BY <1>4, Targets, GuidanceGiven DEF Sound
  <1>6. Accepted(req, unread)
    BY <1>1, <1>4, <1>5, OutcomesOf, SoundAccepted
  <1> QED BY <1>6 DEF unread

\* The new target was read back.
LEMMA ReachedAccepted ==
  ASSUME NEW req \in Request, NEW res \in Result, NEW p \in Pushed,
         res.before = req.old, res.after = req.new, res.recovery = Nothing, res.err = {}
  PROVE  Accepted(req, Reached(res, req, p))
  <1> DEFINE guidance == IF req.new = B THEN RecoveryPlan(B) ELSE Nothing
             verified == [res EXCEPT !.verified = TRUE]
             reached  == Reached(res, req, p)
  <1>1. guidance \in Advice /\ guidance \in {Nothing, RecoveryPlan(B)}
        /\ (guidance # Nothing => req.new = B)
    BY Targets, GuidanceGiven DEF Advice
  <1>2. /\ verified \in Result /\ verified.before = req.old /\ verified.after = req.new
        /\ verified.verified /\ verified.recovery = Nothing /\ verified.err = {}
    BY DEF Result
  <1>3. {"Interrupted"} \in SUBSET Errors /\ {"Unconfirmed"} \in SUBSET Errors
    BY DEF Errors
  <1>4. \/ reached = Fails(verified, {"Interrupted"}, guidance)
        \/ reached = Fails(verified, {"Unconfirmed"}, guidance)
        \/ reached = verified
    BY DEF Reached
  <1> HIDE DEF guidance, verified, reached
  <1>5. /\ reached \in Result /\ reached.before = req.old /\ reached.after = req.new
        /\ reached.verified /\ reached.recovery \in {Nothing, RecoveryPlan(B)}
        /\ (reached.recovery # Nothing => req.new = B)
        /\ \/ reached.err = {"Interrupted"}
           \/ reached.err = {"Unconfirmed"}
           \/ reached.err = {} /\ reached.recovery = Nothing
    BY <1>1, <1>2, <1>3, <1>4, FailsResult
  <1>6. \E outcome : ClassifyTagMoveOutcome(reached.err) = outcome /\ Sound(req, reached, outcome)
    <2>1. CASE reached.err = {"Interrupted"}
      <3>1. ClassifyTagMoveOutcome(reached.err) = "INTERRUPTED"
        BY <2>1, OutcomesOf
      <3>2. Sound(req, reached, "INTERRUPTED")
        BY <1>5, Targets, GuidanceGiven DEF Sound
      <3> QED BY <3>1, <3>2
    <2>2. CASE reached.err = {"Unconfirmed"}
      <3>1. ClassifyTagMoveOutcome(reached.err) = "REMOTE_TARGET_REACHED_UNCONFIRMED"
        BY <2>2, OutcomesOf
      <3>2. Sound(req, reached, "REMOTE_TARGET_REACHED_UNCONFIRMED")
        BY <1>5, Targets, GuidanceGiven DEF Sound
      <3> QED BY <3>1, <3>2
    <2>3. CASE reached.err = {} /\ reached.recovery = Nothing
      <3>1. ClassifyTagMoveOutcome(reached.err) = "CONFIRMED_APPLIED"
        BY <2>3, OutcomesOf
      <3>2. Sound(req, reached, "CONFIRMED_APPLIED")
        BY <1>5, <2>3, Targets DEF Sound
      <3> QED BY <3>1, <3>2
    <2> QED BY <1>5, <2>1, <2>2, <2>3
  <1>7. Accepted(req, reached)
    BY <1>5, <1>6, SoundAccepted
  <1> QED BY <1>7 DEF reached

\* The old target was read back.
LEMMA UnmovedAccepted ==
  ASSUME NEW req \in Request, NEW res \in Result, NEW p \in Pushed,
         res.before = req.old, res.after = req.old, ~res.verified, res.recovery = Nothing
  PROVE  Accepted(req, Unmoved(res, req, p))
  <1> DEFINE guidance == RecoveryPlan(req.old)
             unmoved  == Unmoved(res, req, p)
  <1>1. /\ guidance \in Advice /\ guidance # Nothing /\ guidance.observed = req.old
        /\ (guidance.restore <=> req.old = B) /\ Nothing \in Advice
    BY Targets, GuidanceGiven DEF Advice
  <1>2. \/ req = Install /\ unmoved = Fails(res, {"Unknown"} \cup {"Interrupted"}, guidance)
        \/ \E more \in SUBSET {"Interrupted"} :
             req = Restore /\ unmoved = Fails(res, {"RestoreFailed"} \cup more, guidance)
        \/ req = Install /\ unmoved = Fails(res, {"Failed"}, Nothing)
    <2>1. \/ req = Install /\ unmoved = Fails(res, {"Interrupted", "Unknown"}, guidance)
          \/ req = Restore /\ unmoved = Fails(res, {"Interrupted", "RestoreFailed"}, guidance)
          \/ req = Restore /\ unmoved = Fails(res, {"RestoreFailed"}, guidance)
          \/ req = Install /\ unmoved = Fails(res, {"Failed"}, Nothing)
      BY Targets DEF Unmoved
    <2>2. /\ {"Interrupted", "Unknown"} = {"Unknown"} \cup {"Interrupted"}
          /\ {"Interrupted", "RestoreFailed"} = {"RestoreFailed"} \cup {"Interrupted"}
          /\ {"RestoreFailed"} = {"RestoreFailed"} \cup {}
      OBVIOUS
    <2>3. {} \in SUBSET {"Interrupted"} /\ {"Interrupted"} \in SUBSET {"Interrupted"}
      OBVIOUS
    <2> HIDE DEF guidance, unmoved
    <2> QED BY <2>1, <2>2, <2>3
  <1> HIDE DEF guidance, unmoved
  <1>3. CASE req = Install /\ unmoved = Fails(res, {"Unknown"} \cup {"Interrupted"}, guidance)
    <2> DEFINE err == {"Unknown"} \cup {"Interrupted"}
    <2>1. err \in SUBSET Errors /\ ClassifyTagMoveOutcome(err) = "OUTCOME_UNKNOWN"
      BY OutcomesOf DEF Errors
    <2> HIDE DEF err
    <2>2. unmoved = Fails(res, err, guidance)
      BY <1>3 DEF err
    <2>3. /\ unmoved \in Result /\ unmoved.err = err /\ unmoved.before = req.old
          /\ unmoved.after = req.old /\ ~unmoved.verified /\ unmoved.recovery = guidance
      BY <1>1, <2>1, <2>2, FailsResult
    <2>4. Sound(req, unmoved, "OUTCOME_UNKNOWN")
      BY <1>1, <2>3, Targets DEF Sound
    <2> QED BY <2>1, <2>3, <2>4, SoundAccepted DEF unmoved
  <1>4. ASSUME NEW more \in SUBSET {"Interrupted"}, req = Restore,
               unmoved = Fails(res, {"RestoreFailed"} \cup more, guidance)
        PROVE  Accepted(req, unmoved)
    <2> DEFINE err == {"RestoreFailed"} \cup more
    <2>1. err \in SUBSET Errors /\ ClassifyTagMoveOutcome(err) = "RESTORE_FAILED"
      BY OutcomesOf DEF Errors
    <2> HIDE DEF err
    <2>2. unmoved = Fails(res, err, guidance)
      BY <1>4 DEF err
    <2>3. /\ unmoved \in Result /\ unmoved.err = err /\ unmoved.before = req.old
          /\ unmoved.after = req.old /\ ~unmoved.verified /\ unmoved.recovery = guidance
      BY <1>1, <2>1, <2>2, FailsResult
    <2>4. Sound(req, unmoved, "RESTORE_FAILED")
      BY <1>1, <1>4, <2>3, Targets DEF Sound
    <2> QED BY <2>1, <2>3, <2>4, SoundAccepted
  <1>5. CASE req = Install /\ unmoved = Fails(res, {"Failed"}, Nothing)
    <2>1. {"Failed"} \in SUBSET Errors /\ ClassifyTagMoveOutcome({"Failed"}) = "FAILED_UNCHANGED"
      BY OutcomesOf DEF Errors
    <2>2. /\ unmoved \in Result /\ unmoved.err = {"Failed"} /\ unmoved.before = req.old
          /\ unmoved.after = req.old /\ ~unmoved.verified /\ unmoved.recovery = Nothing
      BY <1>1, <1>5, <2>1, FailsResult
    <2>3. Sound(req, unmoved, "FAILED_UNCHANGED")
      BY <2>2, Targets DEF Sound
    <2> QED BY <2>1, <2>2, <2>3, SoundAccepted DEF unmoved
  <1> QED BY <1>2, <1>3, <1>4, <1>5 DEF unmoved

\* Whatever was read back, the judgement has a record.
LEMMA JudgeAccepted ==
  ASSUME NEW req \in Request, NEW res \in Result, Pending(req, res), NEW p \in Pushed,
         NEW topology \in Answer, topology.v1 # Nothing, NEW at \in Nat
  PROVE  Accepted(req, Judge(res, req, p, topology, at))
  <1> DEFINE read   == [res EXCEPT !.after = topology.v1, !.afterAt = at]
             judged == Judge(res, req, p, topology, at)
             more   == IF p.interrupted THEN {"Interrupted"} ELSE {}
             err    == {"Concurrent"} \cup more
  <1>1. /\ read \in Result /\ read.before = req.old /\ read.after = topology.v1
        /\ ~read.verified /\ read.recovery = Nothing /\ read.err = {}
    <2>1. topology.v1 \in Seen
      BY DEF Answer
    <2>2. read = [[res EXCEPT !.after = topology.v1] EXCEPT !.afterAt = at]
      BY DEF Result
    <2> QED BY <2>1, <2>2 DEF Result, Pending
  <1>2. \/ topology.v1 = req.new /\ judged = Reached(read, req, p)
        \/ topology.v1 = req.old /\ judged = Unmoved(read, req, p)
        \/ judged = Fails(read, err, RecoveryPlan(topology.v1))
    BY DEF Judge
  <1>3. more \in SUBSET {"Interrupted"}
    OBVIOUS
  <1> HIDE DEF read, judged, more
  <1>4. err \in SUBSET Errors /\ ClassifyTagMoveOutcome(err) = "CONCURRENT_CHANGE"
    BY <1>3, OutcomesOf DEF Errors
  <1> HIDE DEF err
  <1>5. CASE judged = Fails(read, err, RecoveryPlan(topology.v1))
    <2>1. topology.v1 \in Seen
      BY DEF Answer
    <2>2. /\ judged \in Result /\ judged.err = err /\ judged.before = req.old
          /\ judged.after = topology.v1 /\ ~judged.verified
          /\ judged.recovery = RecoveryPlan(topology.v1)
      BY <1>1, <1>4, <1>5, <2>1, GuidanceGiven, FailsResult
    <2>3. Sound(req, judged, "CONCURRENT_CHANGE")
      BY <2>1, <2>2, GuidanceGiven DEF Sound
    <2> QED BY <1>4, <2>2, <2>3, SoundAccepted DEF judged
  <1>6. CASE topology.v1 = req.new /\ judged = Reached(read, req, p)
    BY <1>1, <1>6, ReachedAccepted DEF judged
  <1>7. CASE topology.v1 = req.old /\ judged = Unmoved(read, req, p)
    BY <1>1, <1>7, UnmovedAccepted DEF judged
  <1> QED BY <1>2, <1>5, <1>6, <1>7

\* What a move holds at each of its steps.
Shaped(i) ==
  /\ pc[i] \in {"idle", "local", "read", "verify"} => result[i] = NoResult
  /\ pc[i] \in {"push", "sent", "readback", "judge"} => Pending(request[i], result[i])
  /\ pc[i] = "judge" => seen[i].v1 # Nothing
  /\ pc[i] = "encode" => Accepted(request[i], result[i])

ShapeInv == \A i \in Move : Shaped(i)

\* The other moves keep what they have.
OthersKeep(i) ==
  \A j \in Move \ {i} : /\ pc'[j] = pc[j] /\ request'[j] = request[j]
                        /\ result'[j] = result[j] /\ seen'[j] = seen[j]

\* A step of one move leaves the others as they are.
LEMMA OneShaped ==
  ASSUME ShapeInv, NEW i \in Move, OthersKeep(i), Shaped(i)'
  PROVE  ShapeInv'
  <1>1. \A j \in Move \ {i} : Shaped(j)'
    BY DEF ShapeInv, Shaped, OthersKeep
  <1> QED BY <1>1 DEF ShapeInv

\* A move changes only what is its own.
LEMMA StepKeeps ==
  ASSUME Inv, NEW i \in Move, Step(i)
  PROVE  OthersKeep(i)
  <1> USE DEF OthersKeep, Inv, TypeOK
  <1>1. CASE Reserve(i) \/ ReserveFails(i)
    BY <1>1 DEF Reserve, ReserveFails, At
  <1>2. CASE VerifyLocalPreconditions(i) \/ ReadBefore(i)
    <2>1. /\ UNCHANGED request
          /\ \E to \in Steps : pc' = [pc EXCEPT ![i] = to]
          /\ \E res : result' \in {result, [result EXCEPT ![i] = res]}
          /\ \E answer : seen' \in {seen, [seen EXCEPT ![i] = answer]}
      BY <1>2 DEF VerifyLocalPreconditions, ReadBefore, At, Returned, Steps
    <2> QED BY <2>1
  <1>3. CASE VerifyBefore(i)
    <2>1. /\ UNCHANGED request
          /\ \E to : pc' = [pc EXCEPT ![i] = to]
          /\ \E res : result' = [result EXCEPT ![i] = res]
          /\ seen' = [seen EXCEPT ![i] = NoTopology]
      BY <1>3 DEF VerifyBefore, At, Returned
    <2> QED BY <2>1
  <1>4. CASE SendPush(i) \/ PushNotSent(i) \/ PushReturns(i)
    BY <1>4 DEF SendPush, PushNotSent, PushReturns, At
  <1>5. CASE ReadAfter(i)
    <2>1. /\ UNCHANGED request
          /\ \E to : pc' = [pc EXCEPT ![i] = to]
          /\ \E res : result' \in {result, [result EXCEPT ![i] = res]}
          /\ \E answer : seen' = [seen EXCEPT ![i] = answer]
      BY <1>5 DEF ReadAfter, At, Returned
    <2> QED BY <2>1
  <1>6. CASE JudgeAfter(i)
    <2>1. /\ UNCHANGED request
          /\ pc' = [pc EXCEPT ![i] = "encode"]
          /\ \E res : result' = [result EXCEPT ![i] = res]
          /\ seen' = [seen EXCEPT ![i] = NoTopology]
      BY <1>6 DEF JudgeAfter, At, Returned
    <2> QED BY <2>1
  <1>7. CASE WriteRecord(i)
    BY <1>7 DEF WriteRecord, At
  <1> QED BY <1>1, <1>2, <1>3, <1>4, <1>5, <1>6, <1>7 DEF Step

\* Each step of a move hands the next one what it needs.
LEMMA StepShaped ==
  ASSUME Inv, ShapeInv, NEW i \in Move, Step(i)
  PROVE  Shaped(i)'
  <1>1. /\ Shaped(i) /\ request[i] \in Request /\ result[i] \in Result /\ push[i] \in Pushed
        /\ seen[i] \in Answer /\ cancelled[i] \in BOOLEAN /\ remote.v1 # Nothing
    BY TagMoveAssumption DEF ShapeInv, Inv, TypeOK
  <1>2. CASE Reserve(i) \/ ReserveFails(i)
    <2>1. /\ pc[i] = "idle" /\ pc'[i] \in {"local", "ended"} /\ result' = result
      BY <1>2 DEF Reserve, ReserveFails, At, Inv, TypeOK
    <2> QED BY <1>1, <2>1 DEF Shaped
  <1>3. CASE VerifyLocalPreconditions(i) \/ ReadBefore(i)
    <2>1. /\ pc[i] \in {"local", "read"} /\ request' = request /\ result[i] = NoResult
          /\ \/ pc'[i] \in {"read", "verify"} /\ result' = result
             \/ /\ pc'[i] = "encode"
                /\ \E err \in {"Precondition", "Interrupted"} :
                     result' = [result EXCEPT ![i] = Fails(@, {err}, Nothing)]
      BY <1>1, <1>3 DEF VerifyLocalPreconditions, ReadBefore, At, Inv, TypeOK, Shaped
    <2>2. CASE pc'[i] \in {"read", "verify"} /\ result' = result
      BY <2>1, <2>2 DEF Shaped
    <2>3. ASSUME NEW err \in {"Precondition", "Interrupted"}, pc'[i] = "encode",
                 result' = [result EXCEPT ![i] = Fails(@, {err}, Nothing)]
          PROVE  Shaped(i)'
      <3>1. result'[i] = Fails(NoResult, {err}, Nothing)
        BY <2>1, <2>3 DEF Inv, TypeOK
      <3>2. Accepted(request'[i], result'[i])
        BY <1>1, <2>1, <3>1, UnreadAccepted
      <3> QED BY <2>3, <3>2 DEF Shaped, Accepted
    <2> QED BY <2>1, <2>2, <2>3
  <1>4. CASE VerifyBefore(i)
    <2>1. PICK now \in Readings :
            LET judged == Precondition(result[i], request[i], seen[i], now, cancelled[i]) IN
            /\ At(i, "verify", IF judged.err = {} THEN "push" ELSE "encode")
            /\ result' = [result EXCEPT ![i] = judged]
            /\ request' = request
      BY <1>4 DEF VerifyBefore
    <2> DEFINE judged == Precondition(NoResult, request[i], seen[i], now, cancelled[i])
    <2>2. now \in Nat
      BY ReadingsForward
    <2>3. IF judged.err = {} THEN Pending(request[i], judged) ELSE Accepted(request[i], judged)
      BY <1>1, <2>2, PreconditionAccepted
    <2>4. pc[i] = "verify" /\ result[i] = NoResult
      BY <1>1, <2>1 DEF At, Shaped
    <2>5. /\ result'[i] = judged /\ request' = request
          /\ pc'[i] = IF judged.err = {} THEN "push" ELSE "encode"
      BY <2>1, <2>4 DEF At, Inv, TypeOK
    <2> HIDE DEF judged
    <2> QED BY <2>3, <2>5 DEF Shaped, Accepted
  <1>5. CASE SendPush(i) \/ PushNotSent(i) \/ PushReturns(i)
    <2>1. /\ pc[i] \in {"push", "sent"} /\ pc'[i] \in {"sent", "readback"}
          /\ UNCHANGED <<request, result>>
      BY <1>5 DEF SendPush, PushNotSent, PushReturns, At, Inv, TypeOK
    <2> QED BY <1>1, <2>1 DEF Shaped
  <1>6. CASE ReadAfter(i)
    <2>1. /\ pc[i] = "readback" /\ request' = request
          /\ \/ pc'[i] = "judge" /\ seen'[i] = remote /\ result' = result
             \/ pc'[i] = "encode" /\ result'[i] = Unreadable(result[i], request[i], push[i])
      BY <1>6 DEF ReadAfter, At, Inv, TypeOK
    <2>2. Pending(request[i], result[i])
      BY <1>1, <2>1 DEF Shaped
    <2>3. Accepted(request[i], Unreadable(result[i], request[i], push[i]))
      BY <1>1, <2>2, UnreadableAccepted
    <2> QED BY <1>1, <2>1, <2>2, <2>3 DEF Shaped, Accepted
  <1>7. CASE JudgeAfter(i)
    <2>1. PICK now \in Readings :
            /\ result' = [result EXCEPT ![i] = Judge(@, request[i], push[i], seen[i], now)]
            /\ pc[i] = "judge" /\ pc' = [pc EXCEPT ![i] = "encode"] /\ request' = request
      BY <1>7 DEF JudgeAfter, At
    <2>2. now \in Nat
      BY ReadingsForward
    <2>3. Pending(request[i], result[i]) /\ seen[i].v1 # Nothing
      BY <1>1, <2>1 DEF Shaped
    <2>4. Accepted(request[i], Judge(result[i], request[i], push[i], seen[i], now))
      BY <1>1, <2>2, <2>3, JudgeAccepted
    <2>5. /\ result'[i] = Judge(result[i], request[i], push[i], seen[i], now)
          /\ pc'[i] = "encode"
      BY <2>1 DEF Inv, TypeOK
    <2> QED BY <2>1, <2>4, <2>5 DEF Shaped, Accepted
  <1>8. CASE WriteRecord(i)
    <2>1. pc'[i] = "ended"
      BY <1>8 DEF WriteRecord, At, Inv, TypeOK
    <2> QED BY <2>1 DEF Shaped
  <1> QED BY <1>2, <1>3, <1>4, <1>5, <1>6, <1>7, <1>8 DEF Step

Recorded == Inv /\ ShapeInv

\* No move has a result at the beginning.
LEMMA InitRecorded == Init => Recorded
  <1> SUFFICES ASSUME Init PROVE Recorded
    OBVIOUS
  <1>1. \A i \in Move : pc[i] = "idle" /\ result[i] = NoResult
    BY DEF Init
  <1>2. ShapeInv
    BY <1>1 DEF ShapeInv, Shaped
  <1> QED BY <1>2, InitInv DEF Recorded

\* Every step keeps what the moves hold.
LEMMA StepRecorded == Recorded /\ [Next]_vars => Recorded'
  <1> SUFFICES ASSUME Recorded, [Next]_vars PROVE ShapeInv'
    BY StepInv DEF Recorded
  <1> USE DEF Recorded
  <1>1. ASSUME NEW i \in Move, Step(i) PROVE ShapeInv'
    BY <1>1, StepKeeps, StepShaped, OneShaped
  <1>2. ASSUME NEW i \in Move, Kill(i) PROVE ShapeInv'
    <2>1. OthersKeep(i) /\ pc'[i] = "dead"
      BY <1>2 DEF Kill, Returned, OthersKeep, Inv, TypeOK
    <2>2. Shaped(i)'
      BY <2>1 DEF Shaped
    <2> QED BY <2>1, <2>2, OneShaped
  <1>3. CASE \/ ForeignChange \/ WorktreeChange \/ PublishObservations \/ UNCHANGED vars
             \/ \E i \in Move : Interrupt(i) \/ RemoteReceives(i)
             \/ \E i, r \in Move : GeneratePackInput(i, r) \/ RenderPack(i, r)
    <2>1. UNCHANGED <<pc, request, result, seen>>
      BY <1>3 DEF ForeignChange, WorktreeChange, PublishObservations, Interrupt, RemoteReceives,
                  GeneratePackInput, RenderPack, vars
    <2> QED BY <2>1 DEF ShapeInv, Shaped, Accepted
  <1> QED BY <1>1, <1>2, <1>3 DEF Next

\* Every result a move can return passes the validator of its own record
\* format, unless the host's clock did not advance between two readings.
THEOREM RecordTheorem == Spec => []RecordIsAccepted
  <1>1. Recorded => RecordIsAccepted
    BY DEF Recorded, Inv, TypeOK, ShapeInv, Shaped, Accepted, RecordIsAccepted
  <1> QED BY <1>1, InitRecorded, StepRecorded, PTL DEF Spec

-----------------------------------------------------------------------------
(* What a move leaves behind.                                              *)

Latest(res) == IF res.after # Nothing THEN res.after ELSE res.before

\* A result whose last line sends the operator on, with or without a record.
Advises(res) ==
  \/ res.recovery # Nothing
  \/ res.err = {} /\ Latest(res) = B
  \/ res.err = {"Failed"}
  \/ res.err = {"Interrupted"} /\ res.after = Nothing

\* A restore that failed with B in sight.
RestoreDue(req, res) == req = Restore /\ res.err # {} /\ Latest(res) = B

\* Guidance reaches the operator on either way.
LEMMA AdviceTold ==
  ASSUME NEW res \in Result, Advises(res),
         res.err # {"Failed"}, ~(res.err = {"Interrupted"} /\ res.after = Nothing)
  PROVE  /\ Told(res) \in {"applied", "recover", "readback"}
         /\ TagRecordPersistenceError(res) \in {"recover", "readback"}
  <1>1. Told(res) \in {"applied", "recover", "readback"}
    BY DEF Advises, Told
  <1>2. TagRecordPersistenceError(res) \in {"recover", "readback"}
    BY DEF Advises, Latest, TagRecordPersistenceError
  <1> QED BY <1>1, <1>2

\* A restore that ends at its first reading reads B only if it is interrupted.
LEMMA PreconditionAdvises ==
  ASSUME NEW req \in Request, NEW topology \in Answer, NEW at \in Nat,
         NEW isCancelled \in BOOLEAN
  PROVE  LET judged == Precondition(NoResult, req, topology, at, isCancelled) IN
         RestoreDue(req, judged) => Advises(judged)
  <1> DEFINE read == [NoResult EXCEPT !.before = topology.v1, !.beforeAt = at]
             judged == Precondition(NoResult, req, topology, at, isCancelled)
  <1> SUFFICES ASSUME RestoreDue(req, judged) PROVE Advises(judged)
    OBVIOUS
  <1>1. NoResult \in Result /\ Nothing \in Advice /\ topology.v1 \in Seen
    BY NoPushTypes DEF Answer, Advice
  <1>2. read \in Result /\ read.before = topology.v1 /\ read.after = Nothing /\ read.err = {}
    <2>1. read = [[NoResult EXCEPT !.before = topology.v1] EXCEPT !.beforeAt = at]
      BY DEF NoResult
    <2>2. NoResult.after = Nothing /\ NoResult.err = {}
      BY DEF NoResult
    <2> QED BY <1>1, <2>1, <2>2 DEF Result
  <1>3. {"Precondition"} \in SUBSET Errors /\ {"Interrupted"} \in SUBSET Errors
    BY DEF Errors
  <1>4. req.old = B
    BY Targets DEF RestoreDue
  <1>5. \/ judged = Fails(NoResult, {"Precondition"}, Nothing)
        \/ topology.v1 # B /\ judged = Fails(read, {"Precondition"}, Nothing)
        \/ judged = Fails(read, {"Interrupted"}, Nothing)
        \/ judged = read
    BY <1>4 DEF Precondition
  <1>6. NoResult.before = Nothing /\ NoResult.after = Nothing
    BY DEF NoResult
  <1> HIDE DEF read, judged
  <1>7. judged # Fails(NoResult, {"Precondition"}, Nothing)
    BY <1>1, <1>3, <1>6, Targets, FailsResult DEF RestoreDue, Latest
  <1>8. ~(topology.v1 # B /\ judged = Fails(read, {"Precondition"}, Nothing))
    BY <1>1, <1>2, <1>3, FailsResult DEF RestoreDue, Latest
  <1>9. judged # read
    BY <1>2 DEF RestoreDue
  <1>10. judged.err = {"Interrupted"} /\ judged.after = Nothing
    BY <1>1, <1>2, <1>3, <1>5, <1>7, <1>8, <1>9, FailsResult
  <1>11. Advises(judged)
    BY <1>10 DEF Advises
  <1> QED BY <1>11 DEF judged

\* Once the push was tried, an install always sends the operator on, and so
\* does a restore with B in sight.
Answered(req, res) == req = Install \/ RestoreDue(req, res) => Advises(res)

\* A remote that was not read back is to be read back.
LEMMA UnreadableAdvises ==
  ASSUME NEW req \in Request, NEW res \in Result, NEW p \in Pushed
  PROVE  Answered(req, Unreadable(res, req, p))
  <1> DEFINE err == {"Unknown"} \union (IF p.interrupted THEN {"Interrupted"}
                                        ELSE IF req = Restore THEN {"RestoreFailed"} ELSE {})
  <1>1. err \in SUBSET Errors
    BY DEF Errors
  <1>2. Unreadable(res, req, p) = Fails(res, err, RecoveryPlan(Nothing))
    BY DEF Unreadable
  <1> HIDE DEF err
  <1>3. Unreadable(res, req, p).recovery = RecoveryPlan(Nothing)
    BY <1>1, <1>2, Targets, GuidanceGiven, FailsResult
  <1> QED BY <1>3, Targets, GuidanceGiven DEF Answered, Advises

\* A reached B is reported, or to be restored.
LEMMA ReachedAdvises ==
  ASSUME NEW req \in Request, NEW res \in Result, NEW p \in Pushed,
         res.after = req.new, res.err = {}
  PROVE  Answered(req, Reached(res, req, p))
  <1> DEFINE guidance == IF req.new = B THEN RecoveryPlan(B) ELSE Nothing
             verified == [res EXCEPT !.verified = TRUE]
             reached  == Reached(res, req, p)
  <1>1. guidance \in Advice /\ (req = Install => guidance # Nothing)
    BY Targets, GuidanceGiven DEF Advice
  <1>2. verified \in Result /\ verified.after = req.new /\ verified.err = {}
    BY DEF Result
  <1>3. {"Interrupted"} \in SUBSET Errors /\ {"Unconfirmed"} \in SUBSET Errors
    BY DEF Errors
  <1>4. \/ reached = Fails(verified, {"Interrupted"}, guidance)
        \/ reached = Fails(verified, {"Unconfirmed"}, guidance)
        \/ reached = verified
    BY DEF Reached
  <1> HIDE DEF guidance, verified, reached
  <1>5. /\ reached.after = req.new
        /\ reached.recovery = guidance \/ reached.err = {}
    BY <1>1, <1>2, <1>3, <1>4, FailsResult
  <1>6. req = Install => Advises(reached)
    BY <1>1, <1>5, Targets DEF Advises, Latest
  <1>7. ~RestoreDue(req, reached)
    BY <1>5, Targets DEF RestoreDue, Latest
  <1> QED BY <1>6, <1>7 DEF Answered, reached

\* Only an install that failed without interruption has nothing to say.
LEMMA UnmovedAdvises ==
  ASSUME NEW req \in Request, NEW res \in Result, NEW p \in Pushed, res.after \in Seen
  PROVE  Answered(req, Unmoved(res, req, p))
  <1> DEFINE guidance == RecoveryPlan(res.after)
             unmoved  == Unmoved(res, req, p)
             both     == {"Interrupted", IF req = Install THEN "Unknown" ELSE "RestoreFailed"}
  <1>1. guidance \in Advice /\ guidance # Nothing /\ Nothing \in Advice
    BY GuidanceGiven DEF Advice
  <1>2. \/ unmoved = Fails(res, both, guidance)
        \/ unmoved = Fails(res, {"RestoreFailed"}, guidance)
        \/ unmoved = Fails(res, {"Failed"}, Nothing)
    BY DEF Unmoved
  <1>3. /\ both \in SUBSET Errors /\ {"RestoreFailed"} \in SUBSET Errors
        /\ {"Failed"} \in SUBSET Errors
    BY DEF Errors
  <1> HIDE DEF guidance, unmoved, both
  <1>4. unmoved.recovery = guidance \/ unmoved.err = {"Failed"}
    BY <1>1, <1>2, <1>3, FailsResult
  <1>5. Advises(unmoved)
    BY <1>1, <1>4 DEF Advises
  <1> QED BY <1>5 DEF Answered, unmoved

\* Whatever was read back, the operator is sent on.
LEMMA JudgeAdvises ==
  ASSUME NEW req \in Request, NEW res \in Result, res.err = {}, NEW p \in Pushed,
         NEW topology \in Answer, NEW at \in Nat
  PROVE  Answered(req, Judge(res, req, p, topology, at))
  <1> DEFINE read   == [res EXCEPT !.after = topology.v1, !.afterAt = at]
             judged == Judge(res, req, p, topology, at)
             err    == {"Concurrent"} \union (IF p.interrupted THEN {"Interrupted"} ELSE {})
  <1>1. topology.v1 \in Seen
    BY DEF Answer
  <1>2. read \in Result /\ read.after = topology.v1 /\ read.err = {}
    <2>1. read = [[res EXCEPT !.after = topology.v1] EXCEPT !.afterAt = at]
      BY DEF Result
    <2> QED BY <1>1, <2>1 DEF Result
  <1>3. \/ topology.v1 = req.new /\ judged = Reached(read, req, p)
        \/ judged = Unmoved(read, req, p)
        \/ judged = Fails(read, err, RecoveryPlan(topology.v1))
    BY DEF Judge
  <1>4. err \in SUBSET Errors
    BY DEF Errors
  <1> HIDE DEF read, judged, err
  <1>5. CASE judged = Fails(read, err, RecoveryPlan(topology.v1))
    <2>1. judged.recovery = RecoveryPlan(topology.v1)
      BY <1>1, <1>2, <1>4, <1>5, GuidanceGiven, FailsResult
    <2> QED BY <1>1, <2>1, GuidanceGiven DEF Answered, Advises, judged
  <1>6. CASE topology.v1 = req.new /\ judged = Reached(read, req, p)
    BY <1>2, <1>6, ReachedAdvises DEF judged
  <1>7. CASE judged = Unmoved(read, req, p)
    BY <1>1, <1>2, <1>7, UnmovedAdvises DEF judged
  <1> QED BY <1>3, <1>5, <1>6, <1>7

\* A move whose operator has something to learn.
Due(i) ==
  \/ request[i] = Install /\ wire[i] # "none"
  \/ RestoreDue(request[i], result[i])

Advised(i) == told[i] \in {"applied", "recover", "readback"} \/ Unguarded(i)

LeftAt(i) ==
  /\ pc[i] \notin {"idle", "ended"} => file[i] = "reserved"
  /\ pc[i] = "encode" /\ Due(i) => Advises(result[i])
  /\ pc[i] = "ended" /\ Due(i) => Advised(i)

OutputType ==
  /\ file \in [Move -> {"none", "reserved", "record", "removed"}]
  /\ told \in [Move -> {"nothing", "applied", "recover", "readback", "good", "failed"}]

\* Whoever moved v1 last had its push applied.
WriterInv == writer \in Move => wire[writer] = "applied"

Left == Recorded /\ OutputType /\ WriterInv /\ \A i \in Move : LeftAt(i)

\* What is left of one move depends on its own state only.
LEMMA LeftUnchanged ==
  ASSUME NEW i \in Move, LeftAt(i),
         pc'[i] = pc[i], request'[i] = request[i], result'[i] = result[i],
         file'[i] = file[i], told'[i] = told[i], wire'[i] = "none" <=> wire[i] = "none"
  PROVE  LeftAt(i)'
  BY DEF LeftAt, Due, Advised, Unguarded

\* No move has left anything at the beginning.
LEMMA InitLeft == Init => Left
  <1> SUFFICES ASSUME Init PROVE Left
    OBVIOUS
  <1>1. Recorded
    BY InitRecorded
  <1>2. OutputType /\ WriterInv
    BY TagMoveAssumption DEF Init, OutputType, WriterInv
  <1>3. \A i \in Move : pc[i] = "idle"
    BY DEF Init
  <1>4. \A i \in Move : LeftAt(i)
    BY <1>3 DEF LeftAt
  <1> QED BY <1>1, <1>2, <1>4 DEF Left

\* The outputs of a move are its own.
LEMMA StepOutputs ==
  ASSUME Inv, OutputType, NEW i \in Move, Step(i)
  PROVE  /\ OutputType'
         /\ \A j \in Move \ {i} : /\ file'[j] = file[j] /\ told'[j] = told[j]
                                  /\ wire'[j] = wire[j]
         /\ wire[i] = "applied" => wire'[i] = "applied"
         /\ writer' = writer
  <1> USE DEF Inv, TypeOK, OutputType
  <1>1. CASE Reserve(i) \/ ReserveFails(i)
    <2>1. /\ file' \in {file, [file EXCEPT ![i] = "reserved"], [file EXCEPT ![i] = "removed"]}
          /\ told' \in {told, [told EXCEPT ![i] = "failed"]}
          /\ UNCHANGED <<wire, writer>>
      BY <1>1 DEF Reserve, ReserveFails, history
    <2> QED BY <2>1
  <1>2. CASE WriteRecord(i)
    <2>1. /\ file' \in {[file EXCEPT ![i] = "record"], [file EXCEPT ![i] = "removed"]}
          /\ told' \in {[told EXCEPT ![i] = Told(result[i])],
                        [told EXCEPT ![i] = TagRecordPersistenceError(result[i])]}
          /\ UNCHANGED <<wire, writer>>
      BY <1>2 DEF WriteRecord, history
    <2>2. /\ Told(result[i]) \in {"applied", "recover", "readback", "failed"}
          /\ TagRecordPersistenceError(result[i]) \in {"recover", "readback", "good"}
      BY DEF Told, TagRecordPersistenceError
    <2> QED BY <2>1, <2>2
  <1>3. CASE SendPush(i)
    <2>1. /\ wire' = [wire EXCEPT ![i] = "sent"] /\ wire[i] = "none"
          /\ UNCHANGED <<file, told, writer>>
      BY <1>3 DEF SendPush, At, output, history, WireInv
    <2> QED BY <2>1
  <1>4. CASE \/ VerifyLocalPreconditions(i) \/ ReadBefore(i) \/ VerifyBefore(i) \/ PushNotSent(i)
             \/ PushReturns(i) \/ ReadAfter(i) \/ JudgeAfter(i)
    <2>1. UNCHANGED <<file, told, wire, writer>>
      BY <1>4 DEF VerifyLocalPreconditions, ReadBefore, VerifyBefore, PushNotSent, PushReturns,
                  ReadAfter, JudgeAfter, output, history
    <2> QED BY <2>1
  <1> QED BY <1>1, <1>2, <1>3, <1>4 DEF Step

\* A step hands the guidance on, up to the last line.
LEMMA StepLeftAt ==
  ASSUME Left, NEW i \in Move, Step(i)
  PROVE  LeftAt(i)'
  <1>1. /\ Inv /\ Shaped(i) /\ LeftAt(i) /\ request[i] \in Request /\ result[i] \in Result
        /\ push[i] \in Pushed /\ seen[i] \in Answer /\ cancelled[i] \in BOOLEAN
    BY DEF Left, Recorded, ShapeInv, Inv, TypeOK
  <1>2. CASE Reserve(i) \/ ReserveFails(i)
    <2>1. /\ pc[i] = "idle" /\ result' = result /\ wire' = wire
          /\ \/ pc'[i] = "local" /\ file'[i] = "reserved"
             \/ pc'[i] = "ended" /\ request' = request
      BY <1>1, <1>2 DEF Reserve, ReserveFails, At, Left, OutputType, Inv, TypeOK
    <2>2. result[i].err = {} /\ wire[i] = "none"
      BY <1>1, <2>1 DEF Shaped, NoResult, Inv, WireInv
    <2> QED BY <2>1, <2>2 DEF LeftAt, Due, RestoreDue
  <1>3. CASE VerifyLocalPreconditions(i) \/ ReadBefore(i)
    <2>1. /\ pc[i] \in {"local", "read"} /\ UNCHANGED <<request, wire, file>>
          /\ result[i] = NoResult /\ wire[i] = "none"
          /\ \/ pc'[i] \in {"read", "verify"}
             \/ /\ pc'[i] = "encode"
                /\ \E err \in {"Precondition", "Interrupted"} :
                     result'[i] = Fails(NoResult, {err}, Nothing)
      <3>1. /\ pc[i] \in {"local", "read"} /\ UNCHANGED <<request, wire, file>>
            /\ \/ \E to \in {"read", "verify"} : pc' = [pc EXCEPT ![i] = to]
               \/ /\ pc' = [pc EXCEPT ![i] = "encode"]
                  /\ \E err \in {"Precondition", "Interrupted"} :
                       result' = [result EXCEPT ![i] = Fails(@, {err}, Nothing)]
        BY <1>3 DEF VerifyLocalPreconditions, ReadBefore, At, output
      <3>2. result[i] = NoResult /\ wire[i] = "none"
        BY <1>1, <3>1 DEF Shaped, Inv, WireInv
      <3> QED BY <1>1, <3>1, <3>2 DEF Inv, TypeOK
    <2>2. file[i] = "reserved"
      BY <1>1, <2>1 DEF LeftAt
    <2>3. CASE pc'[i] = "encode"
      <3>1. PICK err \in {"Precondition", "Interrupted"} :
              result'[i] = Fails(NoResult, {err}, Nothing)
        BY <2>1, <2>3
      <3>2. {err} \in SUBSET Errors /\ NoResult \in Result /\ Nothing \in Advice
        BY NoPushTypes DEF Errors, Advice
      <3>3. result'[i].after = Nothing /\ result'[i].before = Nothing
        <4>1. NoResult.after = Nothing /\ NoResult.before = Nothing
          BY DEF NoResult
        <4> QED BY <3>1, <3>2, <4>1, FailsResult
      <3>4. ~RestoreDue(request'[i], result'[i])
        BY <3>3, Targets DEF RestoreDue, Latest
      <3> QED BY <2>1, <2>2, <2>3, <3>4 DEF LeftAt, Due
    <2> QED BY <2>1, <2>2, <2>3 DEF LeftAt
  <1>4. CASE VerifyBefore(i)
    <2>1. PICK now \in Readings :
            LET judged == Precondition(result[i], request[i], seen[i], now, cancelled[i]) IN
            /\ At(i, "verify", IF judged.err = {} THEN "push" ELSE "encode")
            /\ result' = [result EXCEPT ![i] = judged]
            /\ UNCHANGED <<request, wire, file>>
      BY <1>4 DEF VerifyBefore, output
    <2> DEFINE judged == Precondition(NoResult, request[i], seen[i], now, cancelled[i])
    <2>2. now \in Nat
      BY <1>1, ReadingsForward
    <2>3. RestoreDue(request[i], judged) => Advises(judged)
      BY <1>1, <2>2, PreconditionAdvises
    <2>4. pc[i] = "verify" /\ result[i] = NoResult
      BY <1>1, <2>1 DEF At, Shaped
    <2>5. wire[i] = "none" /\ file[i] = "reserved"
      BY <1>1, <2>4 DEF Inv, WireInv, LeftAt
    <2>6. /\ result'[i] = judged /\ request' = request /\ wire' = wire /\ file' = file
          /\ pc'[i] \in {"push", "encode"}
      BY <1>1, <2>1, <2>4 DEF At, Inv, TypeOK
    <2> HIDE DEF judged
    <2> QED BY <2>3, <2>5, <2>6 DEF LeftAt, Due
  <1>5. CASE SendPush(i) \/ PushNotSent(i) \/ PushReturns(i)
    <2>1. pc[i] \in {"push", "sent"} /\ pc'[i] \in {"sent", "readback"} /\ file' = file
      BY <1>1, <1>5 DEF SendPush, PushNotSent, PushReturns, At, Inv, TypeOK, output
    <2> QED BY <1>1, <2>1 DEF LeftAt
  <1>6. CASE ReadAfter(i)
    <2>1. /\ pc[i] = "readback" /\ UNCHANGED <<request, wire, file>>
          /\ \/ pc'[i] = "judge"
             \/ pc'[i] = "encode" /\ result'[i] = Unreadable(result[i], request[i], push[i])
      BY <1>1, <1>6 DEF ReadAfter, At, Inv, TypeOK, output
    <2>2. file[i] = "reserved"
      BY <1>1, <2>1 DEF LeftAt
    <2>3. Answered(request[i], Unreadable(result[i], request[i], push[i]))
      BY <1>1, UnreadableAdvises
    <2> QED BY <2>1, <2>2, <2>3 DEF LeftAt, Due, Answered
  <1>7. CASE JudgeAfter(i)
    <2>1. PICK now \in Readings :
            /\ result' = [result EXCEPT ![i] = Judge(@, request[i], push[i], seen[i], now)]
            /\ pc[i] = "judge" /\ pc' = [pc EXCEPT ![i] = "encode"]
            /\ UNCHANGED <<request, wire, file>>
      BY <1>7 DEF JudgeAfter, At, output
    <2>2. now \in Nat /\ result[i].err = {} /\ file[i] = "reserved"
      BY <1>1, <2>1, ReadingsForward DEF Shaped, Pending, LeftAt
    <2>3. Answered(request[i], Judge(result[i], request[i], push[i], seen[i], now))
      BY <1>1, <2>2, JudgeAdvises
    <2>4. /\ result'[i] = Judge(result[i], request[i], push[i], seen[i], now)
          /\ pc'[i] = "encode"
      BY <1>1, <2>1 DEF Inv, TypeOK
    <2> QED BY <2>1, <2>2, <2>3, <2>4 DEF LeftAt, Due, Answered
  <1>8. CASE WriteRecord(i)
    <2>1. /\ pc[i] = "encode" /\ pc'[i] = "ended" /\ UNCHANGED <<request, wire, result>>
          /\ told'[i] \in {Told(result[i]), TagRecordPersistenceError(result[i])}
      BY <1>1, <1>8 DEF WriteRecord, At, Inv, TypeOK, Left, OutputType, history
    <2>2. Due(i) => Advises(result[i])
      BY <1>1, <2>1 DEF LeftAt
    <2>3. Advises(result[i]) => Advised(i)'
      <3>1. ASSUME Advises(result[i]), ~Unguarded(i)
            PROVE  told'[i] \in {"applied", "recover", "readback"}
        BY <1>1, <2>1, <3>1, AdviceTold DEF Unguarded
      <3> QED BY <2>1, <3>1 DEF Advised, Unguarded
    <2> QED BY <2>1, <2>2, <2>3 DEF LeftAt, Due
  <1> QED BY <1>2, <1>3, <1>4, <1>5, <1>6, <1>7, <1>8 DEF Step

\* Every step keeps what the moves leave behind.
LEMMA StepLeft == Left /\ [Next]_vars => Left'
  <1> SUFFICES ASSUME Left, [Next]_vars PROVE Left'
    OBVIOUS
  <1>1. Inv /\ Recorded' /\ OutputType /\ WriterInv
    BY StepRecorded DEF Left, Recorded
  <1>2. ASSUME NEW i \in Move, Step(i) PROVE Left'
    <2>1. /\ OutputType'
          /\ \A j \in Move \ {i} : /\ file'[j] = file[j] /\ told'[j] = told[j]
                                   /\ wire'[j] = wire[j]
          /\ wire[i] = "applied" => wire'[i] = "applied"
          /\ writer' = writer
      BY <1>1, <1>2, StepOutputs
    <2>2. \A j \in Move \ {i} : LeftAt(j)'
      BY <1>1, <1>2, <2>1, StepKeeps, LeftUnchanged DEF OthersKeep, Left
    <2>3. LeftAt(i)'
      BY <1>2, StepLeftAt
    <2>4. WriterInv'
      BY <1>1, <2>1 DEF WriterInv
    <2> QED BY <1>1, <2>1, <2>2, <2>3, <2>4 DEF Left
  <1>3. ASSUME NEW i \in Move, RemoteReceives(i) PROVE Left'
    <2>1. /\ wire[i] = "sent" /\ UNCHANGED <<pc, request, result, file, told>>
          /\ \/ wire' = [wire EXCEPT ![i] = "applied"] /\ writer' = i
             \/ wire' = [wire EXCEPT ![i] = "uptodate"] /\ writer' = writer
             \/ wire' = [wire EXCEPT ![i] = "rejected"] /\ writer' = writer
      BY <1>3 DEF RemoteReceives, output, history
    <2>2. \A j \in Move : wire'[j] = "none" <=> wire[j] = "none"
      BY <1>1, <2>1 DEF Inv, TypeOK
    <2>3. \A j \in Move : LeftAt(j)'
      BY <2>1, <2>2, LeftUnchanged DEF Left
    <2>4. WriterInv'
      BY <1>1, <2>1 DEF Inv, TypeOK, WriterInv
    <2>5. OutputType'
      BY <1>1, <2>1 DEF OutputType
    <2> QED BY <1>1, <2>3, <2>4, <2>5 DEF Left
  <1>4. ASSUME NEW i \in Move, Kill(i) PROVE Left'
    <2>1. /\ pc' = [pc EXCEPT ![i] = "dead"] /\ pc[i] \notin {"idle", "ended"}
          /\ result' = [result EXCEPT ![i] = NoResult]
          /\ UNCHANGED <<request, wire, file, told, writer>>
      BY <1>4 DEF Kill, Running, output, history
    <2>2. \A j \in Move \ {i} : pc'[j] = pc[j] /\ result'[j] = result[j]
      BY <1>1, <2>1 DEF Inv, TypeOK
    <2>3. \A j \in Move \ {i} : LeftAt(j)'
      BY <2>1, <2>2, LeftUnchanged DEF Left
    <2>4. LeftAt(i)'
      BY <1>1, <2>1 DEF Left, LeftAt, Inv, TypeOK
    <2> QED BY <1>1, <2>1, <2>3, <2>4 DEF Left, OutputType, WriterInv
  <1>5. CASE \/ ForeignChange \/ WorktreeChange \/ PublishObservations \/ UNCHANGED vars
             \/ \E i \in Move : Interrupt(i)
             \/ \E i, r \in Move : GeneratePackInput(i, r) \/ RenderPack(i, r)
    <2>1. /\ UNCHANGED <<pc, request, result, wire, file, told>>
          /\ writer' \in {writer, Nothing}
      BY <1>5 DEF ForeignChange, WorktreeChange, PublishObservations, Interrupt,
                  GeneratePackInput, RenderPack, vars, output, history
    <2>2. \A j \in Move : LeftAt(j)'
      BY <2>1, LeftUnchanged DEF Left
    <2> QED BY <1>1, <2>1, <2>2, TagMoveAssumption DEF Left, OutputType, WriterInv
  <1> QED BY <1>2, <1>3, <1>4, <1>5 DEF Next

\* Whoever leaves B behind says so: a confirmed record, guidance to restore or
\* to read the remote again, or the reserved file of a process that died.  Two
\* endings are set aside (Unguarded), because the tool gives no guidance there: a
\* push that failed without an interruption and is applied after A was read back,
\* and a restore that is interrupted between its reading of B and its push.
THEOREM LeftBehindTheorem == Spec => []NothingLeftBehind
  <1>1. Left => NothingLeftBehind
    <2> SUFFICES ASSUME Left, NEW i \in Move
                 PROVE  /\ pc[i] = "ended" /\ (LeftInstalled(i) \/ LeftUnrestored(i)) => Advised(i)
                        /\ pc[i] = "dead" => file[i] = "reserved"
      BY DEF NothingLeftBehind, Advised
    <2>1. LeftAt(i) /\ WriterInv /\ request[i] \in Request /\ wire[i] \in
            {"none", "sent", "applied", "uptodate", "rejected"}
      BY DEF Left, Recorded, Inv, TypeOK
    <2>2. LeftInstalled(i) => Due(i)
      BY <2>1 DEF LeftInstalled, WriterInv, Due
    <2>3. LeftUnrestored(i) => Due(i)
      BY DEF LeftUnrestored, Due, RestoreDue, Latest
    <2> QED BY <2>1, <2>2, <2>3 DEF LeftAt
  <1> QED BY <1>1, InitLeft, StepLeft, PTL DEF Spec
=============================================================================
