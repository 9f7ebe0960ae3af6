------------------------ MODULE ArchiveStore_proofs ------------------------
(***************************************************************************)
(* Theorems about ArchiveStore, for every set of writers, batches,         *)
(* repositories and digests, and about a reader of the archive while they  *)
(* write (ArchiveReplay).                                                  *)
(***************************************************************************)
EXTENDS ArchiveReplay, FiniteSetTheorems, TLAPS

USE ContentAssumption DEF BatchContent, OfferedCheckpoint, CheckpointRow, SessionRow

\* The variables keep their types: a writer that is appending has a batch, and
\* one that is copying has a raw object (the locals of append and RetainRaw).
THEOREM TypeCorrect == Spec => []TypeOK
<1>1. Init => TypeOK
  BY DEF Init, TypeOK, BatchState, ObjectState, Step
<1>2. TypeOK /\ [Next]_vars => TypeOK'
  <2> SUFFICES ASSUME TypeOK, [Next]_vars PROVE TypeOK'
    OBVIOUS
  <2> USE DEF TypeOK, BatchState, ObjectState, Step
  <2>1. CASE UNCHANGED vars
    BY <2>1 DEF vars, database, control
  <2>2. ASSUME NEW w \in Writer, NEW b \in Batch, StartAppend(w, b) PROVE TypeOK'
    BY <2>2 DEF StartAppend, Goto, database
  <2>3. ASSUME NEW w \in Writer, Interrupt(w) PROVE TypeOK'
    BY <2>3 DEF Interrupt, Leave, Goto, database
  <2>4. ASSUME NEW w \in Writer, NEW d \in Digest, RetainExisting(w, d) PROVE TypeOK'
    BY <2>4 DEF RetainExisting, Goto, database
  <2>5. ASSUME NEW w \in Writer, NEW d \in Digest, RetainRefused(w, d) PROVE TypeOK'
    BY <2>5 DEF RetainRefused, Leave, Goto, database
  <2>6. ASSUME NEW w \in Writer, NEW d \in Digest, RetainCreate(w, d) PROVE TypeOK'
    BY <2>6 DEF RetainCreate, Goto, database
  <2>7. ASSUME NEW w \in Writer, RetainCopy(w) PROVE TypeOK'
    BY <2>7 DEF RetainCopy, Proceed, Goto, database
  <2>8. ASSUME NEW w \in Writer, RetainKeep(w) PROVE TypeOK'
    BY <2>8 DEF RetainKeep, Proceed, Goto, database
  <2>9. ASSUME NEW w \in Writer, RetainError(w) PROVE TypeOK'
    BY <2>9 DEF RetainError, Leave, Goto, database
  <2>10. ASSUME NEW w \in Writer, Describe(w) PROVE TypeOK'
    BY <2>10 DEF Describe, Overtake, Goto, database
  <2>11. ASSUME NEW w \in Writer, RetainedAll(w) PROVE TypeOK'
    BY <2>11 DEF RetainedAll, Proceed, Goto, database
  <2>12. ASSUME NEW w \in Writer, VerifyRaw(w) PROVE TypeOK'
    BY <2>12 DEF VerifyRaw, Proceed, Goto, database
  <2>13. ASSUME NEW w \in Writer, Prepare(w) PROVE TypeOK'
    <3>1. sessions' \subseteq SessionRow
      BY <2>13 DEF Prepare
    <3>2. batchState' \in [Batch -> BatchState] /\ current' \subseteq Writer
      BY <2>13 DEF Prepare, PreparedState, Overtake
    <3>3. CASE batchState[job[w]] = "COMMITTED"
      <4>1. Leave(w)
        BY <2>13, <3>3 DEF Prepare
      <4> QED
        BY <2>13, <3>1, <3>2, <4>1 DEF Prepare, Leave, Goto
    <3>4. CASE batchState[job[w]] # "COMMITTED"
      <4>1. Goto(w, "read") /\ UNCHANGED <<job, todo, holding>>
        BY <2>13, <3>4 DEF Prepare
      <4> QED
        BY <2>13, <3>1, <3>2, <4>1 DEF Prepare, Goto
    <3> QED
      BY <3>3, <3>4
  <2>14. ASSUME NEW w \in Writer, ReadState(w) PROVE TypeOK'
    <3>1. CASE batchState[job[w]] = "COMMITTED"
      <4>1. Leave(w) /\ UNCHANGED current
        BY <2>14, <3>1 DEF ReadState
      <4> QED
        BY <2>14, <4>1 DEF ReadState, Leave, Goto, database
    <3>2. CASE batchState[job[w]] # "COMMITTED"
      <4>1. Goto(w, "write") /\ current' = current \union {w}
                             /\ UNCHANGED <<job, todo, holding>>
        BY <2>14, <3>2 DEF ReadState
      <4> QED
        BY <2>14, <4>1 DEF ReadState, Goto, database
    <3> QED
      BY <3>1, <3>2
  <2>15. ASSUME NEW w \in Writer, Commit(w) PROVE TypeOK'
    <3>1. Content[job[w]] \in BatchContent
      BY <2>15 DEF Commit
    <3>2. capability' \in [Capability -> Status \union {Nothing}]
      BY <2>15, <3>1 DEF Commit, Latest
    <3>3. checkpoint' \in [Repo -> CheckpointRow \union {Nothing}]
      BY <2>15, <3>1 DEF Commit, Replaces
    <3>4. watched' \in [Repo -> SUBSET Run]
      BY <2>15, <3>1 DEF Commit, Replaces
    <3>5. /\ evidence' \subseteq Evidence
          /\ facts' \subseteq Fact
          /\ links' \subseteq Fact \X Object
      BY <2>15, <3>1 DEF Commit
    <3> QED
      BY <2>15, <3>2, <3>3, <3>4, <3>5 DEF Commit, Overtake, Leave, Goto
  <2>16. ASSUME NEW w \in Writer, Refused(w) PROVE TypeOK'
    BY <2>16 DEF Refused, Leave, Goto, database
  <2> QED
    BY <2>1, <2>2, <2>3, <2>4, <2>5, <2>6, <2>7, <2>8, <2>9, <2>10, <2>11,
       <2>12, <2>13, <2>14, <2>15, <2>16 DEF Next, Retain, AppendBatch
<1> QED
  BY <1>1, <1>2, PTL DEF Spec

-----------------------------------------------------------------------------
(* What a step may do to the database                                       *)

tables == <<sessions, batchState, evidence, facts, links, capability, checkpoint,
            watched>>

\* Only the two transactions change what a replay reads.
LEMMA TwoTransactions ==
  [Next]_vars => \/ UNCHANGED tables
                 \/ \E w \in Writer : Prepare(w) \/ Commit(w)
<1> SUFFICES ASSUME [Next]_vars,
                    ~ \E w \in Writer : Prepare(w) \/ Commit(w)
             PROVE  UNCHANGED tables
  OBVIOUS
<1> USE DEF tables, database
<1>1. CASE UNCHANGED vars
  BY <1>1 DEF vars
<1>2. ASSUME NEW w \in Writer, NEW b \in Batch, StartAppend(w, b)
      PROVE  UNCHANGED tables
  BY <1>2 DEF StartAppend
<1>3. ASSUME NEW w \in Writer, Retain(w) PROVE UNCHANGED tables
  BY <1>3 DEF Retain, RetainExisting, RetainRefused, RetainCreate, RetainCopy,
     RetainKeep, RetainError, Describe, RetainedAll
<1>4. ASSUME NEW w \in Writer, AppendBatch(w) PROVE UNCHANGED tables
  BY <1>4 DEF AppendBatch, VerifyRaw, ReadState, Refused
<1>5. ASSUME NEW w \in Writer, Interrupt(w) PROVE UNCHANGED tables
  BY <1>5 DEF Interrupt
<1> QED
  BY <1>1, <1>2, <1>3, <1>4, <1>5 DEF Next

\* What the first transaction leaves behind.
LEMMA PrepareEffect ==
  ASSUME TypeOK, NEW w \in Writer, Prepare(w)
  PROVE  /\ Committed' = Committed
         /\ sessions' = sessions \union Content[job[w]].sessions
         /\ \A b \in Batch :
              batchState'[b] # "ABSENT" => batchState[b] # "ABSENT" \/ b = job[w]
         /\ UNCHANGED <<evidence, facts, links, capability, checkpoint, watched>>
<1>1. job[w] \in Batch
  BY DEF TypeOK, Prepare
<1>2. \A b \in Batch : batchState'[b] = "COMMITTED" <=> batchState[b] = "COMMITTED"
  BY <1>1 DEF TypeOK, Prepare, PreparedState
<1>3. \A b \in Batch :
        batchState'[b] # "ABSENT" => batchState[b] # "ABSENT" \/ b = job[w]
  BY <1>1 DEF TypeOK, Prepare
<1> QED
  BY <1>2, <1>3 DEF Prepare, Committed

\* What the second transaction leaves behind.
LEMMA CommitEffect ==
  ASSUME TypeOK, NEW w \in Writer, Commit(w)
  PROVE  /\ job[w] \in Batch
         /\ Committed' = Committed \union {job[w]}
         /\ evidence' = evidence \union Content[job[w]].evidence
         /\ facts' = facts \union Content[job[w]].facts
         /\ links' = links \union Content[job[w]].links
         /\ Referenced(job[w])
         /\ \A c \in Capability :
              capability'[c] = Latest(capability[c], Content[job[w]].capabilities[c])
         /\ \A r \in Repo :
              IF Replaces(job[w], r)
              THEN /\ checkpoint'[r] = Content[job[w]].checkpoints[r].row
                   /\ watched'[r] = Content[job[w]].checkpoints[r].parents
              ELSE checkpoint'[r] = checkpoint[r] /\ watched'[r] = watched[r]
         /\ UNCHANGED sessions
<1>1. job[w] \in Batch
  BY DEF TypeOK, Commit
<1>2. Committed' = Committed \union {job[w]}
  BY <1>1 DEF TypeOK, Commit, Committed
<1> QED
  BY <1>1, <1>2 DEF Commit

-----------------------------------------------------------------------------
(* A committed batch is whole                                               *)

\* A batch row is written with the rows of its sessions.
PreparedSessions ==
  \A b \in Batch : batchState[b] # "ABSENT" => Content[b].sessions \subseteq sessions

\* A writer that is past its first transaction has a batch row.
PastPrepare ==
  \A w \in Writer : pc[w] \in {"read", "write"} => batchState[job[w]] # "ABSENT"

WholeInv == TypeOK /\ PreparedSessions /\ PastPrepare /\ CommittedWhole

\* Batch rows are never deleted, and a writer only gets past its first
\* transaction when that has written its batch row.
LEMMA BatchRowKept ==
  ASSUME TypeOK, [Next]_vars, NEW b \in Batch, batchState[b] # "ABSENT"
  PROVE  batchState'[b] # "ABSENT"
<1>1. CASE UNCHANGED tables
  BY <1>1 DEF tables
<1>2. ASSUME NEW w \in Writer, Prepare(w) PROVE batchState'[b] # "ABSENT"
  BY <1>2 DEF Prepare, PreparedState, TypeOK
<1>3. ASSUME NEW w \in Writer, Commit(w) PROVE batchState'[b] # "ABSENT"
  BY <1>3 DEF Commit, TypeOK
<1> QED
  BY <1>1, <1>2, <1>3, TwoTransactions

LEMMA PastPrepareStep == TypeOK /\ PastPrepare /\ [Next]_vars => PastPrepare'
<1> SUFFICES ASSUME TypeOK, PastPrepare, [Next]_vars,
                    NEW v \in Writer, pc'[v] \in {"read", "write"}
             PROVE  batchState'[job'[v]] # "ABSENT"
  BY DEF PastPrepare
<1> DEFINE Was == pc[v] \in {"read", "write"} /\ job'[v] = job[v]
<1>0. Was => batchState'[job'[v]] # "ABSENT"
  BY BatchRowKept DEF PastPrepare, TypeOK
<1> USE DEF TypeOK, Goto
<1>1. CASE UNCHANGED vars
  BY <1>0, <1>1 DEF vars, control
<1>2. ASSUME NEW w \in Writer, NEW b \in Batch, StartAppend(w, b) PROVE Was
  BY <1>2 DEF StartAppend
<1>3. ASSUME NEW w \in Writer, Interrupt(w) \/ Refused(w) PROVE Was
  BY <1>3 DEF Interrupt, Refused, Leave
<1>4. ASSUME NEW w \in Writer, Retain(w) PROVE Was
  <2>1. ASSUME NEW d \in Digest, RetainExisting(w, d) \/ RetainCreate(w, d) PROVE Was
    BY <2>1 DEF RetainExisting, RetainCreate
  <2>2. ASSUME NEW d \in Digest, RetainRefused(w, d) PROVE Was
    BY <2>2 DEF RetainRefused, Leave
  <2>3. CASE RetainCopy(w) \/ RetainKeep(w) \/ RetainedAll(w)
    BY <2>3 DEF RetainCopy, RetainKeep, RetainedAll, Proceed
  <2>4. CASE RetainError(w)
    BY <2>4 DEF RetainError, Leave
  <2>5. CASE Describe(w)
    BY <2>5 DEF Describe
  <2> QED
    BY <1>4, <2>1, <2>2, <2>3, <2>4, <2>5 DEF Retain
<1>5. ASSUME NEW w \in Writer, VerifyRaw(w) PROVE Was
  BY <1>5 DEF VerifyRaw, Proceed
<1>6. ASSUME NEW w \in Writer, Prepare(w) PROVE batchState'[job'[v]] # "ABSENT"
  <2>1. CASE Leave(w)
    BY <1>0, <1>6, <2>1 DEF Leave, Prepare
  <2>2. CASE Goto(w, "read") /\ UNCHANGED <<job, todo, holding>>
    <3>1. CASE v = w
      BY <1>6, <2>2, <3>1 DEF Prepare, PreparedState
    <3>2. CASE v # w
      BY <1>0, <1>6, <2>2, <3>2 DEF Prepare
    <3> QED
      BY <3>1, <3>2
  <2> QED
    BY <1>6, <2>1, <2>2 DEF Prepare
<1>7. ASSUME NEW w \in Writer, ReadState(w) PROVE Was
  <2>1. CASE Leave(w)
    BY <1>7, <2>1 DEF Leave, ReadState
  <2>2. CASE Goto(w, "write") /\ UNCHANGED <<job, todo, holding>>
    BY <1>7, <2>2 DEF ReadState
  <2> QED
    BY <1>7, <2>1, <2>2 DEF ReadState
<1>8. ASSUME NEW w \in Writer, Commit(w) PROVE Was
  BY <1>8 DEF Commit, Leave
<1> QED
  BY <1>0, <1>1, <1>2, <1>3, <1>4, <1>5, <1>6, <1>7, <1>8 DEF Next, AppendBatch

\* The inductive invariant behind "Append atomically completes a prepared
\* batch": the sessions of every batch row are there, and a writer reaches the
\* second transaction only with a batch row of its own.
LEMMA WholeInvariant == Spec => []WholeInv
<1>1. Init => WholeInv
  BY DEF Init, WholeInv, TypeOK, BatchState, ObjectState, Step, PreparedSessions,
     PastPrepare, CommittedWhole, Committed
<1>2. WholeInv /\ TypeOK' /\ [Next]_vars => WholeInv'
  <2> SUFFICES ASSUME WholeInv, TypeOK', [Next]_vars PROVE WholeInv'
    OBVIOUS
  <2> USE DEF WholeInv
  <2>1. PastPrepare'
    BY PastPrepareStep
  <2>2. CASE UNCHANGED tables
    BY <2>1, <2>2 DEF tables, PreparedSessions, CommittedWhole, Committed
  <2>3. ASSUME NEW w \in Writer, Prepare(w) PROVE WholeInv'
    <3>1. PreparedSessions'
      BY <2>3, PrepareEffect DEF PreparedSessions
    <3>2. CommittedWhole'
      BY <2>3, PrepareEffect DEF CommittedWhole
    <3> QED
      BY <2>1, <3>1, <3>2
  <2>4. ASSUME NEW w \in Writer, Commit(w) PROVE WholeInv'
    <3>1. batchState[job[w]] # "ABSENT"
      BY <2>4 DEF PastPrepare, Commit
    <3>2. PreparedSessions'
      BY <2>4, <3>1 DEF Commit, PreparedSessions, TypeOK
    <3>3. Content[job[w]].sessions \subseteq sessions
      BY <2>4, <3>1, CommitEffect DEF PreparedSessions
    <3>4. \A c \in Capability :
            capability[c] # Nothing \/ Content[job[w]].capabilities[c] # Nothing
              => capability'[c] # Nothing
      BY <2>4, CommitEffect DEF Latest
    <3>5. CommittedWhole'
      BY <2>4, <3>3, <3>4, CommitEffect DEF CommittedWhole
    <3> QED
      BY <2>1, <3>2, <3>5
  <2> QED
    BY <2>2, <2>3, <2>4, TwoTransactions
<1> QED
  BY <1>1, <1>2, TypeCorrect, PTL DEF Spec

\* A COMMITTED batch has all its sessions, evidence, facts and capabilities in
\* the database (Append: "atomically completes a prepared batch").
THEOREM WholeTheorem == Spec => []CommittedWhole
BY WholeInvariant, PTL DEF WholeInv

-----------------------------------------------------------------------------
(* Nothing of a batch is visible before it is committed                     *)

\* Facts, evidence and capabilities only ever come from a COMMITTED batch: the
\* second transaction, which writes them, is also the one that commits.
THEOREM UncommittedInvisible == Spec => []NothingUncommitted
<1>1. Init => NothingUncommitted
  BY DEF Init, NothingUncommitted
<1>2. TypeOK /\ NothingUncommitted /\ [Next]_vars => NothingUncommitted'
  <2> SUFFICES ASSUME TypeOK, NothingUncommitted, [Next]_vars PROVE NothingUncommitted'
    OBVIOUS
  <2> USE DEF NothingUncommitted
  <2>1. CASE UNCHANGED tables
    BY <2>1 DEF tables, Committed
  <2>2. ASSUME NEW w \in Writer, Prepare(w) PROVE NothingUncommitted'
    BY <2>2, PrepareEffect
  <2>3. ASSUME NEW w \in Writer, Commit(w) PROVE NothingUncommitted'
    <3>1. \A f \in facts' : \E b \in Committed' : f \in Content[b].facts
      BY <2>3, CommitEffect
    <3>2. \A e \in evidence' : \E b \in Committed' : e \in Content[b].evidence
      BY <2>3, CommitEffect
    <3>3. ASSUME NEW c \in Capability, capability'[c] # Nothing
          PROVE  \E b \in Committed' : Content[b].capabilities[c] = capability'[c]
      <4>1. CASE capability'[c] = capability[c]
        BY <2>3, <3>3, <4>1, CommitEffect
      <4>2. CASE capability'[c] # capability[c]
        BY <2>3, <4>2, CommitEffect DEF Latest
      <4> QED
        BY <4>1, <4>2
    <3> QED
      BY <3>1, <3>2, <3>3
  <2> QED
    BY <2>1, <2>2, <2>3, TwoTransactions
<1> QED
  BY <1>1, <1>2, TypeCorrect, PTL DEF Spec

-----------------------------------------------------------------------------
(* The incremental frontier                                                 *)

\* On integers (with Null below every instant) insertCheckpoint's switch is one
\* comparison.
LEMMA AdvancesIsOrder ==
  ASSUME NEW held \in CheckpointRow, NEW offered \in CheckpointRow
  PROVE  Advances(held, offered) <=> held.watermark <= offered.watermark
BY DEF Advances, Null

\* The checkpoint and the watch set of a repository are those of one committed
\* batch with the latest watermark of all (insertCheckpoint).
THEOREM FrontierTheorem == Spec => []FrontierIsLatest
<1>1. Init => FrontierIsLatest
  BY DEF Init, FrontierIsLatest, Offers, Committed
<1>2. TypeOK /\ FrontierIsLatest /\ [Next]_vars => FrontierIsLatest'
  <2> SUFFICES ASSUME TypeOK, FrontierIsLatest, [Next]_vars PROVE FrontierIsLatest'
    OBVIOUS
  <2>1. CASE UNCHANGED tables
    BY <2>1 DEF tables, FrontierIsLatest, Offers, Committed
  <2>2. ASSUME NEW w \in Writer, Prepare(w) PROVE FrontierIsLatest'
    BY <2>2, PrepareEffect DEF FrontierIsLatest, Offers
  <2>3. ASSUME NEW w \in Writer, Commit(w), NEW r \in Repo
        PROVE  (IF checkpoint[r] = Nothing
                THEN Offers(r) = {} /\ watched[r] = {}
                ELSE /\ \E b \in Offers(r) :
                          /\ checkpoint[r] = Content[b].checkpoints[r].row
                          /\ watched[r] = Content[b].checkpoints[r].parents
                     /\ \A b \in Offers(r) :
                          Content[b].checkpoints[r].row.watermark
                            <= checkpoint[r].watermark)'
    <3> DEFINE offer == Content[job[w]].checkpoints[r]
    <3>0. /\ job[w] \in Batch
          /\ Committed' = Committed \union {job[w]}
          /\ checkpoint[r] \in CheckpointRow \union {Nothing}
          /\ offer # Nothing => offer \in OfferedCheckpoint
      BY <2>3, CommitEffect DEF TypeOK
    <3>1. Offers(r)' = Offers(r) \union (IF offer = Nothing THEN {} ELSE {job[w]})
      BY <3>0 DEF Offers
    <3>2. \A b \in Offers(r) : Content[b].checkpoints[r] \in OfferedCheckpoint
      BY DEF Offers, Committed
    <3>3. CASE Replaces(job[w], r)
      <4>1. offer # Nothing /\ checkpoint'[r] = offer.row /\ watched'[r] = offer.parents
        BY <2>3, <3>3, CommitEffect DEF Replaces
      <4>2. \A b \in Offers(r) :
              Content[b].checkpoints[r].row.watermark <= offer.row.watermark
        <5>1. CASE checkpoint[r] = Nothing
          BY <5>1 DEF FrontierIsLatest
        <5>2. CASE checkpoint[r] # Nothing
          <6>1. checkpoint[r].watermark <= offer.row.watermark
            BY <3>0, <3>3, <4>1, <5>2, AdvancesIsOrder DEF Replaces
          <6>2. \A b \in Offers(r) :
                  Content[b].checkpoints[r].row.watermark <= checkpoint[r].watermark
            BY <5>2 DEF FrontierIsLatest
          <6>3. ASSUME NEW b \in Offers(r)
                PROVE  Content[b].checkpoints[r].row.watermark <= offer.row.watermark
            <7> DEFINE x == Content[b].checkpoints[r].row.watermark
                       y == checkpoint[r].watermark
                       z == offer.row.watermark
            <7>1. x \in Int /\ y \in Int /\ z \in Int
              BY <3>0, <3>2, <4>1, <5>2 DEF Null
            <7>2. x <= y /\ y <= z
              BY <6>1, <6>2
            <7> HIDE DEF x, y, z
            <7>3. x <= z
              BY <7>1, <7>2
            <7> QED
              BY <7>3 DEF x, z
          <6> QED
            BY <6>3
        <5> QED
          BY <5>1, <5>2
      <4>3. offer.row # Nothing /\ offer.row.watermark <= offer.row.watermark
        BY <3>0, <4>1 DEF Null
      <4> QED
        BY <3>1, <4>1, <4>2, <4>3
    <3>4. CASE ~ Replaces(job[w], r)
      <4>1. checkpoint'[r] = checkpoint[r] /\ watched'[r] = watched[r]
        BY <2>3, <3>4, CommitEffect
      <4>2. CASE offer = Nothing
        BY <3>1, <4>1, <4>2 DEF FrontierIsLatest
      <4>3. CASE offer # Nothing
        <5>1. checkpoint[r] # Nothing /\ ~ Advances(checkpoint[r], offer.row)
          BY <3>4, <4>3 DEF Replaces, Advances
        <5>2. offer.row.watermark <= checkpoint[r].watermark
          BY <3>0, <4>3, <5>1, AdvancesIsOrder DEF Null
        <5> QED
          BY <3>1, <4>1, <4>3, <5>1, <5>2 DEF FrontierIsLatest
      <4> QED
        BY <4>2, <4>3
    <3> QED
      BY <3>3, <3>4
  <2> QED
    BY <2>1, <2>2, <2>3, TwoTransactions DEF FrontierIsLatest
<1> QED
  BY <1>1, <1>2, TypeCorrect, PTL DEF Spec

-----------------------------------------------------------------------------
(* References                                                               *)

\* No link, derivation, checkpoint or watched parent ever dangles: the foreign keys are
\* checked against rows that no later step removes.
THEOREM ReferencesTheorem == Spec => []ReferencesClosed
<1>1. Init => ReferencesClosed
  BY DEF Init, ReferencesClosed, DerivesFrom
<1>2. TypeOK /\ ReferencesClosed /\ [Next]_vars => ReferencesClosed'
  <2> SUFFICES ASSUME TypeOK, ReferencesClosed, [Next]_vars PROVE ReferencesClosed'
    OBVIOUS
  <2> USE DEF ReferencesClosed
  <2>1. CASE UNCHANGED tables
    BY <2>1 DEF tables
  <2>2. ASSUME NEW w \in Writer, Prepare(w) PROVE ReferencesClosed'
    BY <2>2, PrepareEffect
  <2>3. ASSUME NEW w \in Writer, Commit(w) PROVE ReferencesClosed'
    <3>1. /\ \A link \in links' : \E e \in evidence' : ObjectOf[e] = link[2]
          /\ DerivesFrom(evidence', evidence')
      BY <2>3, CommitEffect DEF Referenced, DerivesFrom
    <3>2. ASSUME NEW r \in Repo
          PROVE  /\ checkpoint'[r] # Nothing => RepositoryFacts[r] \intersect facts' # {}
                 /\ \A u \in watched'[r] : RunFacts[u] \intersect facts' # {}
      <4>1. CASE Replaces(job[w], r)
        <5>1. /\ checkpoint'[r] = Content[job[w]].checkpoints[r].row
              /\ watched'[r] = Content[job[w]].checkpoints[r].parents
              /\ facts' = facts \union Content[job[w]].facts
          BY <2>3, <4>1, CommitEffect
        <5>2. Referenced(job[w])
          BY <2>3, CommitEffect
        <5>3. /\ RepositoryFacts[r] \intersect (facts \union Content[job[w]].facts) # {}
              /\ \A u \in Content[job[w]].checkpoints[r].parents :
                   RunFacts[u] \intersect (facts \union Content[job[w]].facts) # {}
          BY <4>1, <5>2 DEF Referenced
        <5> QED
          BY <5>1, <5>3
      <4>2. CASE ~ Replaces(job[w], r)
        <5>1. checkpoint'[r] = checkpoint[r] /\ watched'[r] = watched[r]
          BY <2>3, <4>2, CommitEffect
        <5>2. facts \subseteq facts'
          BY <2>3, CommitEffect
        <5> QED
          BY <5>1, <5>2
      <4> QED
        BY <4>1, <4>2
    <3> QED
      BY <3>1, <3>2
  <2> QED
    BY <2>1, <2>2, <2>3, TwoTransactions
<1> QED
  BY <1>1, <1>2, TypeCorrect, PTL DEF Spec

-----------------------------------------------------------------------------
(* Raw evidence, with one writer                                            *)

OneWriter == \A v, w \in Writer : v = w

RawInv ==
  /\ TypeOK
  /\ RawBehindCommit
  /\ \A w \in Writer :
       /\ pc[w] \in {"prepare", "read", "write"} => RawAvailable(job[w])
       /\ pc[w] \in {"copy", "sync"} =>
            \A b \in Committed : holding[w] \notin Content[b].raw

\* The writer removes a raw object only after an error while copying it.  It
\* copies only what was absent, and what a committed batch claims is not absent.
THEOREM RawTheorem ==
  ASSUME OneWriter
  PROVE  Spec => []RawBehindCommit
<1> USE DEF OneWriter
<1>1. Init => RawInv
  BY DEF Init, RawInv, TypeOK, BatchState, ObjectState, Step, RawBehindCommit, Committed
<1>2. RawInv /\ TypeOK' /\ [Next]_vars => RawInv'
  <2> SUFFICES ASSUME RawInv, TypeOK', [Next]_vars PROVE RawInv'
    OBVIOUS
  <2> USE DEF RawInv, RawBehindCommit, RawAvailable, TypeOK, Goto, Proceed, Committed
  <2>1. CASE UNCHANGED vars
    BY <2>1 DEF vars, database, control
  <2>2. ASSUME NEW w \in Writer, NEW b \in Batch, StartAppend(w, b) PROVE RawInv'
    BY <2>2 DEF StartAppend, database
  <2>3. ASSUME NEW w \in Writer, Interrupt(w) \/ Refused(w) PROVE RawInv'
    BY <2>3 DEF Interrupt, Refused, Leave, database
  <2>4. ASSUME NEW w \in Writer, NEW d \in Digest, RetainExisting(w, d) PROVE RawInv'
    BY <2>4 DEF RetainExisting, database
  <2>5. ASSUME NEW w \in Writer, NEW d \in Digest, RetainRefused(w, d) PROVE RawInv'
    BY <2>5 DEF RetainRefused, Leave, database
  <2>6. ASSUME NEW w \in Writer, NEW d \in Digest, RetainCreate(w, d) PROVE RawInv'
    <3>1. \A b \in Committed : d \notin Content[b].raw
      BY <2>6 DEF RetainCreate
    <3> QED
      BY <2>6, <3>1 DEF RetainCreate, database
  <2>7. ASSUME NEW w \in Writer, RetainCopy(w) \/ RetainKeep(w) PROVE RawInv'
    BY <2>7 DEF RetainCopy, RetainKeep, database
  <2>8. ASSUME NEW w \in Writer, RetainError(w) PROVE RawInv'
    BY <2>8 DEF RetainError, Leave, database
  <2>9. ASSUME NEW w \in Writer, Describe(w) PROVE RawInv'
    BY <2>9 DEF Describe
  <2>10. ASSUME NEW w \in Writer, RetainedAll(w) \/ VerifyRaw(w) PROVE RawInv'
    BY <2>10 DEF RetainedAll, VerifyRaw, database
  <2>11. ASSUME NEW w \in Writer, Prepare(w) PROVE RawInv'
    <3>1. Committed' = Committed /\ UNCHANGED <<descriptor, object>>
      BY <2>11, PrepareEffect DEF Prepare
    <3>2. CASE Leave(w)
      BY <2>11, <3>1, <3>2 DEF Leave
    <3>3. CASE Goto(w, "read") /\ UNCHANGED <<job, todo, holding>>
      BY <2>11, <3>1, <3>3 DEF Prepare
    <3> QED
      BY <2>11, <3>2, <3>3 DEF Prepare
  <2>12. ASSUME NEW w \in Writer, ReadState(w) PROVE RawInv'
    <3>1. CASE Leave(w)
      BY <2>12, <3>1 DEF ReadState, Leave, database
    <3>2. CASE Goto(w, "write") /\ UNCHANGED <<job, todo, holding>>
      BY <2>12, <3>2 DEF ReadState, database
    <3> QED
      BY <2>12, <3>1, <3>2 DEF ReadState
  <2>13. ASSUME NEW w \in Writer, Commit(w) PROVE RawInv'
    <3>1. Committed' = Committed \union {job[w]} /\ RawAvailable(job[w])
      BY <2>13, CommitEffect DEF Commit
    <3>2. UNCHANGED <<descriptor, object>> /\ Leave(w)
      BY <2>13 DEF Commit
    <3>3. \A v \in Writer : pc'[v] = "idle"
      BY <3>2 DEF Leave, Goto
    <3>4. \A b \in Committed' : RawAvailable(b)
      BY <3>1 DEF RawBehindCommit
    <3>5. RawBehindCommit'
      BY <3>2, <3>4 DEF RawBehindCommit, RawAvailable
    <3> QED
      BY <3>3, <3>5
  <2> QED
    BY <2>1, <2>2, <2>3, <2>4, <2>5, <2>6, <2>7, <2>8, <2>9, <2>10, <2>11,
       <2>12, <2>13 DEF Next, Retain, AppendBatch
<1> QED
  BY <1>1, <1>2, TypeCorrect, PTL DEF Spec, RawInv

-----------------------------------------------------------------------------
(* The archive implements the atomic archive                                *)

\* A writer whose snapshot is current writes a batch that nobody committed.
CurrentInv ==
  \A w \in current : pc[w] = "write" /\ batchState[job[w]] # "COMMITTED"

LEMMA CurrentInvariant == Spec => [](TypeOK /\ CurrentInv)
<1>1. Init => CurrentInv
  BY DEF Init, CurrentInv
<1>2. TypeOK /\ CurrentInv /\ [Next]_vars => CurrentInv'
  <2> SUFFICES ASSUME TypeOK, CurrentInv, [Next]_vars PROVE CurrentInv'
    OBVIOUS
  <2> USE DEF CurrentInv, TypeOK, Goto, Proceed
  <2>1. CASE UNCHANGED vars
    BY <2>1 DEF vars, database, control
  <2>2. ASSUME NEW w \in Writer, NEW b \in Batch, StartAppend(w, b) PROVE CurrentInv'
    BY <2>2 DEF StartAppend, database
  <2>3. ASSUME NEW w \in Writer, Interrupt(w) \/ Refused(w) PROVE CurrentInv'
    BY <2>3 DEF Interrupt, Refused, Leave, database
  <2>4. ASSUME NEW w \in Writer, NEW d \in Digest,
               RetainExisting(w, d) \/ RetainCreate(w, d)
        PROVE  CurrentInv'
    BY <2>4 DEF RetainExisting, RetainCreate, database
  <2>5. ASSUME NEW w \in Writer, NEW d \in Digest, RetainRefused(w, d) PROVE CurrentInv'
    BY <2>5 DEF RetainRefused, Leave, database
  <2>6. ASSUME NEW w \in Writer,
               RetainCopy(w) \/ RetainKeep(w) \/ RetainedAll(w) \/ VerifyRaw(w)
        PROVE  CurrentInv'
    BY <2>6 DEF RetainCopy, RetainKeep, RetainedAll, VerifyRaw, database
  <2>7. ASSUME NEW w \in Writer, RetainError(w) PROVE CurrentInv'
    BY <2>7 DEF RetainError, Leave, database
  <2>8. ASSUME NEW w \in Writer, Describe(w) PROVE CurrentInv'
    BY <2>8 DEF Describe, Overtake, database
  <2>9. ASSUME NEW w \in Writer, Prepare(w) PROVE CurrentInv'
    <3>1. CASE Leave(w)
      BY <2>9, <3>1 DEF Prepare, Overtake, Leave, database
    <3>2. CASE Goto(w, "read") /\ UNCHANGED <<job, todo, holding>>
      BY <2>9, <3>2 DEF Prepare, Overtake, database
    <3> QED
      BY <2>9, <3>1, <3>2 DEF Prepare
  <2>10. ASSUME NEW w \in Writer, ReadState(w) PROVE CurrentInv'
    <3>1. CASE batchState[job[w]] = "COMMITTED"
      <4>1. Leave(w) /\ UNCHANGED current
        BY <2>10, <3>1 DEF ReadState
      <4> QED
        BY <2>10, <4>1 DEF ReadState, Leave, database
    <3>2. CASE batchState[job[w]] # "COMMITTED"
      BY <2>10, <3>2 DEF ReadState, database
    <3> QED
      BY <3>1, <3>2
  <2>11. ASSUME NEW w \in Writer, Commit(w) PROVE CurrentInv'
    <3>1. batchState'[job[w]] = "COMMITTED" /\ batchState[job[w]] # "COMMITTED"
      BY <2>11 DEF Commit
    <3>2. current' = {}
      BY <2>11, <3>1 DEF Commit, Overtake, database
    <3> QED
      BY <3>2
  <2> QED
    BY <2>1, <2>2, <2>3, <2>4, <2>5, <2>6, <2>7, <2>8, <2>9, <2>10, <2>11
    DEF Next, Retain, AppendBatch
<1> QED
  BY <1>1, <1>2, TypeCorrect, PTL DEF Spec

\* ArchiveStore implements AtomicArchive: the commit of the second transaction
\* is one atomic step of a batch, and everything else (preparation, resumption
\* by content ID, crashes, raw retention, the other writers) is invisible.
THEOREM Implements == Spec => AtomicArchive
<1>1. Init => Archive!Init
  BY DEF Init, Archive!Init, Committed
<1>2. TypeOK /\ CurrentInv /\ [Next]_vars => [Archive!Next]_(Archive!vars)
  <2> SUFFICES ASSUME TypeOK, CurrentInv, [Next]_vars
               PROVE  [Archive!Next]_(Archive!vars)
    OBVIOUS
  <2>1. CASE UNCHANGED tables
    BY <2>1 DEF tables, Archive!vars, Committed
  <2>2. ASSUME NEW w \in Writer, Prepare(w) PROVE UNCHANGED Archive!vars
    BY <2>2, PrepareEffect DEF Archive!vars
  <2>3. ASSUME NEW w \in Writer, Commit(w) PROVE Archive!Next
    <3> DEFINE offer(r) == Content[job[w]].checkpoints[r]
               mapped(r) == IF checkpoint[r] = Nothing THEN Nothing
                            ELSE [row |-> checkpoint[r], parents |-> watched[r]]
    <3>1. /\ job[w] \in Batch
          /\ job[w] \notin Committed
          /\ Committed' = Committed \union {job[w]}
      BY <2>3, CommitEffect DEF Commit, CurrentInv, Committed
    <3>2. /\ facts' = facts \union Content[job[w]].facts
          /\ links' = links \union Content[job[w]].links
          /\ evidence' = evidence \union Content[job[w]].evidence
      BY <2>3, CommitEffect
    <3>3. capability' = [c \in Capability |->
                           Latest(capability[c], Content[job[w]].capabilities[c])]
      BY <2>3 DEF Commit
    <3>4. ASSUME NEW r \in Repo
          PROVE  mapped(r)' = Archive!Advance(mapped(r), offer(r))
      <4>1. /\ checkpoint[r] \in CheckpointRow \union {Nothing}
            /\ offer(r) \in OfferedCheckpoint \union {Nothing}
        BY <3>1 DEF TypeOK
      <4>2. CASE offer(r) = Nothing
        BY <2>3, <4>2, CommitEffect DEF Replaces, Archive!Advance
      <4>3. CASE offer(r) # Nothing /\ checkpoint[r] = Nothing
        <5>1. Replaces(job[w], r)
          BY <4>3 DEF Replaces, Advances
        <5>2. checkpoint'[r] = offer(r).row /\ watched'[r] = offer(r).parents
          BY <2>3, <5>1, CommitEffect
        <5>3. offer(r) = [row |-> offer(r).row, parents |-> offer(r).parents]
          BY <4>1, <4>3
        <5>4. offer(r).row # Nothing
          BY <4>1, <4>3
        <5> QED
          BY <4>3, <5>2, <5>3, <5>4 DEF Archive!Advance
      <4>4. CASE offer(r) # Nothing /\ checkpoint[r] # Nothing
        <5>1. Replaces(job[w], r)
                <=> checkpoint[r].watermark <= offer(r).row.watermark
          BY <4>1, <4>4, AdvancesIsOrder DEF Replaces
        <5>2. offer(r) = [row |-> offer(r).row, parents |-> offer(r).parents]
          BY <4>1, <4>4
        <5>3. offer(r).row # Nothing
          BY <4>1, <4>4
        <5>4. mapped(r) = [row |-> checkpoint[r], parents |-> watched[r]] /\ mapped(r) # Nothing
          BY <4>1, <4>4 DEF TypeOK
        <5>5. CASE Replaces(job[w], r)
          <6>1. checkpoint'[r] = offer(r).row /\ watched'[r] = offer(r).parents
            BY <2>3, <5>5, CommitEffect
          <6> QED
            BY <4>4, <5>1, <5>2, <5>3, <5>5, <6>1 DEF Archive!Advance
        <5>6. CASE ~ Replaces(job[w], r)
          <6>1. checkpoint'[r] = checkpoint[r] /\ watched'[r] = watched[r]
            BY <2>3, <5>6, CommitEffect
          <6> QED
            BY <4>4, <5>1, <5>4, <5>6, <6>1 DEF Archive!Advance
        <5> QED
          BY <5>5, <5>6
      <4> QED
        BY <4>2, <4>3, <4>4
    <3>5. capability' = [c \in Capability |->
            Archive!Latest(capability[c],
                           [b \in Batch |-> Content[b].capabilities][job[w]][c])]
      BY <3>1, <3>3 DEF Archive!Latest, Latest
    <3>6. [r \in Repo |-> mapped(r)]'
            = [r \in Repo |->
                 Archive!Advance([q \in Repo |-> mapped(q)][r],
                                 [b \in Batch |-> Content[b].checkpoints][job[w]][r])]
      <4> HIDE DEF mapped
      <4>1. [r \in Repo |-> mapped(r)]' = [r \in Repo |-> mapped(r)']
        OBVIOUS
      <4> QED
        BY <3>1, <3>4, <4>1
    <3>7. PICK b \in Batch : b = job[w]
      BY <3>1
    <3>8. Archive!Commit(b)
      BY <3>1, <3>2, <3>5, <3>6, <3>7 DEF Archive!Commit
    <3> QED
      BY <3>8 DEF Archive!Next
  <2> QED
    BY <2>1, <2>2, <2>3, TwoTransactions
<1> QED
  BY <1>1, <1>2, CurrentInvariant, PTL DEF Spec, AtomicArchive, Archive!Spec

-----------------------------------------------------------------------------
(* A reader while others write                                             *)

StoreInv ==
  TypeOK /\ CommittedWhole /\ NothingUncommitted /\ FrontierIsLatest /\ ReferencesClosed

\* What the writers do does not depend on the reader.
LEMMA StoreInvariant == ReplaySpec => []StoreInv
<1>1. ReplayInit => Init
  BY DEF ReplayInit
<1>2. [ReplayNext]_<<vars, reader>> => [Next]_vars
  BY DEF ReplayNext, WriterStep, Snapshot, Open, Read, ReadLinks, ApplyRawAvailability, ReadParents,
         Normalize
<1>3. ReplaySpec => Spec
  BY <1>1, <1>2, PTL DEF ReplaySpec, Spec
<1> QED
  BY <1>3, TypeCorrect, WholeTheorem, UncommittedInvisible, FrontierTheorem, ReferencesTheorem, PTL
     DEF StoreInv

\* Nothing of the archive is ever taken back.
LEMMA OnlyGrows ==
  ASSUME TypeOK, [Next]_vars
  PROVE  /\ Committed \subseteq Committed' /\ sessions \subseteq sessions'
         /\ evidence \subseteq evidence' /\ facts \subseteq facts' /\ links \subseteq links'
<1>1. CASE UNCHANGED tables
  BY <1>1 DEF tables, Committed
<1>2. ASSUME NEW w \in Writer, Prepare(w)
      PROVE  /\ Committed \subseteq Committed' /\ sessions \subseteq sessions'
             /\ evidence \subseteq evidence' /\ facts \subseteq facts' /\ links \subseteq links'
  BY <1>2, PrepareEffect
<1>3. ASSUME NEW w \in Writer, Commit(w)
      PROVE  /\ Committed \subseteq Committed' /\ sessions \subseteq sessions'
             /\ evidence \subseteq evidence' /\ facts \subseteq facts' /\ links \subseteq links'
  BY <1>3, CommitEffect
<1> QED
  BY <1>1, <1>2, <1>3, TwoTransactions

\* The rows that the joins with archive_batches find are all there are of the
\* evidence and the facts, and include the sessions of the committed batches.
LEMMA RowsOfStore ==
  ASSUME StoreInv
  PROVE  /\ EvidenceRows = evidence /\ FactRows = facts
         /\ CollectionRows \subseteq sessions
         /\ \A b \in Committed : Content[b].sessions \subseteq CollectionRows
<1> USE DEF StoreInv
<1>1. \A b \in Committed : b \in Batch /\ Content[b].sessions \subseteq sessions
  BY DEF CommittedWhole, Committed
<1>2. EvidenceRows = evidence
  <2>1. ASSUME NEW e \in evidence PROVE \E b \in Committed : EvidenceSession[e] \in SessionsOf(b)
    BY <1>1, NormalizedAssumption DEF NothingUncommitted
  <2> QED
    BY <2>1 DEF EvidenceRows
<1>3. FactRows = facts
  BY DEF FactRows, NothingUncommitted
<1>4. ASSUME NEW b \in Committed PROVE Content[b].sessions \subseteq CollectionRows
  BY <1>1 DEF CollectionRows, SessionsOf
<1> QED
  BY <1>2, <1>3, <1>4 DEF CollectionRows

\* Where the reader has the rows of a query.
PastCollections == ReaderStep \ {"idle", "collections", "rejected"}
PastPayloads == PastCollections \ {"payloads"}
PastEvidence == PastPayloads \ {"evidence"}
PastFacts == PastEvidence \ {"facts"}
PastLinks == PastFacts \ {"links"}
PastCheckpoints == {"parents", "normalize", "accepted"}

View == [ collections : SUBSET SessionRow, payloads : SUBSET Evidence,
          evidence : SUBSET Evidence, facts : SUBSET Fact,
          links : SUBSET (Fact \X Object),
          capabilities : [Capability -> Status \union {Nothing}],
          checkpoints : [Repo -> CheckpointRow \union {Nothing}],
          parents : [Repo -> SUBSET Run] ]

ReaderTypeOK == rpc \in ReaderStep /\ view \in View /\ started \subseteq Batch

\* What was committed at the start has been read, and nothing that is not
\* there.
BetweenInv ==
  /\ started \subseteq Committed
  /\ \A b \in started :
       /\ rpc \in PastCollections => Content[b].sessions \subseteq view.collections
       /\ rpc \in PastEvidence => Content[b].evidence \subseteq view.evidence
       /\ rpc \in PastFacts => Content[b].facts \subseteq view.facts
       /\ rpc \in PastLinks => Content[b].links \subseteq view.links
  /\ rpc \in PastEvidence => view.evidence \subseteq evidence
  /\ rpc \in PastFacts => view.facts \subseteq facts

\* As long as the archive stays the same, what was read is one state of it.
StillInv ==
  /\ IsFiniteSet(passed)
  /\ Reading =>
       /\ Now \in passed
       /\ passed \subseteq {Now} =>
            /\ rpc \in PastCollections => view.collections = CollectionRows
            /\ rpc \in PastPayloads => view.payloads = PayloadRows
            /\ rpc \in PastEvidence => view.evidence = EvidenceRows
            /\ rpc \in PastFacts => view.facts = FactRows
            /\ rpc \in PastLinks => view.links \subseteq links
            /\ rpc \in PastCheckpoints => view.checkpoints = checkpoint
  /\ rpc = "rejected" => \/ \E x, y \in passed : x # y
                         \/ \E v \in passed : Unresolved(v)

LEMMA NowType == ASSUME TypeOK PROVE Now \in View
  BY DEF TypeOK, Now, View, CollectionRows, PayloadRows, EvidenceRows, FactRows

LEMMA RawStatusType ==
  ASSUME NEW reported \in Status \union {Nothing} PROVE RawStatus(reported) \in Status
  BY ReplayAssumption DEF RawStatus

LEMMA ReaderType ==
  ASSUME TypeOK, ReaderTypeOK, [ReplayNext]_<<vars, reader>>
  PROVE  ReaderTypeOK'
<1> USE DEF ReaderTypeOK, ReaderStep
<1>1. CASE WriterStep \/ UNCHANGED <<vars, reader>>
  BY <1>1 DEF WriterStep, reader
<1>2. CASE Open
  BY <1>2 DEF Open, Committed
<1>3. ASSUME NEW next \in ReaderStep,
             \/ Read("collections", "collections", next) \/ Read("payloads", "payloads", next)
             \/ Read("evidence", "evidence", next) \/ Read("facts", "facts", next)
             \/ Read("capabilities", "capabilities", next)
             \/ Read("checkpoints", "checkpoints", next)
      PROVE  ReaderTypeOK'
  <2>0. Now \in View
    BY NowType
  <2>1. CASE Read("collections", "collections", next)
    <3>1. view' = [view EXCEPT !.collections = Now.collections]
      BY <2>1 DEF Read
    <3>2. view' \in View
      BY <2>0, <3>1 DEF View
    <3> QED
      BY <2>1, <3>2 DEF Read
  <2>2. CASE Read("payloads", "payloads", next)
    <3>1. view' = [view EXCEPT !.payloads = Now.payloads]
      BY <2>2 DEF Read
    <3>2. view' \in View
      BY <2>0, <3>1 DEF View
    <3> QED
      BY <2>2, <3>2 DEF Read
  <2>3. CASE Read("evidence", "evidence", next)
    <3>1. view' = [view EXCEPT !.evidence = Now.evidence]
      BY <2>3 DEF Read
    <3>2. view' \in View
      BY <2>0, <3>1 DEF View
    <3> QED
      BY <2>3, <3>2 DEF Read
  <2>4. CASE Read("facts", "facts", next)
    <3>1. view' = [view EXCEPT !.facts = Now.facts]
      BY <2>4 DEF Read
    <3>2. view' \in View
      BY <2>0, <3>1 DEF View
    <3> QED
      BY <2>4, <3>2 DEF Read
  <2>5. CASE Read("capabilities", "capabilities", next)
    <3>1. view' = [view EXCEPT !.capabilities = Now.capabilities]
      BY <2>5 DEF Read
    <3>2. view' \in View
      BY <2>0, <3>1 DEF View
    <3> QED
      BY <2>5, <3>2 DEF Read
  <2>6. CASE Read("checkpoints", "checkpoints", next)
    <3>1. view' = [view EXCEPT !.checkpoints = Now.checkpoints]
      BY <2>6 DEF Read
    <3>2. view' \in View
      BY <2>0, <3>1 DEF View
    <3> QED
      BY <2>6, <3>2 DEF Read
  <2> QED
    BY <1>3, <2>1, <2>2, <2>3, <2>4, <2>5, <2>6
<1>4. CASE ReadLinks
  BY <1>4 DEF ReadLinks, View, TypeOK
<1>5. CASE ApplyRawAvailability
  <2>1. view.capabilities[RawLogs] \in Status \union {Nothing}
    BY ReplayAssumption DEF View
  <2>2. RawStatus(view.capabilities[RawLogs]) \in Status
    BY <2>1, RawStatusType
  <2>3. \/ view' = view
        \/ view' = [view EXCEPT !.capabilities =
                      [@ EXCEPT ![RawLogs] = RawStatus(view.capabilities[RawLogs])]]
    BY <1>5 DEF ApplyRawAvailability, View
  <2>4. CASE view' = view
    BY <1>5, <2>4 DEF ApplyRawAvailability
  <2>5. CASE view' = [view EXCEPT !.capabilities =
                        [@ EXCEPT ![RawLogs] = RawStatus(view.capabilities[RawLogs])]]
    <3> DEFINE status == RawStatus(view.capabilities[RawLogs])
    <3>1. [view.capabilities EXCEPT ![RawLogs] = status]
            \in [Capability -> Status \union {Nothing}]
      BY <2>2 DEF View
    <3>2. view' = [view EXCEPT !.capabilities = [view.capabilities EXCEPT ![RawLogs] = status]]
      BY <2>5
    <3> HIDE DEF status
    <3>3. view' \in View
      BY <3>1, <3>2 DEF View
    <3> QED
      BY <1>5, <3>3 DEF ApplyRawAvailability
  <2> QED
    BY <2>3, <2>4, <2>5
<1>6. CASE ReadParents
  BY <1>6 DEF ReadParents, View, TypeOK
<1>7. CASE Normalize
  BY <1>7 DEF Normalize
<1> QED
  BY <1>1, <1>2, <1>3, <1>4, <1>5, <1>6, <1>7 DEF ReplayNext, Snapshot

\* A query changes one part of the view.
LEMMA ViewParts ==
  ASSUME ReaderTypeOK, NEW rows, NEW part \in {"collections", "payloads", "evidence", "facts",
                                          "links", "capabilities", "checkpoints", "parents"},
         view' = [view EXCEPT ![part] = rows]
  PROVE  /\ view'.collections = IF part = "collections" THEN rows ELSE view.collections
         /\ view'.payloads = IF part = "payloads" THEN rows ELSE view.payloads
         /\ view'.evidence = IF part = "evidence" THEN rows ELSE view.evidence
         /\ view'.facts = IF part = "facts" THEN rows ELSE view.facts
         /\ view'.links = IF part = "links" THEN rows ELSE view.links
         /\ view'.capabilities = IF part = "capabilities" THEN rows ELSE view.capabilities
         /\ view'.checkpoints = IF part = "checkpoints" THEN rows ELSE view.checkpoints
         /\ view'.parents = IF part = "parents" THEN rows ELSE view.parents
BY DEF ReaderTypeOK, View

\* What a step of the reader does, part by part.
LEMMA SnapshotEffect ==
  ASSUME ReaderTypeOK, Snapshot
  PROVE  /\ UNCHANGED vars
         /\ IF rpc = "idle" THEN started' = Committed /\ passed' = {Now}
                            ELSE started' = started /\ passed' = passed
         /\ <<rpc, rpc'>> \in { <<"idle", "collections">>, <<"collections", "payloads">>,
                 <<"payloads", "evidence">>, <<"evidence", "facts">>, <<"facts", "links">>,
                 <<"links", "capabilities">>, <<"capabilities", "raw">>, <<"raw", "checkpoints">>,
                 <<"checkpoints", "parents">>, <<"parents", "normalize">>,
                 <<"normalize", "accepted">>, <<"normalize", "rejected">> }
         /\ rpc' = "rejected" => ~ SelfContained(view)
         /\ rpc' = "accepted" => SelfContained(view)
         /\ view'.collections = IF rpc = "collections" THEN CollectionRows ELSE view.collections
         /\ view'.payloads = IF rpc = "payloads" THEN PayloadRows ELSE view.payloads
         /\ view'.evidence = IF rpc = "evidence" THEN EvidenceRows ELSE view.evidence
         /\ view'.facts = IF rpc = "facts" THEN FactRows ELSE view.facts
         /\ view'.links = IF rpc = "links" THEN {link \in links : link[1] \in view.facts}
                                          ELSE view.links
         /\ view'.checkpoints = IF rpc = "checkpoints" THEN checkpoint ELSE view.checkpoints
<1>1. CASE Open
  BY <1>1 DEF Open
<1>2. CASE Read("collections", "collections", "payloads")
  <2>1. view' = [view EXCEPT !["collections"] = CollectionRows]
    BY <1>2 DEF Read, Now
  <2> QED
    BY <1>2, <2>1, ViewParts DEF Read
<1>3. CASE Read("payloads", "payloads", "evidence")
  <2>1. view' = [view EXCEPT !["payloads"] = PayloadRows]
    BY <1>3 DEF Read, Now
  <2> QED
    BY <1>3, <2>1, ViewParts DEF Read
<1>4. CASE Read("evidence", "evidence", "facts")
  <2>1. view' = [view EXCEPT !["evidence"] = EvidenceRows]
    BY <1>4 DEF Read, Now
  <2> QED
    BY <1>4, <2>1, ViewParts DEF Read
<1>5. CASE Read("facts", "facts", "links")
  <2>1. view' = [view EXCEPT !["facts"] = FactRows]
    BY <1>5 DEF Read, Now
  <2> QED
    BY <1>5, <2>1, ViewParts DEF Read
<1>6. CASE ReadLinks
  <2>1. view' = [view EXCEPT !["links"] = {link \in links : link[1] \in view.facts}]
    BY <1>6 DEF ReadLinks
  <2> QED
    BY <1>6, <2>1, ViewParts DEF ReadLinks
<1>7. CASE Read("capabilities", "capabilities", "raw")
  <2>1. view' = [view EXCEPT !["capabilities"] = capability]
    BY <1>7 DEF Read, Now
  <2> QED
    BY <1>7, <2>1, ViewParts DEF Read
<1>8. CASE ApplyRawAvailability
  <2>1. CASE view' = view
    BY <1>8, <2>1 DEF ApplyRawAvailability
  <2>2. CASE view' # view
    <3>1. view' = [view EXCEPT !["capabilities"] =
                     [@ EXCEPT ![RawLogs] = RawStatus(view.capabilities[RawLogs])]]
      BY <1>8, <2>2 DEF ApplyRawAvailability
    <3>2. PICK rows : view' = [view EXCEPT !["capabilities"] = rows]
      BY <3>1
    <3> QED
      BY <1>8, <3>2, ViewParts DEF ApplyRawAvailability
  <2> QED
    BY <2>1, <2>2
<1>9. CASE Read("checkpoints", "checkpoints", "parents")
  <2>1. view' = [view EXCEPT !["checkpoints"] = checkpoint]
    BY <1>9 DEF Read, Now
  <2> QED
    BY <1>9, <2>1, ViewParts DEF Read
<1>10. CASE ReadParents
  <2>1. PICK rows : view' = [view EXCEPT !["parents"] = rows]
    BY <1>10 DEF ReadParents
  <2> QED
    BY <1>10, <2>1, ViewParts DEF ReadParents
<1>11. CASE Normalize
  BY <1>11 DEF Normalize
<1> QED
  BY <1>1, <1>2, <1>3, <1>4, <1>5, <1>6, <1>7, <1>8, <1>9, <1>10, <1>11 DEF Snapshot

LEMMA BetweenStep ==
  ASSUME StoreInv, ReaderTypeOK, BetweenInv, [ReplayNext]_<<vars, reader>>
  PROVE  BetweenInv'
<1> USE DEF PastCollections, PastPayloads, PastEvidence, PastFacts, PastLinks, ReaderStep
<1>1. CASE UNCHANGED <<vars, reader>>
  BY <1>1 DEF BetweenInv, vars, database, reader, Committed
<1>2. CASE WriterStep
  <2>1. /\ Committed \subseteq Committed' /\ evidence \subseteq evidence' /\ facts \subseteq facts'
        /\ UNCHANGED <<rpc, view, started>>
    BY <1>2, OnlyGrows DEF WriterStep, StoreInv
  <2> QED
    BY <2>1 DEF BetweenInv
<1>3. CASE Snapshot
  <2>1. Committed' = Committed /\ evidence' = evidence /\ facts' = facts
    BY <1>3, SnapshotEffect DEF vars, database, Committed
  <2>2. started' = IF rpc = "idle" THEN Committed ELSE started
    BY <1>3, SnapshotEffect
  <2>3. \A b \in Committed : /\ Content[b].sessions \subseteq CollectionRows
                            /\ Content[b].evidence \subseteq EvidenceRows
                            /\ Content[b].facts \subseteq FactRows
    BY RowsOfStore DEF StoreInv, CommittedWhole
  <2>4. ASSUME NEW b \in started', rpc # "idle"
        PROVE  /\ b \in started /\ b \in Committed
               /\ rpc' \in PastCollections => Content[b].sessions \subseteq view'.collections
               /\ rpc' \in PastEvidence => Content[b].evidence \subseteq view'.evidence
               /\ rpc' \in PastFacts => Content[b].facts \subseteq view'.facts
    BY <1>3, <2>2, <2>3, <2>4, SnapshotEffect DEF BetweenInv
  <2>5. ASSUME NEW b \in started', rpc' \in PastLinks
        PROVE  Content[b].links \subseteq view'.links
    <3>1. CASE rpc = "links"
      <4>1. b \in started /\ b \in Committed /\ b \in Batch
        BY <2>2, <3>1 DEF BetweenInv, Committed
      <4>2. Content[b].links \subseteq links /\ Content[b].facts \subseteq view.facts
        BY <3>1, <4>1 DEF StoreInv, CommittedWhole, BetweenInv
      <4>3. \A link \in Content[b].links : link[1] \in view.facts
        BY <4>1, <4>2, NormalizedAssumption
      <4>4. view'.links = {link \in links : link[1] \in view.facts}
        BY <1>3, <3>1, SnapshotEffect
      <4> QED
        BY <4>2, <4>3, <4>4
    <3>2. CASE rpc # "links"
      BY <1>3, <2>2, <2>5, <3>2, SnapshotEffect DEF BetweenInv
    <3> QED
      BY <3>1, <3>2
  <2>6. /\ rpc' \in PastEvidence => view'.evidence \subseteq evidence'
        /\ rpc' \in PastFacts => view'.facts \subseteq facts'
    BY <1>3, <2>1, SnapshotEffect, RowsOfStore DEF BetweenInv
  <2>7. started' \subseteq Committed'
    BY <2>1, <2>2 DEF BetweenInv
  <2>8. rpc = "idle" => rpc' = "collections"
    BY <1>3, SnapshotEffect
  <2> QED
    BY <2>4, <2>5, <2>6, <2>7, <2>8 DEF BetweenInv
<1> QED
  BY <1>1, <1>2, <1>3 DEF ReplayNext

\* One state of the archive is self-contained, if what is contradicted is there.
LEMMA NowSelfContained ==
  ASSUME StoreInv, ReaderTypeOK, ~ Unresolved(view),
         view.collections = CollectionRows, view.payloads = PayloadRows,
         view.evidence = EvidenceRows, view.facts = FactRows,
         view.links \subseteq links, view.checkpoints = checkpoint
  PROVE  SelfContained(view)
<1> DEFINE known == {s.id : s \in view.collections}
<1>1. ASSUME NEW b \in Committed PROVE SessionsOf(b) \subseteq known
  BY RowsOfStore DEF SessionsOf
<1>2. EvidenceRows = evidence /\ FactRows = facts
  BY RowsOfStore
<1>3. ASSUME NEW e \in view.evidence PROVE EvidenceSession[e] \in known
  BY <1>1, <1>2, NormalizedAssumption DEF StoreInv, NothingUncommitted, Committed
<1>4. ASSUME NEW e \in view.evidence, RawOf[e] = Nothing PROVE e \in view.payloads
  BY <1>2, <1>4 DEF PayloadRows
<1>5. /\ \A link \in view.links : \E e \in view.evidence : ObjectOf[e] = link[2]
      /\ DerivesFrom(view.evidence, view.evidence)
  BY <1>2 DEF StoreInv, ReferencesClosed
<1>7. \A f \in view.facts : Contradicts[f] \subseteq view.facts
  BY DEF Unresolved
<1>6. ASSUME NEW r \in Repo, view.checkpoints[r] # Nothing
      PROVE  /\ view.checkpoints[r].session \in known
             /\ RepositoryFacts[r] \intersect view.facts # {}
  <2>1. PICK b \in Offers(r) : checkpoint[r] = Content[b].checkpoints[r].row
    BY <1>6 DEF StoreInv, FrontierIsLatest
  <2>2. b \in Committed /\ b \in Batch /\ Content[b].checkpoints[r] # Nothing
    BY DEF Offers, Committed
  <2>3. checkpoint[r].session \in known
    BY <1>1, <2>1, <2>2, NormalizedAssumption
  <2>4. RepositoryFacts[r] \intersect facts # {}
    BY <1>6 DEF StoreInv, ReferencesClosed
  <2> QED
    BY <1>2, <2>3, <2>4
<1> QED
  BY <1>3, <1>4, <1>5, <1>6, <1>7 DEF SelfContained

LEMMA StillStep ==
  ASSUME StoreInv, ReaderTypeOK, StillInv, [ReplayNext]_<<vars, reader>>
  PROVE  StillInv'
<1> USE DEF PastCollections, PastPayloads, PastEvidence, PastFacts, PastLinks,
            PastCheckpoints, ReaderStep
<1>1. CASE UNCHANGED <<vars, reader>>
  BY <1>1 DEF StillInv, Now, Reading, CollectionRows, PayloadRows, EvidenceRows, FactRows,
              Committed, vars, database, reader
<1>2. CASE WriterStep
  <2>1. UNCHANGED <<rpc, view>> /\ passed' = IF Reading THEN passed \union {Now'} ELSE passed
    BY <1>2 DEF WriterStep
  <2>2. CASE ~ Reading
    BY <2>1, <2>2 DEF StillInv, Reading
  <2>3. CASE Reading
    <3>1. IsFiniteSet(passed') /\ Now' \in passed' /\ rpc' # "rejected"
      BY <2>1, <2>3, FS_AddElement DEF StillInv, Reading
    <3>2. ASSUME passed' \subseteq {Now'}
          PROVE  passed \subseteq {Now} /\ Now' = Now
      BY <2>1, <2>3, <3>2 DEF StillInv
    <3>3. Now' = Now => /\ CollectionRows' = CollectionRows /\ PayloadRows' = PayloadRows
                        /\ EvidenceRows' = EvidenceRows /\ FactRows' = FactRows
                        /\ links' = links /\ checkpoint' = checkpoint
      BY DEF Now
    <3> QED
      BY <2>1, <2>3, <3>1, <3>2, <3>3 DEF StillInv
  <2> QED
    BY <2>2, <2>3
<1>3. CASE Snapshot
  <2>1. /\ Now' = Now /\ CollectionRows' = CollectionRows /\ PayloadRows' = PayloadRows
        /\ EvidenceRows' = EvidenceRows /\ FactRows' = FactRows
        /\ links' = links /\ checkpoint' = checkpoint
    BY <1>3, SnapshotEffect DEF Now, CollectionRows, PayloadRows, EvidenceRows, FactRows,
                                Committed, vars, database
  <2>2. CASE rpc = "idle"
    <3>1. passed' = {Now} /\ rpc' = "collections"
      BY <1>3, <2>2, SnapshotEffect
    <3> QED
      BY <2>1, <3>1, FS_Singleton DEF StillInv
  <2>3. CASE rpc # "idle"
    <3>1. Reading /\ passed' = passed
      BY <1>3, <2>3, SnapshotEffect DEF Reading
    <3>2. ASSUME passed \subseteq {Now}
          PROVE  /\ rpc' \in PastCollections => view'.collections = CollectionRows
                 /\ rpc' \in PastPayloads => view'.payloads = PayloadRows
                 /\ rpc' \in PastEvidence => view'.evidence = EvidenceRows
                 /\ rpc' \in PastFacts => view'.facts = FactRows
                 /\ rpc' \in PastLinks => view'.links \subseteq links
                 /\ rpc' \in PastCheckpoints => view'.checkpoints = checkpoint
      BY <1>3, <2>3, <3>1, <3>2, SnapshotEffect DEF StillInv
    <3>3. ASSUME rpc' = "rejected"
          PROVE  (\E x, y \in passed : x # y) \/ \E v \in passed : Unresolved(v)
      <4>1. rpc = "normalize" /\ ~ SelfContained(view)
        BY <1>3, <3>3, SnapshotEffect
      <4>2. CASE passed \subseteq {Now}
        <5>1. Unresolved(view) /\ view.facts = FactRows
          BY <3>1, <4>1, <4>2, NowSelfContained DEF StillInv
        <5>2. Unresolved(Now)
          BY <5>1 DEF Unresolved, Now
        <5> QED
          BY <3>1, <5>2 DEF StillInv
      <4>3. CASE ~ (passed \subseteq {Now})
        BY <3>1, <4>3 DEF StillInv
      <4> QED
        BY <4>2, <4>3
    <3> QED
      BY <2>1, <3>1, <3>2, <3>3 DEF StillInv
  <2> QED
    BY <2>2, <2>3
<1> QED
  BY <1>1, <1>2, <1>3 DEF ReplayNext

LEMMA ReaderInvariant == ReplaySpec => [](ReaderTypeOK /\ BetweenInv /\ StillInv)
<1>1. ReplayInit => ReaderTypeOK /\ BetweenInv /\ StillInv
  <2> SUFFICES ASSUME ReplayInit PROVE ReaderTypeOK /\ BetweenInv /\ StillInv
    OBVIOUS
  <2>1. Empty \in View
    BY DEF Empty, View
  <2>2. rpc = "idle" /\ view = Empty /\ started = {} /\ passed = {}
    BY DEF ReplayInit
  <2> QED
    BY <2>1, <2>2, FS_EmptySet
    DEF ReaderTypeOK, ReaderStep, BetweenInv, StillInv, Reading, PastCollections,
        PastPayloads, PastEvidence, PastFacts, PastLinks
<1>2. ASSUME StoreInv, ReaderTypeOK, BetweenInv, StillInv, [ReplayNext]_<<vars, reader>>
      PROVE  ReaderTypeOK' /\ BetweenInv' /\ StillInv'
  BY <1>2, ReaderType, BetweenStep, StillStep DEF StoreInv
<1> QED
  BY <1>1, <1>2, StoreInvariant, PTL DEF ReplaySpec

\* Snapshot: what was committed when a replay started is in it, nothing else than
\* committed rows is, and it is refused only when a writer changed the archive
\* while it read, or when a fact contradicts one that the archive does not hold.
THEOREM ReplayTheorem == ReplaySpec => []ReplayBetween
<1>1. ASSUME StoreInv, BetweenInv, StillInv PROVE ReplayBetween
  <2>1. ASSUME rpc = "accepted"
        PROVE  /\ \A b \in started : /\ Content[b].sessions \subseteq view.collections
                                     /\ Content[b].evidence \subseteq view.evidence
                                     /\ Content[b].facts \subseteq view.facts
                                     /\ Content[b].links \subseteq view.links
               /\ \A e \in view.evidence : \E b \in Committed : e \in Content[b].evidence
               /\ \A f \in view.facts : \E b \in Committed : f \in Content[b].facts
    BY <1>1, <2>1 DEF BetweenInv, StoreInv, NothingUncommitted, PastCollections,
                      PastPayloads, PastEvidence, PastFacts, PastLinks, ReaderStep
  <2>2. ASSUME rpc = "rejected", ~ \E v \in passed : Unresolved(v)
        PROVE  Cardinality(passed) > 1
    <3>1. PICK x \in passed, y \in passed : x # y
      BY <1>1, <2>2 DEF StillInv
    <3>2. IsFiniteSet(passed) /\ Cardinality(passed) \in Nat
      BY <1>1, FS_CardinalityType DEF StillInv
    <3>3. Cardinality(passed) # 0
      BY <3>1, <3>2, FS_EmptySet
    <3>4. Cardinality(passed) # 1
      BY <3>1, <3>2, FS_Singleton
    <3> QED
      BY <3>2, <3>3, <3>4
  <2> QED
    BY <2>1, <2>2 DEF ReplayBetween
<1> QED
  BY <1>1, StoreInvariant, ReaderInvariant, PTL

\* The collector writes a fact in the batch of the facts that it contradicts
\* (persistResolutionEdge).
ContradictedTogether ==
  \A b \in Batch : \A f \in Content[b].facts : Contradicts[f] \subseteq Content[b].facts

\* Then whatever the archive holds contradicts only what it holds.
LEMMA NowResolved ==
  ASSUME StoreInv, ContradictedTogether
  PROVE  ~ Unresolved(Now)
<1>1. Now.facts = facts
  BY RowsOfStore DEF Now
<1>2. ASSUME NEW f \in facts PROVE Contradicts[f] \subseteq facts
  <2>1. PICK b \in Committed : f \in Content[b].facts
    BY DEF StoreInv, NothingUncommitted
  <2>2. b \in Batch /\ Content[b].facts \subseteq facts
    BY DEF Committed, StoreInv, CommittedWhole
  <2> QED
    BY <2>1, <2>2 DEF ContradictedTogether
<1> QED
  BY <1>1, <1>2 DEF Unresolved

\* An archive of what the collector writes can always be replayed: a snapshot is
\* refused only when a writer changed the archive while it read.
THEOREM CollectedReplayTheorem ==
  ContradictedTogether => (ReplaySpec => [](rpc = "rejected" => Cardinality(passed) > 1))
<1> SUFFICES ASSUME ContradictedTogether
             PROVE  ReplaySpec => [](rpc = "rejected" => Cardinality(passed) > 1)
  OBVIOUS
<1> DEFINE Resolved == \A v \in passed : ~ Unresolved(v)
           Complete == ~ Unresolved(Now)
<1>1. ReplayInit => Resolved
  BY DEF ReplayInit
<1>2. ASSUME Complete, Complete', Resolved, [ReplayNext]_<<vars, reader>>
      PROVE  Resolved'
  <2>1. ~ Unresolved(Now) /\ ~ Unresolved(Now')
    BY <1>2 DEF Unresolved
  <2>3. passed' \subseteq passed \union {Now, Now'}
    <3>1. CASE WriterStep
      BY <3>1 DEF WriterStep
    <3>2. CASE Snapshot
      BY <3>2 DEF Snapshot, Open, Read, ReadLinks, ApplyRawAvailability, ReadParents, Normalize
    <3>3. CASE UNCHANGED <<vars, reader>>
      BY <3>3 DEF reader
    <3> QED
      BY <1>2, <3>1, <3>2, <3>3 DEF ReplayNext
  <2>4. ASSUME NEW v \in passed' PROVE ~ Unresolved(v)
    <3>1. v \in passed \/ v = Now \/ v = Now'
      BY <2>3
    <3> HIDE DEF Unresolved
    <3> QED
      BY <1>2, <2>1, <3>1
  <2>5. Resolved' <=> \A v \in passed' : ~ Unresolved(v)
    BY DEF Unresolved
  <2> QED
    BY <2>4, <2>5
<1>3. ReplayBetween /\ Resolved => (rpc = "rejected" => Cardinality(passed) > 1)
  BY DEF ReplayBetween
<1>4. StoreInv => Complete
  BY NowResolved
<1> HIDE DEF Resolved, Complete
<1> QED
  BY <1>1, <1>2, <1>3, <1>4, StoreInvariant, ReplayTheorem, PTL DEF ReplaySpec

-----------------------------------------------------------------------------
(* The watermark of a snapshot                                              *)

\* A collection session is named by its request and the instant it started
\* (collectionSessionID), so no two collections, and no two batches, share one.
OneBatchPerSession ==
  \A b, c \in Batch : SessionsOf(b) \intersect SessionsOf(c) # {} => b = c

\* A batch of which the view has a session was committed when the sessions were
\* read, so every later query finds the rest of it; and the rows of checkpoints
\* come from committed batches.
HeldInv ==
  /\ rpc \in PastCollections => \A s \in view.collections :
       \E b \in Committed :
         /\ s.id \in SessionsOf(b)
         /\ Content[b].sessions \subseteq view.collections
         /\ rpc \in PastEvidence => Content[b].evidence \subseteq view.evidence
         /\ rpc \in PastFacts => Content[b].facts \subseteq view.facts
  /\ rpc \in PastCheckpoints => \A r \in Repo : view.checkpoints[r] # Nothing =>
       \E b \in Committed : /\ Content[b].checkpoints[r] # Nothing
                           /\ Content[b].checkpoints[r].row = view.checkpoints[r]
  /\ rpc = "accepted" => SelfContained(view)

LEMMA HeldStep ==
  ASSUME StoreInv, ReaderTypeOK, HeldInv, [ReplayNext]_<<vars, reader>>
  PROVE  HeldInv'
<1> USE DEF PastCollections, PastPayloads, PastEvidence, PastFacts, PastLinks,
            PastCheckpoints, ReaderStep
<1>1. CASE UNCHANGED <<vars, reader>>
  BY <1>1 DEF HeldInv, SelfContained, Committed, vars, database, reader
<1>2. CASE WriterStep
  <2>1. Committed \subseteq Committed' /\ UNCHANGED <<rpc, view>>
    BY <1>2, OnlyGrows DEF WriterStep, StoreInv
  <2> QED
    BY <2>1 DEF HeldInv, SelfContained
<1>3. CASE Snapshot
  <2>1. Committed' = Committed
    BY <1>3, SnapshotEffect DEF vars, database, Committed
  <2>2. \A b \in Committed : /\ b \in Batch
                            /\ Content[b].sessions \subseteq CollectionRows
                            /\ Content[b].evidence \subseteq EvidenceRows
                            /\ Content[b].facts \subseteq FactRows
    BY RowsOfStore DEF StoreInv, CommittedWhole, Committed
  <2>3. ASSUME rpc' \in PastCollections, NEW s \in view'.collections
        PROVE  \E b \in Committed :
                 /\ s.id \in SessionsOf(b)
                 /\ Content[b].sessions \subseteq view'.collections
                 /\ rpc' \in PastEvidence => Content[b].evidence \subseteq view'.evidence
                 /\ rpc' \in PastFacts => Content[b].facts \subseteq view'.facts
    <3>1. CASE rpc = "collections"
      <4>1. PICK b \in Committed : s.id \in SessionsOf(b)
        BY <1>3, <2>3, <3>1, SnapshotEffect DEF CollectionRows
      <4> QED
        BY <1>3, <2>2, <3>1, <4>1, SnapshotEffect
    <3>2. CASE rpc # "collections"
      <4>1. rpc \in PastCollections /\ s \in view.collections
        BY <1>3, <2>3, <3>2, SnapshotEffect
      <4>2. PICK b \in Committed :
              /\ s.id \in SessionsOf(b)
              /\ Content[b].sessions \subseteq view.collections
              /\ rpc \in PastEvidence => Content[b].evidence \subseteq view.evidence
              /\ rpc \in PastFacts => Content[b].facts \subseteq view.facts
        BY <4>1 DEF HeldInv
      <4> QED
        BY <1>3, <2>2, <3>2, <4>2, SnapshotEffect
    <3> QED
      BY <3>1, <3>2
  <2>4. ASSUME rpc' \in PastCheckpoints, NEW r \in Repo, view'.checkpoints[r] # Nothing
        PROVE  \E b \in Committed : /\ Content[b].checkpoints[r] # Nothing
                                   /\ Content[b].checkpoints[r].row = view'.checkpoints[r]
    <3>1. CASE rpc = "checkpoints"
      <4>1. view'.checkpoints = checkpoint
        BY <1>3, <3>1, SnapshotEffect
      <4> QED
        BY <2>4, <4>1 DEF StoreInv, FrontierIsLatest, Offers
    <3>2. CASE rpc # "checkpoints"
      BY <1>3, <2>4, <3>2, SnapshotEffect DEF HeldInv
    <3> QED
      BY <3>1, <3>2
  <2>5. rpc' = "accepted" => SelfContained(view)'
    <3>1. ASSUME rpc' = "accepted" PROVE view' = view /\ SelfContained(view)
      BY <1>3, <3>1 DEF Snapshot, Open, Read, ReadLinks, ApplyRawAvailability, ReadParents,
                        Normalize
    <3> QED
      BY <3>1 DEF SelfContained
  <2> QED
    BY <2>1, <2>3, <2>4, <2>5 DEF HeldInv
<1> QED
  BY <1>1, <1>2, <1>3 DEF ReplayNext

LEMMA HeldInvariant == ReplaySpec => []HeldInv
<1>1. ReplayInit => HeldInv
  BY DEF ReplayInit, HeldInv, PastCollections, PastCheckpoints
<1> QED
  BY <1>1, HeldStep, StoreInvariant, ReaderInvariant, PTL DEF ReplaySpec

\* If collections have names of their own, a snapshot never carries a watermark
\* without the facts that were collected up to it: its checkpoint names a session,
\* that session is in the view, and so is the batch that brought both.
THEOREM CheckpointTheorem == OneBatchPerSession => (ReplaySpec => []CheckpointBacked)
<1> SUFFICES ASSUME OneBatchPerSession PROVE ReplaySpec => []CheckpointBacked
  OBVIOUS
<1>1. ASSUME HeldInv PROVE CheckpointBacked
  <2> SUFFICES ASSUME rpc = "accepted", NEW r \in Repo, view.checkpoints[r] # Nothing
               PROVE  \E b \in Committed :
                        /\ Content[b].checkpoints[r] # Nothing
                        /\ Content[b].checkpoints[r].row = view.checkpoints[r]
                        /\ Content[b].sessions \subseteq view.collections
                        /\ Content[b].evidence \subseteq view.evidence
                        /\ Content[b].facts \subseteq view.facts
    BY DEF CheckpointBacked
  <2> USE DEF PastCollections, PastPayloads, PastEvidence, PastFacts, PastCheckpoints, ReaderStep
  <2>1. PICK b \in Committed : /\ Content[b].checkpoints[r] # Nothing
                              /\ Content[b].checkpoints[r].row = view.checkpoints[r]
    BY <1>1 DEF HeldInv
  <2>2. b \in Batch /\ view.checkpoints[r].session \in SessionsOf(b)
    BY <2>1, NormalizedAssumption DEF Committed
  <2>3. PICK s \in view.collections : s.id = view.checkpoints[r].session
    BY <1>1 DEF HeldInv, SelfContained
  <2>4. PICK c \in Committed : /\ s.id \in SessionsOf(c)
                              /\ Content[c].sessions \subseteq view.collections
                              /\ Content[c].evidence \subseteq view.evidence
                              /\ Content[c].facts \subseteq view.facts
    BY <1>1 DEF HeldInv
  <2>5. c = b
    BY <2>2, <2>3, <2>4 DEF OneBatchPerSession, Committed
  <2> QED
    BY <2>1, <2>4, <2>5
<1> QED
  BY <1>1, HeldInvariant, PTL

=============================================================================
