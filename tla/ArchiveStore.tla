---------------------------- MODULE ArchiveStore ----------------------------
(***************************************************************************)
(* The incremental archive: the SQLite database written by                 *)
(* internal/archive (append, prepareBatch and commitBatch), and its        *)
(* raw-evidence sidecar directory (RetainRaw).                             *)
(*                                                                         *)
(* Each Writer is a process that has the archive open for writing.  It     *)
(* appends one batch at a time: first the raw objects the batch claims are *)
(* retained in the sidecar (livecollect.CollectInto), then the batch is    *)
(* appended: raw claims are verified, a first transaction records the      *)
(* collection sessions and the batch as PREPARED, and a second one writes  *)
(* everything else and the state COMMITTED.  A writer may fail or die      *)
(* between any two steps; the database and the sidecar survive.            *)
(*                                                                         *)
(* Both transactions are deferred SQLite transactions in WAL mode.  The    *)
(* first starts with a write, so it is atomic.  The second starts with a   *)
(* read: if another connection commits before its first write, SQLite      *)
(* refuses the write (SQLITE_BUSY_SNAPSHOT) and the transaction fails.     *)
(* "current" is the set of writers whose read snapshot is still current.   *)
(*                                                                         *)
(* Facts, evidence observations and batches are named by the hash of their *)
(* content, so equal names have equal contents and the collision errors of *)
(* their inserts cannot occur; other errors of a transaction are an        *)
(* Interrupt before it.  A collection session is named by a hash that      *)
(* leaves out its end time, so two sessions may share a name: session rows *)
(* carry a body, and the conflict check is modelled.                       *)
(***************************************************************************)
EXTENDS Integers

CONSTANTS
  Writer,           \* processes that have the archive open for writing
  Batch,            \* normalized, non-empty batches
  Session, Body,    \* names and contents of collection sessions
  Evidence, Fact,   \* observations and facts, named by their content
  EvidenceSession,  \* [Evidence -> Session]: the collection that observed it
  Object, ObjectOf, \* [Evidence -> Object]: the evidence object it observes
  ParentsOf,        \* [Evidence -> SUBSET Object]: those it is derived from
  RepositoryFacts,  \* [Repo -> SUBSET Fact]: those that record the repository
  RunFacts,         \* [Run -> SUBSET Fact]: those that record the run
  Capability, Status,
  Repo, Run,        \* repositories, and the parent runs a checkpoint watches
  Digest,           \* SHA-256 of a raw object
  MaxTime,          \* instants are 0 .. MaxTime
  Content,          \* [Batch -> BatchContent]
  Nothing           \* NULL, or a row that does not exist

Null == -1          \* a checkpoint row whose discovery_watermark is NULL

SessionRow == [id : Session, body : Body]
CheckpointRow == [watermark : {Null} \union (0 .. MaxTime), session : Session]
OfferedCheckpoint == [row : CheckpointRow, parents : SUBSET Run]

BatchContent ==
  [ sessions     : SUBSET SessionRow,
    evidence     : SUBSET Evidence,
    facts        : SUBSET Fact,
    links        : SUBSET (Fact \X Object),
    capabilities : [Capability -> Status \union {Nothing}],
    checkpoints  : [Repo -> OfferedCheckpoint \union {Nothing}],
    raw          : SUBSET Digest ]

ASSUME ContentAssumption ==
  /\ MaxTime \in Nat
  /\ Content \in [Batch -> BatchContent]
  /\ Nothing \notin CheckpointRow \union OfferedCheckpoint \union Status
                    \union Batch \union Digest

SessionsOf(b) == {s.id : s \in Content[b].sessions}

\* What NormalizeBatch guarantees of every batch that reaches the database.
ASSUME NormalizedAssumption ==
  /\ EvidenceSession \in [Evidence -> Session]
  /\ ObjectOf \in [Evidence -> Object]
  /\ ParentsOf \in [Evidence -> SUBSET Object]
  /\ RepositoryFacts \in [Repo -> SUBSET Fact]
  /\ RunFacts \in [Run -> SUBSET Fact]
  /\ \A b \in Batch :
       /\ \A s, t \in Content[b].sessions : s.id = t.id => s = t
       /\ \A e \in Content[b].evidence : EvidenceSession[e] \in SessionsOf(b)
       /\ \A link \in Content[b].links : link[1] \in Content[b].facts
       /\ \A r \in Repo : Content[b].checkpoints[r] # Nothing =>
            Content[b].checkpoints[r].row.session \in SessionsOf(b)

VARIABLES
  \* the database
  sessions,    \* collection_sessions
  batchState,  \* archive_batches.state, and with it the batch's link rows
  evidence,    \* archive_evidence_envelopes and the tables it indexes
  facts,       \* archive_facts and their rows in the hierarchy tables
  links,       \* archive_fact_evidence
  capability,  \* archive_capabilities
  checkpoint,  \* archive_checkpoints
  watched,     \* watched_parents
  descriptor,  \* evidence_payloads rows that point into the sidecar
  \* the sidecar directory
  object,      \* what the file <digest>.bin holds
  \* the writers
  pc, job,     \* where a writer is, and the batch it appends
  todo,        \* raw objects it has still to retain
  holding,     \* the raw object it is retaining
  current      \* writers in the second transaction that no commit has overtaken

database == <<sessions, batchState, evidence, facts, links, capability,
              checkpoint, watched, descriptor>>
control == <<pc, job, todo, holding, current>>
vars == <<database, object, control>>

BatchState == {"ABSENT", "PREPARED", "COMMITTED"}
ObjectState == {"absent", "partial", "complete"}
Step == {"idle", "retain", "copy", "sync", "describe", "verify", "prepare",
         "read", "write"}

TypeOK ==
  /\ sessions \subseteq SessionRow
  /\ batchState \in [Batch -> BatchState]
  /\ evidence \subseteq Evidence
  /\ facts \subseteq Fact
  /\ links \subseteq Fact \X Object
  /\ capability \in [Capability -> Status \union {Nothing}]
  /\ checkpoint \in [Repo -> CheckpointRow \union {Nothing}]
  /\ watched \in [Repo -> SUBSET Run]
  /\ descriptor \subseteq Digest
  /\ object \in [Digest -> ObjectState]
  /\ pc \in [Writer -> Step]
  /\ job \in [Writer -> Batch \union {Nothing}]
  /\ todo \in [Writer -> SUBSET Digest]
  /\ holding \in [Writer -> Digest \union {Nothing}]
  /\ current \subseteq Writer
  /\ \A w \in Writer : pc[w] # "idle" => job[w] \in Batch
  /\ \A w \in Writer : pc[w] \in {"copy", "sync", "describe"} => holding[w] \in Digest

Init ==
  /\ sessions = {}
  /\ batchState = [b \in Batch |-> "ABSENT"]
  /\ evidence = {}
  /\ facts = {}
  /\ links = {}
  /\ capability = [c \in Capability |-> Nothing]
  /\ checkpoint = [r \in Repo |-> Nothing]
  /\ watched = [r \in Repo |-> {}]
  /\ descriptor = {}
  /\ object = [d \in Digest |-> "absent"]
  /\ pc = [w \in Writer |-> "idle"]
  /\ job = [w \in Writer |-> Nothing]
  /\ todo = [w \in Writer |-> {}]
  /\ holding = [w \in Writer |-> Nothing]
  /\ current = {}

-----------------------------------------------------------------------------
(* Control of a writer                                                      *)

Goto(w, step) == pc' = [pc EXCEPT ![w] = step]

\* Move on within the same batch, with nothing else of the writer changed.
Proceed(w, step) == Goto(w, step) /\ UNCHANGED <<job, todo, holding, current>>

\* The append ends, with or without an error: its locals and its open
\* transaction are gone.
Leave(w) ==
  /\ Goto(w, "idle")
  /\ job' = [job EXCEPT ![w] = Nothing]
  /\ todo' = [todo EXCEPT ![w] = {}]
  /\ holding' = [holding EXCEPT ![w] = Nothing]

\* CollectInto has collected and normalized b, and starts to store it.
StartAppend(w, b) ==
  /\ pc[w] = "idle"
  /\ Goto(w, "retain")
  /\ job' = [job EXCEPT ![w] = b]
  /\ todo' = [todo EXCEPT ![w] = Content[b].raw]
  /\ UNCHANGED <<database, object, holding, current>>

\* Any step may instead return an error (cancelled context, full disk, busy
\* database) or be the last one of a process that dies: an open transaction
\* rolls back, files stay as they are.  In "copy" and "sync" only the death of
\* the process ends like this, an error removes the file (RetainError).
Interrupt(w) ==
  /\ pc[w] # "idle"
  /\ Leave(w)
  /\ current' = current \ {w}
  /\ UNCHANGED <<database, object>>

-----------------------------------------------------------------------------
(* RetainRaw                                                                *)

\* Lstat finds a file of this name whose bytes verify: nothing to copy.
RetainExisting(w, d) ==
  /\ pc[w] = "retain"
  /\ d \in todo[w]
  /\ object[d] = "complete"
  /\ Goto(w, "describe")
  /\ holding' = [holding EXCEPT ![w] = d]
  /\ UNCHANGED <<database, object, job, todo, current>>

\* Lstat finds a file of this name whose bytes do not verify.
RetainRefused(w, d) ==
  /\ pc[w] = "retain"
  /\ d \in todo[w]
  /\ object[d] = "partial"
  /\ Leave(w)
  /\ UNCHANGED <<database, object, current>>

\* Fault: the destination is opened without O_EXCL and truncated.
RetainCreateTruncates(w, d) ==
  /\ pc[w] = "retain"
  /\ d \in todo[w]
  /\ object' = [object EXCEPT ![d] = "partial"]
  /\ Goto(w, "copy")
  /\ holding' = [holding EXCEPT ![w] = d]
  /\ UNCHANGED <<database, job, todo, current>>

\* The destination is created under its final name, exclusively and empty.
RetainCreate(w, d) ==
  /\ pc[w] = "retain"
  /\ d \in todo[w]
  /\ object[d] = "absent"
  /\ object' = [object EXCEPT ![d] = "partial"]
  /\ Goto(w, "copy")
  /\ holding' = [holding EXCEPT ![w] = d]
  /\ UNCHANGED <<database, job, todo, current>>

RetainCopy(w) ==
  /\ pc[w] = "copy"
  /\ object' = [object EXCEPT ![holding[w]] = "complete"]
  /\ Proceed(w, "sync")
  /\ UNCHANGED database

\* Hash, fsync and close succeed: the file is kept.
RetainKeep(w) ==
  /\ pc[w] = "sync"
  /\ Proceed(w, "describe")
  /\ UNCHANGED <<database, object>>

\* A copy, hash or sync error, or cancellation (looked at once more after the
\* last byte is written), removes the destination.
RetainError(w) ==
  /\ pc[w] \in {"copy", "sync"}
  /\ object' = [object EXCEPT ![holding[w]] = "absent"]
  /\ Leave(w)
  /\ UNCHANGED <<database, current>>

\* A commit that changes the database overtakes every open read snapshot.
Overtake == current' = IF database' = database THEN current ELSE {}

Describe(w) ==
  /\ pc[w] = "describe"
  /\ descriptor' = descriptor \union {holding[w]}
  /\ todo' = [todo EXCEPT ![w] = @ \ {holding[w]}]
  /\ holding' = [holding EXCEPT ![w] = Nothing]
  /\ Goto(w, "retain")
  /\ UNCHANGED <<sessions, batchState, evidence, facts, links, capability,
                 checkpoint, watched, object, job>>
  /\ Overtake

RetainedAll(w) ==
  /\ pc[w] = "retain"
  /\ todo[w] = {}
  /\ Proceed(w, "verify")
  /\ UNCHANGED <<database, object>>

-----------------------------------------------------------------------------
(* append                                                                   *)

RawAvailable(b) ==
  \A d \in Content[b].raw : d \in descriptor /\ object[d] = "complete"

\* verifyBatchRawPayloads reads the sidecar again.
VerifyRaw(w) ==
  /\ pc[w] = "verify"
  /\ RawAvailable(job[w])
  /\ Proceed(w, "prepare")
  /\ UNCHANGED <<database, object>>

Conflicts(b) ==
  \E s \in Content[b].sessions, t \in sessions : s.id = t.id /\ s # t

\* Faults: COMMITTED too early; DO UPDATE for DO NOTHING.
PreparedStateEarly(state) == "COMMITTED"
PreparedStateReset(state) == "PREPARED"

PreparedState(state) == IF state = "ABSENT" THEN "PREPARED" ELSE state

\* The first transaction.  A batch that was committed before ends here.
Prepare(w) ==
  /\ pc[w] = "prepare"
  /\ ~Conflicts(job[w])
  /\ sessions' = sessions \union Content[job[w]].sessions
  /\ batchState' = [batchState EXCEPT ![job[w]] = PreparedState(@)]
  /\ IF batchState[job[w]] = "COMMITTED"
     THEN Leave(w)
     ELSE Goto(w, "read") /\ UNCHANGED <<job, todo, holding>>
  /\ UNCHANGED <<evidence, facts, links, capability, checkpoint, watched,
                 descriptor, object>>
  /\ Overtake

\* The second transaction reads the state again, which takes its snapshot.
ReadState(w) ==
  /\ pc[w] = "read"
  /\ IF batchState[job[w]] = "COMMITTED"
     THEN Leave(w) /\ UNCHANGED current
     ELSE Goto(w, "write") /\ current' = current \union {w}
                          /\ UNCHANGED <<job, todo, holding>>
  /\ UNCHANGED <<database, object>>

\* Fault: a batch that is silent about a capability erases it.
LatestErases(old, new) == new

Latest(old, new) == IF new = Nothing THEN old ELSE new

\* Fault: a late commit overwrites a newer checkpoint.
AdvancesAlways(persisted, offered) == TRUE

\* May a checkpoint row that a batch offers replace the persisted one?
Advances(persisted, offered) ==
  \/ persisted = Nothing
  \/ persisted.watermark = Null
  \/ offered.watermark # Null /\ offered.watermark >= persisted.watermark

Replaces(b, r) ==
  /\ Content[b].checkpoints[r] # Nothing
  /\ Advances(checkpoint[r], Content[b].checkpoints[r].row)

\* Fault: the tables are created without their foreign keys.
ReferencedUnchecked(b) == TRUE

\* Derived evidence has its parents among what was observed.
DerivesFrom(children, observed) ==
  \A child \in children : \A o \in ParentsOf[child] :
    \E e \in observed : ObjectOf[e] = o

\* The foreign keys of the rows that the second transaction writes: a link
\* needs the evidence object, derived evidence its parents, a checkpoint its
\* repository, a watched parent its run.  A checkpoint that does not advance is
\* not written and not checked.
Referenced(b) ==
  LET known == facts \union Content[b].facts
      observed == evidence \union Content[b].evidence
  IN /\ \A link \in Content[b].links : \E e \in observed : ObjectOf[e] = link[2]
     /\ DerivesFrom(Content[b].evidence, observed)
     /\ \A r \in Repo : Replaces(b, r) =>
          /\ RepositoryFacts[r] \intersect known # {}
          /\ \A u \in Content[b].checkpoints[r].parents :
               RunFacts[u] \intersect known # {}

\* The second transaction writes everything but the sessions, and the state.
\* A checkpoint that does not advance is left out; one that does replaces the
\* row and the whole watch set of its repository.
Commit(w) ==
  /\ pc[w] = "write"
  /\ w \in current
  /\ Referenced(job[w])
  /\ LET content == Content[job[w]] IN
     /\ evidence' = evidence \union content.evidence
     /\ facts' = facts \union content.facts
     /\ links' = links \union content.links
     /\ capability' = [c \in Capability |-> Latest(capability[c], content.capabilities[c])]
     /\ checkpoint' = [r \in Repo |-> IF Replaces(job[w], r)
                                      THEN content.checkpoints[r].row
                                      ELSE checkpoint[r]]
     /\ watched' = [r \in Repo |-> IF Replaces(job[w], r)
                                   THEN content.checkpoints[r].parents
                                   ELSE watched[r]]
  /\ batchState' = [batchState EXCEPT ![job[w]] = "COMMITTED"]
  /\ Leave(w)
  /\ UNCHANGED <<sessions, descriptor, object>>
  /\ Overtake

\* Fault: a transaction whose snapshot was overtaken is retried for ever.
RefusedRetriesBusy(w) ==
  /\ \/ pc[w] = "verify" /\ ~RawAvailable(job[w])
     \/ pc[w] = "prepare" /\ Conflicts(job[w])
  /\ Leave(w)
  /\ current' = current \ {w}
  /\ UNCHANGED <<database, object>>

\* The checks that end an append with an error: raw bytes are missing, a
\* session row differs from the persisted one, the snapshot was overtaken, a
\* referenced row does not exist.
Refused(w) ==
  /\ \/ pc[w] = "verify" /\ ~RawAvailable(job[w])
     \/ pc[w] = "prepare" /\ Conflicts(job[w])
     \/ pc[w] = "write" /\ (w \notin current \/ ~Referenced(job[w]))
  /\ Leave(w)
  /\ current' = current \ {w}
  /\ UNCHANGED <<database, object>>

-----------------------------------------------------------------------------
Retain(w) ==
  \/ \E d \in Digest :
       RetainExisting(w, d) \/ RetainRefused(w, d) \/ RetainCreate(w, d)
  \/ RetainCopy(w) \/ RetainKeep(w) \/ RetainError(w)
  \/ Describe(w) \/ RetainedAll(w)

AppendBatch(w) ==
  VerifyRaw(w) \/ Prepare(w) \/ ReadState(w) \/ Commit(w) \/ Refused(w)

Next ==
  \E w \in Writer :
    \/ \E b \in Batch : StartAppend(w, b)
    \/ Retain(w)
    \/ AppendBatch(w)
    \/ Interrupt(w)

Spec == Init /\ [][Next]_vars

\* A process that appends keeps running until its append ends or it dies.
FairSpec == Spec /\ \A w \in Writer : WF_vars(Retain(w) \/ AppendBatch(w))

-----------------------------------------------------------------------------
(* Properties                                                               *)

Committed == {b \in Batch : batchState[b] = "COMMITTED"}
Offers(r) == {b \in Committed : Content[b].checkpoints[r] # Nothing}

\* A COMMITTED batch is there as a whole: commitBatch and the prepareBatch
\* before it leave no part of it behind, whatever resumption, retry or other
\* writer came in between.
CommittedWhole ==
  \A b \in Committed :
    /\ Content[b].sessions \subseteq sessions
    /\ Content[b].evidence \subseteq evidence
    /\ Content[b].facts \subseteq facts
    /\ Content[b].links \subseteq links
    /\ \A c \in Capability :
         Content[b].capabilities[c] # Nothing => capability[c] # Nothing

\* A replay sees nothing of a batch that is only PREPARED: every fact, piece of
\* evidence and capability belongs to a batch that is COMMITTED (Snapshot reads
\* archive_capabilities without a look at archive_batches).
NothingUncommitted ==
  /\ \A f \in facts : \E b \in Committed : f \in Content[b].facts
  /\ \A e \in evidence : \E b \in Committed : e \in Content[b].evidence
  /\ \A c \in Capability : capability[c] # Nothing =>
       \E b \in Committed : Content[b].capabilities[c] = capability[c]

\* Row and watch set of a checkpoint are those of one committed batch, and no
\* committed batch offered a later watermark (insertCheckpoint leaves an older
\* offer out, with its watch set): a batch that is committed late cannot move
\* the point from which the next collection resumes backwards.
FrontierIsLatest ==
  \A r \in Repo :
    IF checkpoint[r] = Nothing
    THEN Offers(r) = {} /\ watched[r] = {}
    ELSE /\ \E b \in Offers(r) : /\ checkpoint[r] = Content[b].checkpoints[r].row
                                /\ watched[r] = Content[b].checkpoints[r].parents
         /\ \A b \in Offers(r) :
              Content[b].checkpoints[r].row.watermark <= checkpoint[r].watermark

\* The archive never refers to what it does not hold: a replay would refuse it
\* ("references evidence absent from snapshot", "has parent absent from
\* snapshot", "checkpoint repository is absent from snapshot facts") for ever
\* after.
ReferencesClosed ==
  /\ \A link \in links : \E e \in evidence : ObjectOf[e] = link[2]
  /\ DerivesFrom(evidence, evidence)
  /\ \A r \in Repo :
       /\ checkpoint[r] # Nothing => RepositoryFacts[r] \intersect facts # {}
       /\ \A u \in watched[r] : RunFacts[u] \intersect facts # {}

\* The raw bytes that committed evidence claims to retain are in the sidecar.
\* (With one writer; a second one can break it, see TwoWriters in the README.)
RawBehindCommit == \A b \in Committed : RawAvailable(b)

\* No append waits for ever: neither for the other writer nor for itself.
AppendEnds == \A w \in Writer : pc[w] # "idle" ~> pc[w] = "idle"

\* The archive implements the atomic archive.
Archive == INSTANCE AtomicArchive WITH
  FactsOf <- [b \in Batch |-> Content[b].facts],
  LinksOf <- [b \in Batch |-> Content[b].links],
  EvidenceOf <- [b \in Batch |-> Content[b].evidence],
  Reports <- [b \in Batch |-> Content[b].capabilities],
  Frontier <- [b \in Batch |-> Content[b].checkpoints],
  committed <- Committed,
  frontier <- [r \in Repo |->
                IF checkpoint[r] = Nothing THEN Nothing
                ELSE [row |-> checkpoint[r], parents |-> watched[r]]]
AtomicArchive == Archive!Spec
=============================================================================
