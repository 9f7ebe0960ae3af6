--------------------------- MODULE ArchiveReplay ---------------------------
(***************************************************************************)
(* Archive.Snapshot: a replay (or the collector itself, for the case it    *)
(* writes after a collection) reads the archive while writers append to    *)
(* it.  Snapshot runs one query after the other, each on its own read      *)
(* snapshot of the database, looks at the raw sidecar in between, and lets *)
(* normalizeSnapshot decide whether what it read is self-contained.        *)
(*                                                                         *)
(* The queries are those of a connection that sees the write-ahead log.    *)
(***************************************************************************)
EXTENDS ArchiveStore, FiniteSets

CONSTANTS
  RawOf,      \* [Evidence -> Digest or Nothing]: the raw object it retains
  Contradicts, \* [Fact -> SUBSET Fact]: the facts that it says it contradicts
  RawLogs,    \* the capability "raw_logs"
  Retained, Gap   \* the two statuses applyRawAvailability can set

ASSUME ReplayAssumption ==
  /\ RawOf \in [Evidence -> Digest \union {Nothing}]
  /\ Contradicts \in [Fact -> SUBSET Fact]
  /\ RawLogs \in Capability
  /\ Retained \in Status /\ Gap \in Status

VARIABLES
  rpc,       \* the query the reader runs next, or the outcome
  view,      \* what it has read so far
  started,   \* the batches that were committed when it started (history)
  passed     \* the contents the archive has had while it read (history)

reader == <<rpc, view, started, passed>>

ReaderStep == {"idle", "collections", "payloads", "evidence", "facts", "links",
               "capabilities", "raw", "checkpoints", "parents", "normalize",
               "accepted", "rejected"}

-----------------------------------------------------------------------------
(* The queries                                                              *)

CollectionRows == {s \in sessions : \E b \in Committed : s.id \in SessionsOf(b)}
EvidenceRows == {e \in evidence : \E b \in Committed : EvidenceSession[e] \in SessionsOf(b)}
\* Fault: the join asks for the state in which a batch is prepared.
FactRowsPrepared ==
  {f \in facts : \E b \in Batch : batchState[b] = "PREPARED" /\ f \in Content[b].facts}

FactRows == {f \in facts : \E b \in Committed : f \in Content[b].facts}

\* Compact payloads are stored with the evidence that retains them, and read
\* without a look at archive_batches.
PayloadRows == {e \in evidence : RawOf[e] = Nothing}

Empty == [ collections |-> {}, payloads |-> {}, evidence |-> {}, facts |-> {},
           links |-> {}, capabilities |-> [c \in Capability |-> Nothing],
           checkpoints |-> [r \in Repo |-> Nothing],
           parents |-> [r \in Repo |-> {}] ]

\* Everything a snapshot is made of, as one query would read it.
Now == [ collections |-> CollectionRows, payloads |-> PayloadRows,
         evidence |-> EvidenceRows, facts |-> FactRows,
         links |-> links, capabilities |-> capability,
         checkpoints |-> checkpoint, parents |-> watched ]

\* One query: read the given part of the archive and go on to the next query.
Read(step, part, next) ==
  /\ rpc = step
  /\ view' = [view EXCEPT ![part] = Now[part]]
  /\ rpc' = next
  /\ UNCHANGED <<vars, started, passed>>

Open ==
  /\ rpc = "idle"
  /\ rpc' = "collections"
  /\ started' = Committed
  /\ passed' = {Now}
  /\ UNCHANGED <<vars, view>>

\* readFacts asks for the links of all facts and keeps those of the facts it read.
ReadLinks ==
  /\ rpc = "links"
  /\ view' = [view EXCEPT !.links = {link \in links : link[1] \in view.facts}]
  /\ rpc' = "capabilities"
  /\ UNCHANGED <<vars, started, passed>>

\* readCheckpoints attaches the watched parents of the rows it read.
ReadParents ==
  /\ rpc = "parents"
  /\ view' = [view EXCEPT !.parents = [r \in Repo |->
                IF view.checkpoints[r] = Nothing THEN {} ELSE watched[r]]]
  /\ rpc' = "normalize"
  /\ UNCHANGED <<vars, started, passed>>

RawClaims == {RawOf[e] : e \in view.evidence} \ {Nothing}

\* What applyRawAvailability makes of the reported status of raw_logs.
RawStatus(reported) ==
  IF \E d \in RawClaims : ~(d \in descriptor /\ object[d] = "complete") THEN Gap
  ELSE IF reported \in {Retained, Nothing} THEN Retained
  ELSE Gap

ApplyRawAvailability ==
  /\ rpc = "raw"
  /\ view' = IF RawClaims = {} THEN view
             ELSE [view EXCEPT !.capabilities[RawLogs] = RawStatus(@)]
  /\ rpc' = "checkpoints"
  /\ UNCHANGED <<vars, started, passed>>

\* Fault: checkpoints are accepted without a look at their collection.
SelfContainedLoose(v) ==
  /\ \A e \in v.evidence : RawOf[e] = Nothing => e \in v.payloads
  /\ \A link \in v.links : \E e \in v.evidence : ObjectOf[e] = link[2]

\* The cross references that normalizeBatch and normalizeSnapshot check.  What a
\* fact contradicts is looked at nowhere else: no append and no foreign key does.
SelfContained(v) ==
  LET known == {s.id : s \in v.collections} IN
  /\ \A e \in v.evidence : /\ EvidenceSession[e] \in known
                           /\ RawOf[e] = Nothing => e \in v.payloads
  /\ \A link \in v.links : \E e \in v.evidence : ObjectOf[e] = link[2]
  /\ \A f \in v.facts : Contradicts[f] \subseteq v.facts
  /\ DerivesFrom(v.evidence, v.evidence)
  /\ \A r \in Repo : v.checkpoints[r] # Nothing =>
       /\ v.checkpoints[r].session \in known
       /\ RepositoryFacts[r] \intersect v.facts # {}

Normalize ==
  /\ rpc = "normalize"
  /\ rpc' = IF SelfContained(view) THEN "accepted" ELSE "rejected"
  /\ UNCHANGED <<vars, view, started, passed>>

Snapshot ==
  \/ Open
  \/ Read("collections", "collections", "payloads")
  \/ Read("payloads", "payloads", "evidence")
  \/ Read("evidence", "evidence", "facts")
  \/ Read("facts", "facts", "links")
  \/ ReadLinks
  \/ Read("capabilities", "capabilities", "raw")
  \/ ApplyRawAvailability
  \/ Read("checkpoints", "checkpoints", "parents")
  \/ ReadParents
  \/ Normalize

-----------------------------------------------------------------------------
Reading == rpc \notin {"idle", "accepted", "rejected"}

ReplayInit ==
  /\ Init
  /\ rpc = "idle" /\ view = Empty /\ started = {} /\ passed = {}

WriterStep ==
  /\ Next
  /\ passed' = IF Reading THEN passed \union {Now'} ELSE passed
  /\ UNCHANGED <<rpc, view, started>>

ReplayNext == WriterStep \/ Snapshot

ReplaySpec == ReplayInit /\ [][ReplayNext]_<<vars, reader>>

-----------------------------------------------------------------------------
(* Properties                                                               *)

\* A fact contradicts another that is not there.  An append takes the batch of
\* such a fact, and no replay is accepted until the other one is appended; the
\* collector puts both in one batch (persistResolutionEdge).
Unresolved(v) == \E f \in v.facts : ~ (Contradicts[f] \subseteq v.facts)

\* A snapshot is between what was committed when it started and what is
\* committed when it ends: it loses nothing and invents nothing.  It is refused
\* only when a batch was committed meanwhile, or when a fact contradicts one
\* that the archive does not hold: but for the latter no sequence of appends,
\* failures and resumptions leaves an archive that cannot be replayed.
ReplayBetween ==
  /\ rpc = "accepted" =>
    /\ \A b \in started : /\ Content[b].sessions \subseteq view.collections
                          /\ Content[b].evidence \subseteq view.evidence
                          /\ Content[b].facts \subseteq view.facts
                          /\ Content[b].links \subseteq view.links
    /\ \A e \in view.evidence : \E b \in Committed : e \in Content[b].evidence
    /\ \A f \in view.facts : \E b \in Committed : f \in Content[b].facts
  /\ rpc = "rejected" => Cardinality(passed) > 1 \/ \E v \in passed : Unresolved(v)

\* The watermark of an accepted snapshot is never ahead of its facts: whatever
\* commits while it reads, it holds all of the batch that set each checkpoint.
CheckpointBacked ==
  rpc = "accepted" =>
    \A r \in Repo : view.checkpoints[r] # Nothing =>
      \E b \in Committed :
        /\ Content[b].checkpoints[r] # Nothing
        /\ Content[b].checkpoints[r].row = view.checkpoints[r]
        /\ Content[b].sessions \subseteq view.collections
        /\ Content[b].evidence \subseteq view.evidence
        /\ Content[b].facts \subseteq view.facts
=============================================================================
