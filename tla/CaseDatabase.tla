---------------------------- MODULE CaseDatabase ----------------------------
(***************************************************************************)
(* The relational part of a case: what internal/casegen/generate.go writes *)
(* from a snapshot of the archive, what projection.go accepts when it      *)
(* reads the database again, and what internal/casefile/verify.go asks of  *)
(* the database of a finished case.                                        *)
(*                                                                         *)
(* A snapshot is what the collections of an archive add up to.  Facts and  *)
(* evidence are named by content hashes, so equal names mean equal         *)
(* content; an envelope is one observation of a piece of evidence by one   *)
(* collection.  There is one repository, one incident pack and one case.   *)
(***************************************************************************)
EXTENDS Naturals, FiniteSets

CONSTANT Nothing

\* A record with fields of another put over its own (@@ of the module TLC,
\* which the provers do not expand).
Over(new, old) ==
  [field \in DOMAIN new \cup DOMAIN old |->
     IF field \in DOMAIN new THEN new[field] ELSE old[field]]

(* A collection: [session : [id, mode], evidence, facts, findings].        *)
(* An envelope:  [session, id, parents, failed, raw]; raw is the digest of *)
(* a retained log or Nothing.                                              *)
(* A fact:       [id, kind, evidence, status]; only a coverage fact has a  *)
(* status, that of its assessment, which is named after the fact.          *)
(* A finding:    [id, evidence, coverage].                                 *)
Merged(collections) ==
  [sessions |-> {c.session : c \in collections},
   evidence |-> UNION {c.evidence : c \in collections},
   facts    |-> UNION {c.facts : c \in collections},
   findings |-> UNION {c.findings : c \in collections}]

OfKind(facts, kind) == {f \in facts : f.kind = kind}

\* What the tables ask of a snapshot: a collection (persistFacts refuses to
\* go on without one), a name of its own for every finding, and a repository
\* fact for the findings to refer to, which the collectors write with all else.
WellFormed(snapshot) ==
  /\ snapshot.sessions # {}
  /\ IsFiniteSet(snapshot.facts)
  /\ \A n \in snapshot.findings :
       /\ n = [id |-> n.id, evidence |-> n.evidence, coverage |-> n.coverage]
       /\ \A m \in snapshot.findings : m.id = n.id => m = n
       /\ OfKind(snapshot.facts, "repository") # {}

\* Only the modes of the collections classify a case.
CaseKind(sessions) ==
  LET modes     == {s.mode : s \in sessions}
      collected == modes \cap {"archive", "investigate"} # {}
  IN  IF modes \ {"fixture", "archive", "investigate"} # {} THEN "unknown"
      ELSE IF "fixture" \notin modes THEN "collected"
      ELSE IF collected THEN "mixed" ELSE "synthetic"

\* What the graphs of a case are drawn from.
GraphOf(sessions, facts, findings) ==
  [kind |-> CaseKind(sessions), facts |-> facts, findings |-> findings]

\* The digests that a snapshot says are retained.
RawDescriptors(evidence) == {v.raw : v \in evidence} \ {Nothing}

-----------------------------------------------------------------------------
(* Writing: one transaction.  Evidence, facts, observations, collections   *)
(* and coverage have one row per name.  Repositories, derivations and      *)
(* errors are inserted for each fact or observation, and a second row with *)
(* the same key is an error.                                               *)

RepositoryTwice(snapshot) == Cardinality(OfKind(snapshot.facts, "repository")) > 1

ObservedTwice(evidence, v) == \E w \in evidence : w.id = v.id /\ w # v

DerivationTwice(snapshot) ==
  \E v \in snapshot.evidence : v.parents # {} /\ ObservedTwice(snapshot.evidence, v)

EvidenceErrorTwice(snapshot) ==
  \E v \in snapshot.evidence : v.failed /\ ObservedTwice(snapshot.evidence, v)

Conflicts(snapshot) ==
  \/ RepositoryTwice(snapshot)
  \/ DerivationTwice(snapshot)
  \/ EvidenceErrorTwice(snapshot)

\* A fact, and its identity, subject and event-time columns.
FactRow(f) == [fact |-> f, columns |-> f.id]

\* The assessment keeps the first piece of evidence only.
CoverageRow(f) ==
  [id |-> f.id, status |-> f.status, evidence |-> CHOOSE e \in f.evidence : TRUE]

PersistFacts(snapshot) ==
  [batches       |-> {[content |-> snapshot.facts, state |-> "COMMITTED"]},
   batchSessions |-> {s.id : s \in snapshot.sessions},
   batchFacts    |-> {f.id : f \in snapshot.facts},
   facts         |-> {FactRow(f) : f \in snapshot.facts},
   links         |-> UNION {{f.id} \X f.evidence : f \in snapshot.facts},
   coverage      |-> {CoverageRow(f) : f \in OfKind(snapshot.facts, "coverage")}]

Text(flag) == IF flag THEN "true" ELSE "false"

\* A revision repeats its coverage links as JSON.
PersistFinding(n) == [id |-> n.id, coverage |-> n.coverage]

\* The rows of the case database, for a snapshot without conflicts.
PersistCase(snapshot, case, raw) ==
  Over(PersistFacts(snapshot), [
   metadata     |-> {<<"case_id", case>>, <<"case_raw_materialized", Text(raw)>>},
   sessions     |-> snapshot.sessions,
   repositories |-> OfKind(snapshot.facts, "repository"),
   packs        |-> {"pack"},
   analyses     |-> {case},
   revisions    |-> {PersistFinding(n) : n \in snapshot.findings},
   selected     |-> {n.id : n \in snapshot.findings},
   support      |-> UNION {{n.id} \X n.evidence : n \in snapshot.findings},
   covered      |-> UNION {{n.id} \X n.coverage : n \in snapshot.findings},
   edges        |-> {GraphOf(snapshot.sessions, snapshot.facts, snapshot.findings)}])

-----------------------------------------------------------------------------
(* Reading again: the projection of a finished database.                   *)

Value(db, key) == {row[2] : row \in {r \in db.metadata : r[1] = key}}

ProvenanceAgrees(db, case) ==
  /\ db.packs = {"pack"}
  /\ db.analyses = {case}
  /\ Value(db, "case_id") = {case}

Committed(db) == \E b \in db.batches : b.state = "COMMITTED"

\* Sessions are read through their batch, and none may lack it.
LoadedSessions(db) ==
  {s \in db.sessions : Committed(db) /\ s.id \in db.batchSessions}

SessionsCommitted(db) == LoadedSessions(db) # {} /\ LoadedSessions(db) = db.sessions

\* Facts are read through their batch, and columns repeat the payload.
LoadedFacts(db) ==
  {r.fact : r \in {r \in db.facts : Committed(db) /\ r.fact.id \in db.batchFacts}}

FactsAgree(db) ==
  /\ \A r \in db.facts : r.columns = r.fact.id
  /\ Cardinality(LoadedFacts(db)) = Cardinality(db.facts)

LinksAgree(db) ==
  db.links = UNION {{f.id} \X f.evidence : f \in LoadedFacts(db)}

CoverageAgrees(db) ==
  db.coverage = {CoverageRow(f) : f \in OfKind(LoadedFacts(db), "coverage")}

BatchAgrees(db) ==
  /\ Cardinality(db.batches) = 1
  /\ \A b \in db.batches : b.state = "COMMITTED" /\ b.content = LoadedFacts(db)

SelectedRevisions(db) == {r \in db.revisions : r.id \in db.selected}

LinkedTo(links, id) == {link[2] : link \in {l \in links : l[1] = id}}

LoadedFindings(db) ==
  {[id |-> r.id, evidence |-> LinkedTo(db.support, r.id),
    coverage |-> LinkedTo(db.covered, r.id)] : r \in SelectedRevisions(db)}

\* A finding names its repository, and its coverage twice.
FindingsAgree(db) ==
  \A r \in SelectedRevisions(db) :
    db.repositories # {} /\ LinkedTo(db.covered, r.id) = r.coverage

\* What a database without contradictions says.
ReprojectedGraph(db) == GraphOf(LoadedSessions(db), LoadedFacts(db), LoadedFindings(db))

\* A plausible mistake: the hash of the batch stands for the links as well.
AcceptsBatch(db) ==
  /\ SessionsCommitted(db)
  /\ FactsAgree(db)
  /\ CoverageAgrees(db)
  /\ BatchAgrees(db)
  /\ FindingsAgree(db)

\* The rows of the archive and of the findings agree with each other.
Accepts(db) ==
  /\ SessionsCommitted(db)
  /\ FactsAgree(db)
  /\ LinksAgree(db)
  /\ CoverageAgrees(db)
  /\ BatchAgrees(db)
  /\ FindingsAgree(db)

\* The projection must come to the graphs of the analysis, and so must the
\* edges that the database keeps.
Reprojects(db, case, expected) ==
  /\ ProvenanceAgrees(db, case)
  /\ Accepts(db)
  /\ LoadedFindings(db) = expected.findings
  /\ ReprojectedGraph(db) = expected
  /\ db.edges = {ReprojectedGraph(db)}

-----------------------------------------------------------------------------
(* What the verification of a case asks of its database.                   *)

DatabaseContract(db, metadata) ==
  /\ Value(db, "case_id") = {metadata.case}
  /\ Value(db, "case_raw_materialized") = {Text(metadata.raw)}
  /\ db.analyses = {metadata.case}
  /\ db.packs = {"pack"}
  /\ SessionsCommitted(db)
  /\ CaseKind(LoadedSessions(db)) = metadata.kind

-----------------------------------------------------------------------------
(* What another process or the disk may do to it.                          *)

Altered(table, row) ==
  CASE table = "metadata"  -> {<<row[1], "other">>}
    [] table = "facts"     -> {[row EXCEPT !.columns = Nothing]}
    [] table = "batches"   -> {[row EXCEPT !.state = "PREPARED"], [row EXCEPT !.content = {}]}
    [] table = "coverage"  -> {[row EXCEPT !.status = "other"]}
    [] table = "revisions" -> {[row EXCEPT !.coverage = {}]} \ {row}
    [] OTHER -> {}

\* The databases that differ from db in one row, lost or altered.
Drifts(db) ==
  UNION {UNION {{[db EXCEPT ![t] = (@ \ {row}) \cup new] :
                    new \in {{}} \cup {{a} : a \in Altered(t, row)}} : row \in db[t]} :
         t \in DOMAIN db}
=============================================================================
