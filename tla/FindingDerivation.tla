------------------------- MODULE FindingDerivation -------------------------
(***************************************************************************)
(* The derivation of findings (analyze/analyze.go, match/derive.go).  An    *)
(* archive grows by batches of facts about one run of one repository: what  *)
(* the runner's log says of a component's Action, where workflow files      *)
(* refer to it, which evidence was read to its end and which is missing.    *)
(* A replay reads all facts, in the order of their hashes, and turns them   *)
(* into one conclusion per indicator and subject.                           *)
(*                                                                          *)
(* Facts about other components are left out: componentMatches drops them.  *)
(* The workflow path of the run is known, so a finding is identified by its *)
(* indicator and its subject.                                               *)
(***************************************************************************)
EXTENDS FiniteSets, Integers, SequencesExt, TLC

CONSTANTS
  Batches,      \* the sets of facts that one append may add
  Indicators,   \* the indicators of the incident pack
  KnownGood,    \* its known-good identities: records [kind, value]
  MaxFacts,     \* bound on the facts other than coverage
  None          \* an absent attempt, job, step, object or ref

VARIABLES
  facts,        \* the facts of the archive
  findings,     \* indicator -> subject -> state, as of the last replay
  fresh         \* nothing was appended since the last replay

vars == <<facts, findings, fresh>>

(***************************************************************************)
(* Facts.  A subject is [attempt, job, step]; without an attempt it is the  *)
(* repository as it is today (facts of a run without an attempt are left    *)
(* out).                                                                    *)
(*   action      subject, stage, source, digest                             *)
(*   dependency  subject, basis, ref, targets and object (the kind and the  *)
(*               name of the exact target, if one is recorded), depth (more *)
(*               than 0 behind another Action), inWindow, contradicts       *)
(*   coverage    subject, unit, closed (as many rows as were expected)      *)
(*   gap         subject, unit, material, ambiguous                         *)
(***************************************************************************)
OfKind(F, kind) == {f \in F : f.kind = kind}

\* What the log proves of an Action: nothing of its bytes (its preparation
\* failed), its identity, that the runner prepared it, that it started.
Failed    == 0
Announced == 1
Prepared  == 2
Started   == 3

\* What a collection writes of an Action names a job; it names the step exactly
\* if the log proves that it started (setup.go:593, lifecycle.go:484 and :666,
\* model/runtime.go:84), and a preparation that failed is written with its
\* announcement (logparse/parser.go:252 and :288).
WellFormed(F) ==
  /\ IsFiniteSet(F)
  /\ \A f \in F :
       f.subject = [attempt |-> f.subject.attempt, job |-> f.subject.job, step |-> f.subject.step]
  /\ \A obs \in OfKind(F, "action") :
       /\ obs.stage \in Failed .. Started
       /\ obs.subject.attempt # None /\ obs.subject.job # None
       /\ obs.subject.step # None <=> obs.stage = Started
       /\ obs.stage = Failed =>
            \E other \in OfKind(F, "action") :
              /\ other.stage = Announced /\ other.subject = obs.subject
              /\ other.source = obs.source /\ other.digest = obs.digest
  /\ \A c \in OfKind(F, "coverage") : c.closed \in BOOLEAN

ASSUME BatchesAssumption == \A batch \in Batches : WellFormed(batch)

\* The capabilities a negative conclusion needs.
RequiredUnits == {"job log", "parser grammar"}

\* Fault: the attempt is not compared.
sameJobSubject(a, b) == b.job # None => a.job = b.job

\* `a' happened within the execution `b', whatever its step.
sameExecutionSubject(a, b) ==
  /\ b.attempt # None => a.attempt = b.attempt
  /\ b.job # None => a.job = b.job

JobOf(s) == [s EXCEPT !.step = None]

(***************************************************************************)
(* Identities.                                                              *)
(***************************************************************************)
IsMutable(ind) == ind.kind = "mutable-action-ref"

runtimeIdentityMatches(ind, obs) ==
  \/ ind.kind = "action-commit" /\ obs.source # None /\ obs.source = ind.value
  \/ ind.kind = "digest" /\ obs.digest # None /\ obs.digest = ind.value

runtimeKnownGood(obs) ==
  \E good \in KnownGood :
    \/ /\ good.kind \in {"action-commit", "reusable-workflow-commit"}
       /\ obs.source # None /\ obs.source = good.value
    \/ good.kind = "digest" /\ obs.digest # None /\ obs.digest = good.value

sameRuntimeIdentity(a, b) ==
  IF a.source # None /\ b.source # None
    THEN a.source = b.source
    ELSE a.digest # None /\ a.digest = b.digest

\* Fault: an observation of equal strength counts as stronger.
equalRuntimeObservationExists(F, obs, ind) ==
  \E other \in OfKind(F, "action") \ {obs} :
    /\ sameExecutionSubject(other.subject, obs.subject)
    /\ other.stage >= obs.stage
    /\ sameRuntimeIdentity(obs, other) \/ runtimeIdentityMatches(ind, other)

strongerRuntimeObservationExists(F, obs, ind) ==
  \E other \in OfKind(F, "action") \ {obs} :
    /\ sameExecutionSubject(other.subject, obs.subject)
    /\ other.stage > obs.stage
    /\ sameRuntimeIdentity(obs, other) \/ runtimeIdentityMatches(ind, other)

hasExactRuntime(F, subject) ==
  \E obs \in OfKind(F, "action") :
    /\ sameExecutionSubject(obs.subject, subject)
    /\ obs.source # None \/ obs.digest # None

(***************************************************************************)
(* Coverage of a job.                                                       *)
(***************************************************************************)
hasMaterialGap(F, subject) ==
  \E gap \in OfKind(F, "gap") :
    gap.material /\ sameExecutionSubject(gap.subject, subject)

\* Every required capability has exactly one assessment of the job, it is
\* closed, and nothing required is missing.
requiredNegativeCoverageClosed(F, subject) ==
  /\ subject.job # None
  /\ \A unit \in RequiredUnits :
       LET rows == {c \in OfKind(F, "coverage") :
                      c.subject = JobOf(subject) /\ c.unit = unit}
       IN  Cardinality(rows) = 1 /\ \A c \in rows : c.closed
  /\ \A gap \in OfKind(F, "gap") :
       ~(gap.subject = JobOf(subject) /\ gap.unit \in RequiredUnits)

(***************************************************************************)
(* Contradictions: a historical definition of the very step names another   *)
(* exact object than the one the runner resolved, and is linked to it.      *)
(***************************************************************************)
Contradicts(def, obs) ==
  /\ def.basis = "historical" /\ def.targets = "action-commit"
  /\ obs \in def.contradicts
  /\ obs.subject.step # None /\ obs.subject = def.subject
  /\ obs.source # None /\ obs.stage # Failed
  /\ obs.source # def.object

(***************************************************************************)
(* match.Derive: a candidate, the set of the flags that are true of it, to  *)
(* one state.                                                               *)
(***************************************************************************)
Derive(c) ==
  IF "contradiction" \in c THEN "CONTRADICTORY_EVIDENCE"
  ELSE IF {"known good", "exact runtime"} \subseteq c
    THEN IF "gap" \in c \/ "closed" \notin c
           THEN "UNKNOWN_EVIDENCE_GAP" ELSE "NO_MATCH_CONFIRMED"
  ELSE IF {"exact runtime", "started"} \subseteq c THEN "CONFIRMED_EXECUTED"
  ELSE IF {"exact runtime", "prepared"} \subseteq c THEN "CONFIRMED_DOWNLOADED"
  ELSE IF "called workflow" \in c THEN "CONFIRMED_CALLED_WORKFLOW"
  ELSE IF "declared" \in c THEN "DECLARED_AT_RUN_SHA"
  ELSE IF {"mutable ref", "in window"} \subseteq c THEN "RUN_IN_WINDOW_MUTABLE_REF"
  ELSE IF "transitive" \in c THEN "POTENTIAL_TRANSITIVE"
  ELSE IF "current only" \in c THEN "CURRENT_REFERENCE_ONLY"
  ELSE IF "gap" \in c \/ "announced only" \in c \/ "closed" \notin c
         THEN "UNKNOWN_EVIDENCE_GAP"
  ELSE "NO_MATCH_CONFIRMED"

Flag(name, holds) == IF holds THEN {name} ELSE {}

(***************************************************************************)
(* deriveIndicator, first loop: runtime observations.                       *)
(***************************************************************************)
\* Fault: weaker observations of the same identity are kept.
ActionAlwaysConsidered(F, ind, obs) ==
  /\ obs.kind = "action"
  /\ runtimeIdentityMatches(ind, obs) \/ runtimeKnownGood(obs)

ActionConsidered(F, ind, obs) ==
  /\ obs.kind = "action"
  /\ runtimeIdentityMatches(ind, obs) \/ runtimeKnownGood(obs)
  /\ ~strongerRuntimeObservationExists(F, obs, ind)

RuntimeFlags(F, obs) ==
  UNION {{"exact runtime"},
         Flag("known good", runtimeKnownGood(obs)),
         Flag("started", obs.stage = Started),
         Flag("prepared", obs.stage \in {Prepared, Started}),
         Flag("gap", hasMaterialGap(F, obs.subject)),
         Flag("closed", requiredNegativeCoverageClosed(F, obs.subject)),
         Flag("contradiction", \E def \in OfKind(F, "dependency") : Contradicts(def, obs))}

\* Fault: an announced download is not told from no evidence at all.
ActionCandidateAnnounced(F, obs) == RuntimeFlags(F, obs)

ActionCandidate(F, obs) ==
  RuntimeFlags(F, obs) \cup Flag("announced only", obs.stage = Announced)

(***************************************************************************)
(* Second loop: references.  A mutable reference counts only where no exact *)
(* runtime identity is known.                                               *)
(***************************************************************************)
DependencyConsidered(F, ind, dep) ==
  /\ dep.kind = "dependency"
  /\ IF IsMutable(ind)
       THEN /\ dep.ref = ind.value
            /\ \/ dep.basis = "current" \/ dep.depth > 0
               \/ ~hasExactRuntime(F, dep.subject)
       ELSE dep.object = ind.value /\ dep.targets = ind.kind

DependencyCandidate(F, ind, dep) ==
  LET current  == dep.basis = "current"
      called   == ind.kind = "reusable-workflow-commit"
      recorded == called /\ dep.basis = "attempt metadata"
      deep     == ~current /\ ~called /\ dep.depth > 0
      direct   == ~current /\ ~recorded /\ ~deep
      mutable  == direct /\ IsMutable(ind)
      covered  == ~current /\ \E c \in F : /\ c.kind \in {"coverage", "gap"}
                                           /\ sameExecutionSubject(c.subject, dep.subject)
  IN  UNION {Flag("current only", current),
             Flag("called workflow", recorded),
             Flag("transitive", deep),
             Flag("declared", direct /\ ~mutable),
             Flag("mutable ref", mutable),
             Flag("in window", mutable /\ dep.inWindow),
             Flag("gap", mutable),
             Flag("closed", ~mutable /\ covered),
             Flag("contradiction",
                  \E obs \in OfKind(F, "action") : Contradicts(dep, obs))}

(***************************************************************************)
(* Findings are a function from subjects to states.  One finding per fact;  *)
(* once anything was found, a plain gap must lie in the attempt and job of  *)
(* a finding to have one of its own.                                        *)
(***************************************************************************)
Finding(subject, state) == [s \in {subject} |-> state]

FindingOf(F, ind, f) ==
  CASE ActionConsidered(F, ind, f) ->
         Finding(f.subject, Derive(ActionCandidate(F, f)))
    [] DependencyConsidered(F, ind, f) ->
         Finding(JobOf(f.subject), Derive(DependencyCandidate(F, ind, f)))
    [] OTHER -> <<>>

gapRelatedToFindings(found, subject) ==
  /\ subject.attempt # None
  /\ \E s \in DOMAIN found :
       /\ s.attempt = subject.attempt
       /\ subject.job = None \/ s.job = None \/ s.job = subject.job

GapSubjects(F, found) ==
  {gap.subject : gap \in {g \in OfKind(F, "gap") :
     /\ g.material
     /\ DOMAIN found = {} \/ g.ambiguous \/ gapRelatedToFindings(found, g.subject)}}

GapFindings(F, found) ==
  [s \in {JobOf(subject) : subject \in GapSubjects(F, found)} |-> Derive({"gap"})]

(***************************************************************************)
(* Coalescing: the findings of one subject become one, first to last in the *)
(* order of the facts, and those of the gaps at last.                       *)
(***************************************************************************)
Positive == {"CONFIRMED_EXECUTED", "CONFIRMED_DOWNLOADED", "CONFIRMED_CALLED_WORKFLOW",
             "DECLARED_AT_RUN_SHA", "RUN_IN_WINDOW_MUTABLE_REF", "POTENTIAL_TRANSITIVE",
             "CURRENT_REFERENCE_ONLY"}

States == Positive \cup
  {"CONTRADICTORY_EVIDENCE", "UNKNOWN_EVIDENCE_GAP", "NO_MATCH_CONFIRMED"}

findingStateRank ==
  [CONTRADICTORY_EVIDENCE |-> 100, CONFIRMED_EXECUTED |-> 90, CONFIRMED_DOWNLOADED |-> 80,
   CONFIRMED_CALLED_WORKFLOW |-> 80, DECLARED_AT_RUN_SHA |-> 70,
   RUN_IN_WINDOW_MUTABLE_REF |-> 60, POTENTIAL_TRANSITIVE |-> 50,
   CURRENT_REFERENCE_ONLY |-> 40, UNKNOWN_EVIDENCE_GAP |-> 30, NO_MATCH_CONFIRMED |-> 20]

\* Fault: the later finding replaces the earlier one.
mergeLater(left, right) ==
  IF "CONTRADICTORY_EVIDENCE" \in {left, right} THEN "CONTRADICTORY_EVIDENCE" ELSE right

\* Two findings of one identity that show different steps would end the replay
\* with an error; what the collectors write shows none (README).
mergeFindingRevisions(left, right) ==
  IF \/ "CONTRADICTORY_EVIDENCE" \in {left, right}
     \/ left = "NO_MATCH_CONFIRMED" /\ right \in Positive
     \/ right = "NO_MATCH_CONFIRMED" /\ left \in Positive
    THEN "CONTRADICTORY_EVIDENCE"
    ELSE IF findingStateRank[right] > findingStateRank[left] THEN right ELSE left

coalesceIndicatorFindings(earlier, later) ==
  [s \in DOMAIN earlier \cup DOMAIN later |->
     CASE s \notin DOMAIN later -> earlier[s]
       [] s \notin DOMAIN earlier -> later[s]
       [] OTHER -> mergeFindingRevisions(earlier[s], later[s])]

ExactFindings(F, order, ind) ==
  LET found[n \in 0 .. Len(order)] ==
        IF n = 0 THEN <<>>
        ELSE coalesceIndicatorFindings(found[n - 1], FindingOf(F, ind, order[n]))
  IN  found[Len(order)]

deriveIndicator(F, order, ind) ==
  LET exact == ExactFindings(F, order, ind)
  IN  coalesceIndicatorFindings(exact, GapFindings(F, exact))

(***************************************************************************)
(* The archive and its replays.  Fact IDs are hashes, so a snapshot lists   *)
(* the facts in any order, the same for the same facts; which one is left   *)
(* open at every replay.  buildIndex splits them by kind, so only the order *)
(* within a kind can matter.                                                *)
(***************************************************************************)
Orders(F) ==
  {actions \o dependencies :
     actions \in SetToSeqs(OfKind(F, "action")),
     dependencies \in SetToSeqs(OfKind(F, "dependency"))}

Init ==
  /\ facts = {}
  /\ findings = [ind \in Indicators |-> <<>>]
  /\ fresh = FALSE

AppendBatch ==
  \E batch \in Batches :
    /\ ~(batch \subseteq facts)
    /\ Cardinality({f \in facts \cup batch : f.kind # "coverage"}) <= MaxFacts
    /\ facts' = facts \cup batch
    /\ fresh' = FALSE
    /\ UNCHANGED findings

Replay ==
  /\ \E order \in Orders(facts) :
       findings' = [ind \in Indicators |-> deriveIndicator(facts, order, ind)]
  /\ fresh' = TRUE
  /\ UNCHANGED facts

Next == AppendBatch \/ Replay

Spec == Init /\ [][Next]_vars

-----------------------------------------------------------------------------
(***************************************************************************)
(* Properties.                                                              *)
(***************************************************************************)
Observations == OfKind(facts, "action")

\* The order in which the snapshot lists the facts decides nothing: a second
\* replay of the same archive gives the same findings, although findings of one
\* subject are merged one after the other and the merge is not associative.
ReplayIsStable == [][fresh /\ facts' = facts => findings' = findings]_vars

Reported(ind, obs) ==
  LET f == findings[ind]
  IN  /\ obs.stage = Started =>
           /\ obs.subject \in DOMAIN f
           /\ f[obs.subject] \in {"CONFIRMED_EXECUTED", "CONTRADICTORY_EVIDENCE"}
      /\ obs.stage = Prepared =>
           \E s \in DOMAIN f :
             /\ JobOf(s) = JobOf(obs.subject)
             /\ f[s] \in {"CONFIRMED_EXECUTED", "CONFIRMED_DOWNLOADED",
                         "CONTRADICTORY_EVIDENCE"}

Affected(ind, obs) == runtimeIdentityMatches(ind, obs) /\ ~runtimeKnownGood(obs)

\* A stronger observation stands for this one but is not affected: mostly
\* because the indicator names a package digest, and both have the same source
\* commit.
Shadowed(F, ind, obs) ==
  \E other \in OfKind(F, "action") :
    /\ sameExecutionSubject(other.subject, obs.subject)
    /\ other.stage > obs.stage
    /\ sameRuntimeIdentity(obs, other) \/ runtimeIdentityMatches(ind, other)
    /\ ~Affected(ind, other)

\* An affected Action that the runner prepared or started is never lost among
\* the other facts of its job: its start is reported at its step, its
\* preparation at least in its job.  Set aside are an identity that is also
\* known-good, and an observation that another one shadows: that one is lost.
AffectedIsReported ==
  fresh => \A ind \in Indicators : \A obs \in Observations :
    Affected(ind, obs) /\ ~Shadowed(facts, ind, obs) => Reported(ind, obs)

\* What a material gap leaves of a clean conclusion about s: it is of another
\* job, and if it is of the whole attempt it has a finding of its own.
ClearOf(gap, s, found) ==
  LET there == JobOf(gap.subject)
  IN  /\ there # JobOf(s)
      /\ there.attempt = s.attempt /\ there.job = None =>
           there \in DOMAIN found /\ found[there] # "NO_MATCH_CONFIRMED"

\* A clean conclusion is earned: each required capability of its job was read
\* to its end and no later collection says otherwise, nothing material is missing
\* there, and at that subject no affected identity was even announced, unless
\* it, or a stronger affected observation in its place, is shadowed.
\* A material gap of the attempt that names no job does not undo the conclusion
\* of its jobs: hasMaterialGap asks for the very job.  The conclusion then stands
\* beside a finding of the attempt itself, which is not clean (the documents
\* promise more, docs/EVIDENCE_MODEL.md:181, docs/ARCHITECTURE.md:680).  A gap of
\* the repository, without an attempt, is not reported beside a clean job at all.
NegativeIsEarned ==
  fresh => \A ind \in Indicators : \A s \in DOMAIN findings[ind] :
    findings[ind][s] = "NO_MATCH_CONFIRMED" =>
      /\ \A unit \in RequiredUnits :
           {c.closed : c \in {r \in OfKind(facts, "coverage") :
                               r.subject = JobOf(s) /\ r.unit = unit}} = {TRUE}
      /\ \A gap \in OfKind(facts, "gap") : gap.material => ClearOf(gap, s, findings[ind])
      /\ \A obs \in Observations :
           obs.subject = s /\ Affected(ind, obs) =>
             \E other \in Observations :
               /\ other.subject = s /\ Affected(ind, other) /\ other.stage >= obs.stage
               /\ Shadowed(facts, ind, other)

Confirmed(f, job) ==
  {f[s] : s \in {k \in DOMAIN f : JobOf(k) = job}} \cap
    {"CONFIRMED_EXECUTED", "CONFIRMED_DOWNLOADED", "CONFIRMED_CALLED_WORKFLOW"}

Disputed(f, job) ==
  \E s \in DOMAIN f : JobOf(s) = job /\ f[s] = "CONTRADICTORY_EVIDENCE"

\* More evidence never takes back what was confirmed: when the archive grows,
\* a job or attempt with a confirmed finding keeps one that is no weaker, or
\* the evidence has become contradictory.  Jobs with a shadowed observation are
\* set aside.
ConfirmedStands ==
  [][\A ind \in Indicators : \A s \in DOMAIN findings[ind] :
       LET before == Confirmed(findings[ind], JobOf(s))
           after  == Confirmed(findings'[ind], JobOf(s))
           shadow == \E obs \in Observations :
                       JobOf(obs.subject) = JobOf(s) /\ Shadowed(facts, ind, obs)
       IN  ~shadow /\ ~Disputed(findings'[ind], JobOf(s)) =>
             /\ "CONFIRMED_EXECUTED" \in before => "CONFIRMED_EXECUTED" \in after
             /\ before # {} => after # {}]_vars

Conclusions(f, attempt) ==
  {<<s, f[s]>> : s \in {k \in DOMAIN f : k.attempt = attempt
                                       /\ f[k] # "UNKNOWN_EVIDENCE_GAP"}}

\* Nothing is carried from one attempt of a run to another: what is concluded
\* about an attempt, other than that something is unknown, is what the facts of
\* that attempt alone support.
NoCarryForward ==
  fresh => \A attempt \in {f.subject.attempt : f \in facts} \ {None} :
    LET own == {f \in facts : f.subject.attempt = attempt}
    IN  \A ind \in Indicators :
          Conclusions(findings[ind], attempt)
            = Conclusions(deriveIndicator(own, CHOOSE o \in Orders(own) : TRUE, ind), attempt)
=============================================================================
