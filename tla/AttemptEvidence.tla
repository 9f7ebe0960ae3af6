--------------------------- MODULE AttemptEvidence ---------------------------
(***************************************************************************)
(* What is collected of one attempt of a workflow run after its jobs are   *)
(* known (collectAttempt, downloadAndParseAttempt and historicalAttempt of *)
(* internal/livecollect): the log of every job, the log of the attempt,    *)
(* what the runners resolved according to its setup entries, the caller    *)
(* and called workflows, and every definition that these use.              *)
(*                                                                         *)
(* Whatever is missing becomes a gap.  A world says what the jobs really   *)
(* ran and what GitHub still tells of it:                                  *)
(*                                                                         *)
(*   started    the jobs that ran                                          *)
(*   ran        the workflow definition they ran                           *)
(*   resolved   the definition each job's runner took for each <<place,    *)
(*              ref>>, and calls: the called workflow for each             *)
(*   truth      the declarations each definition has                       *)
(*   caller     ran, or None when the event does not establish it         *)
(*   absent     the jobs without one setup entry, partial: the jobs whose  *)
(*              entry does not parse to its end                            *)
(*   unseen     the resolutions that such an entry does not tell           *)
(*   formats    the repositories whose object format GitHub tells          *)
(*   recorded   the called workflows GitHub recorded: [key, def,           *)
(*              compatible, peeled]                                        *)
(*   source     what the contents API answers for a definition             *)
(*                                                                         *)
(* It is chosen after the logs were asked for, on which it has no effect.  *)
(***************************************************************************)
EXTENDS LogDownload, DefinitionResolver

CONSTANTS
  Job,
  LogOrder,  \* the logs in the order they are asked for, the attempt's last
  AttemptLog,
  Worlds,    \* the worlds that are explored, all of them sound
  Faulty(_)  \* what may become of a sound world when something is missing

ASSUME AttemptEvidenceAssumption ==
  /\ LogOrder \in Seq(Job \union {AttemptLog})
  /\ LogOrder # <<>> /\ LogOrder[Len(LogOrder)] = AttemptLog
  /\ AttemptLog \notin Job

\* What GitHub tells may be missing, but it does not contradict what happened:
\* a commit names itself, the setup entry that leaves something out does not
\* parse to its end, the event establishes no other workflow than the one that
\* ran, the calls that were recorded for a reference include the one that was
\* made, and content is what the definition was.
Consistent(w) ==
  LET named(use) == <<use.place, use.ref>>
      taken(use) ==
        CASE use.kind = "repository" -> {w.resolved[j][named(use)] : j \in w.started}
          [] use.kind = "reusable"   -> {w.calls[named(use)]}
          [] OTHER                   -> {} IN
  /\ w.started \subseteq Job
  /\ w.ran \in DOMAIN w.truth /\ None \notin DOMAIN w.truth
  /\ w.caller \in {w.ran, None}
  /\ \A d \in DOMAIN w.truth :
       /\ w.source[d].status = "ok" => w.source[d].uses = w.truth[d]
       /\ \A use \in w.truth[d] :
            /\ use.kind \in {"self", "sibling"} => <<use.place, d[2]>> \in DOMAIN w.truth
            /\ taken(use) \subseteq DOMAIN w.truth
            /\ use.ref \in Commits => taken(use) \subseteq {named(use)}
  /\ \A j \in w.started : w.unseen[j] # {} => j \in w.partial
  /\ \A c \in w.recorded : \E made \in w.recorded : made.key = c.key /\ made.def = w.calls[c.key]

ASSUME WorldsAssumption ==
  \A w \in Worlds : Consistent(w) /\ \A told \in Faulty(w) : Consistent(told)

VARIABLES
  stage,    \* "logs", "learn", "bind", "setup", "prepare", "actions",
            \* "workflows", "done" or "failed"
  todo,     \* the logs still to be asked for
  logs,     \* the logs that became evidence
  world,    \* what happened, chosen after the last log
  setup,    \* what a setup entry bound: [Job -> set of <<key, definition>>]
  formats,  \* h.algorithms: the repositories whose format was observed
  caller,   \* h.caller
  called,   \* h.workflows and h.workflowRefs: set of [key, def, compatible]
  bound,    \* whether prepareCallerWorkflow and prepareCalledWorkflows ran
  results,  \* the resolutions of this stage: set of [scope, result]
  nodes, edges, gaps

evidence == <<setup, formats, caller, called, bound, results, nodes, edges, gaps>>
evidenceVars == <<download, cancelled, stage, todo, logs, world, evidence>>

-----------------------------------------------------------------------------
(* What the jobs really ran                                                 *)

\* The definition a declaration stood for when job j ran.
TrueTarget(j, parent, use) ==
  CASE use.kind \in {"self", "sibling"} -> <<use.place, parent[2]>>
    [] use.kind = "repository" -> world.resolved[j][BindingKey(use)]
    [] use.kind = "reusable" -> world.calls[BindingKey(use)]
    [] OTHER -> None

\* The definitions job j followed from the workflow: the least set that holds
\* the workflow and whatever a definition in it uses.
Closed(j, defs) ==
  /\ world.ran \in defs
  /\ \A d \in defs : \A use \in world.truth[d] : TrueTarget(j, d, use) \in defs \union {None}

Reached(j) ==
  {d \in DOMAIN world.truth : \A defs \in SUBSET DOMAIN world.truth : Closed(j, defs) => d \in defs}

\* The declarations job j followed, with what they stood for.
Ran(j) == UNION {{<<use, TrueTarget(j, d, use)>> : use \in world.truth[d]} : d \in Reached(j)}

\* The definitions job j used.  None stands for one GitHub cannot name.
Used(j) == {world.ran} \union {r[2] : r \in Ran(j)}

-----------------------------------------------------------------------------
(* The logs (collectAttempt, downloadJobLog, downloadAndParseAttempt)       *)

\* One step of the download of the first log of todo.
StepDownload ==
  /\ stage = "logs" /\ phase \notin {"whole", "broken"}
  /\ DownloadStep
  /\ UNCHANGED <<cancelled, stage, todo, logs, world, evidence>>

\* The log is done with: the next one, or what follows the attempt's log.
NextLog(kept, gap) ==
  /\ phase' = "idle" /\ acquisition' = 0 /\ attempt' = 1 /\ target' = Route
  /\ seen' = {} /\ redirects' = 0 /\ size' = 0 /\ sink' = <<>>
  /\ todo' = Tail(todo)
  /\ logs' = logs \union kept
  /\ gaps' = gaps \union gap
  /\ stage' = IF Head(todo) = AttemptLog THEN "learn" ELSE "logs"
  /\ UNCHANGED <<cancelled, world, setup, formats, caller, called, bound, results, nodes, edges>>

\* logEnvelope compares what the writer has with what the client counted.
KeepLog ==
  /\ stage = "logs" /\ phase = "whole" /\ Len(sink) = Written
  /\ NextLog({Head(todo)}, {})

\* A download error, a local one before or after it, or an envelope that
\* disagrees with the bytes.
LoseLog ==
  /\ stage = "logs" /\ phase \in {"idle", "whole", "broken"}
  /\ NextLog({}, {<<"log", Head(todo)>>})

\* What the jobs ran, all of which is told.
Happened ==
  /\ stage = "learn" /\ world = None
  /\ world' \in Worlds
  /\ UNCHANGED <<download, cancelled, stage, todo, logs, evidence>>

\* What is told of it: a lost log and another fault are not combined.
Told ==
  /\ stage = "learn" /\ world # None
  /\ world' \in {world} \union IF gaps = {} THEN Faulty(world) ELSE {}
  /\ stage' = IF AttemptLog \in logs THEN "bind" ELSE "prepare"
  /\ UNCHANGED <<download, cancelled, todo, logs, evidence>>

-----------------------------------------------------------------------------
(* What is known of the workflows                                           *)

\* repositoryHash of every repository in the set; one gap for each failure.
Formats(repositories) ==
  /\ formats' = formats \union (repositories \intersect world.formats)

FormatGaps(repositories) == {<<"format", r>> : r \in repositories \ world.formats}

RecordedRepositories == {RepositoryOf[c.def[1]] : c \in world.recorded}

\* deriveHistoricalCallerCandidate: the definition that the event of the run
\* establishes as its workflow, None when it establishes none.
Candidate == world.caller

\* peelCalledWorkflowObject: GitHub typed what it recorded as a commit, or as a
\* tag that leads to one.
Peeled(recording) == recording.peeled

\* historicalContentSource.Fetch asks once for every definition; what it answered
\* then, an error too, it answers again.
Fetch == world.source

\* prepareCallerWorkflow and prepareCalledWorkflows.
BindWorkflows ==
  LET home == IF Candidate = None THEN {} ELSE {RepositoryOf[Candidate[1]]}
      typed == {c \in world.recorded : RepositoryOf[c.def[1]] \in world.formats} IN
  /\ bound' = TRUE
  /\ Formats(home \union RecordedRepositories)
  /\ caller' = IF home \subseteq world.formats THEN Candidate ELSE None
  /\ called' = {[key |-> c.key, def |-> c.def, compatible |-> c.compatible]
                  : c \in {c \in typed : Peeled(c)}}
  /\ gaps' = gaps \union FormatGaps(home \union RecordedRepositories)
               \union (IF home = {} THEN {<<"caller", None>>} ELSE {})
               \union {<<"incompatible", c.def>> : c \in {c \in typed : ~c.compatible}}
               \union {<<"unpeeled", c.def>> : c \in {c \in typed : ~Peeled(c)}}

\* prepareLifecycleBindings, as soon as the attempt log is evidence.
Bind ==
  /\ stage = "bind" /\ stage' = "setup"
  /\ BindWorkflows
  /\ UNCHANGED <<download, cancelled, todo, logs, world, setup, results, nodes, edges>>

\* The resolutions with a source object that the setup entry of a job shows.
Observed(j) ==
  IF j \notin world.started \/ j \in world.absent THEN {}
  ELSE {<<BindingKey(r[1]), r[2]>> :
          r \in {r \in Ran(j) :
                   r[1].kind = "repository" /\ BindingKey(r[1]) \notin world.unseen[j]}}

\* The job loop of downloadAndParseAttempt with verifySetupObservations and
\* addSetupResolutions: a source object counts when its repository's format is
\* known.
ReadSetup ==
  LET repositories == {RepositoryOf[o[2][1]] : o \in UNION {Observed(j) : j \in Job}} IN
  /\ stage = "setup" /\ stage' = "prepare"
  /\ Formats(repositories)
  /\ setup' = [j \in Job |-> {o \in Observed(j) : RepositoryOf[o[2][1]] \in world.formats}]
  /\ gaps' = gaps \union FormatGaps(repositories)
               \union {<<"setup", j>> : j \in world.started \intersect (world.absent \union world.partial)}
  /\ UNCHANGED <<download, cancelled, todo, logs, world, caller, called, bound, results, nodes, edges>>

-----------------------------------------------------------------------------
(* The definitions (resolveActions, resolveWorkflows)                       *)

Lookup(pairs) == [key \in {p[1] : p \in pairs} |-> {p[2] : p \in {q \in pairs : q[1] = key}}]

\* ResolutionInputs.
Inputs(bindings) ==
  [ actions |-> Lookup(bindings),
    workflows |-> Lookup({<<c.key, c.def>> : c \in {c \in called : c.compatible}}),
    algorithms |-> formats,
    source |-> Fetch ]

AllBindings == UNION {setup[j] : j \in Job}

\* Fault: an Action root is resolved with the bindings of every job.
KnownToAll(scope) == Inputs(AllBindings)

\* Job-scoped bindings for an Action root, those of all jobs (actionLookup) for
\* a workflow.
Known(scope) == Inputs(IF scope \in Job THEN setup[scope] ELSE AllBindings)

\* ResolveAction of every root of a job.
ActionRoots ==
  UNION {{[scope |-> j, result |-> Root("action", b[2], Known(j))] : b \in setup[j]} : j \in Job}

\* Fetch and ResolveWorkflow of every root.
WorkflowRoots ==
  {[scope |-> AttemptLog, result |-> Root("workflow", d, Known(AttemptLog))]
     : d \in (IF caller = None THEN {} ELSE {caller}) \union {c.def : c \in called}}

\* The deferred historicalAttempt.resolve starts; without an attempt log the
\* workflows are still to be looked up.
Prepare ==
  /\ stage = "prepare" /\ stage' = "actions"
  /\ IF bound THEN UNCHANGED <<formats, caller, called, bound, gaps>> ELSE BindWorkflows
  /\ results' = ActionRoots
  /\ UNCHANGED <<download, cancelled, todo, logs, world, setup, nodes, edges>>

\* The definitions that are reached next are fetched and parsed.
FollowDefinitions ==
  /\ stage \in {"actions", "workflows"} /\ \E r \in results : r.result.visits # {}
  /\ results' = {[r EXCEPT !.result = Advance(@, Known(r.scope))] : r \in results}
  /\ UNCHANGED <<download, cancelled, stage, todo, logs, world, setup, formats, caller, called,
                 bound, nodes, edges, gaps>>

\* Fault: missing content is taken for a gap the content source has recorded.
ResolutionGapsQuiet(result) ==
  {<<"declaration", e.gap>> : e \in {e \in result.edges :
      e.gap \notin {"", "HISTORICAL_CONTENT_MISSING", "CONTENT_FETCH_FAILED"}}}
  \union {<<"content", d>> : d \in result.diagnostics \ {"HISTORICAL_CONTENT_MISSING"}}

\* The gaps persistResolution records, and those of a failed fetch, which the
\* content source recorded when it was first asked.
ResolutionGaps(result) ==
  {<<"declaration", e.gap>> : e \in {e \in result.edges :
      e.gap \notin {"", "HISTORICAL_CONTENT_MISSING", "CONTENT_FETCH_FAILED"}}}
  \union {<<"content", d>> : d \in result.diagnostics}

\* persistResolutionEdge records an edge for a job or for the attempt, unless it
\* is opaque.
Recorded(r) ==
  {[scope |-> r.scope, edge |-> e] : e \in {e \in r.result.edges : e.use.kind # "opaque"}}

\* persistResolution: an edge whose caller is no node of its result is an error,
\* which ends the collection.
Persistable(result) == \A e \in result.edges : e.from \in result.nodes

Persist(next, roots) ==
  /\ \A r \in results : r.result.visits = {}
  /\ IF \A r \in results : Persistable(r.result)
     THEN /\ stage' = next /\ results' = roots
          /\ nodes' = nodes \union UNION {r.result.nodes : r \in results}
          /\ edges' = edges \union UNION {Recorded(r) : r \in results}
          /\ gaps' = gaps \union UNION {ResolutionGaps(r.result) : r \in results}
     ELSE /\ stage' = "failed"
          /\ UNCHANGED <<results, nodes, edges, gaps>>
  /\ UNCHANGED <<download, cancelled, todo, logs, world, setup, formats, caller, called, bound>>

PersistActions == stage = "actions" /\ Persist("workflows", WorkflowRoots)
PersistWorkflows == stage = "workflows" /\ Persist("done", {})

\* A cancelled context is noticed by the next request or check, if there is one.
Abort ==
  /\ cancelled /\ stage \notin {"logs", "learn", "done", "failed"}
  /\ stage' = "failed"
  /\ UNCHANGED <<download, cancelled, todo, logs, world, evidence>>

CancelAttempt ==
  /\ stage \notin {"done", "failed"}
  /\ Cancel
  /\ UNCHANGED <<stage, todo, logs, world, evidence>>

-----------------------------------------------------------------------------
EvidenceInit ==
  /\ DownloadInit
  /\ stage = "logs" /\ todo = LogOrder /\ logs = {} /\ world = None
  /\ setup = [j \in Job |-> {}] /\ formats = {} /\ caller = None /\ called = {}
  /\ bound = FALSE /\ results = {} /\ nodes = {} /\ edges = {} /\ gaps = {}

Collect ==
  \/ StepDownload
  \/ KeepLog
  \/ LoseLog
  \/ Happened
  \/ Told
  \/ Bind
  \/ ReadSetup
  \/ Prepare
  \/ FollowDefinitions
  \/ PersistActions
  \/ PersistWorkflows
  \/ Abort

EvidenceNext == Collect \/ CancelAttempt

EvidenceSpec == EvidenceInit /\ [][EvidenceNext]_evidenceVars

\* The program goes on: every request is answered or times out.
FairEvidenceSpec == EvidenceSpec /\ WF_evidenceVars(Collect)

-----------------------------------------------------------------------------
(* Properties                                                               *)

Silent == stage = "done" /\ \A g \in gaps : g[1] = "log" /\ g[2] # AttemptLog

\* Without a gap (other than for the log of a job, which no definition is read
\* from) the definition of everything that a job ran was collected: nothing that
\* a job used is lost without a word on the way from its setup entry, the
\* recorded calls and the declarations to the nodes.
DefinitionSilence ==
  Silent => \A j \in world.started :
              \A d \in Used(j) : d # None /\ \E n \in nodes : n[2] = d

\* What a runtime-bound edge of a job says is what the runner of that job took,
\* although another job may have taken another commit for the same reference;
\* what such an edge of the attempt says is true of all its jobs if there is no
\* gap.
BoundToItsJob ==
  \A e \in edges : e.edge.bound /\ e.edge.use.kind = "repository" =>
    LET key == BindingKey(e.edge.use) IN
    IF e.scope \in Job THEN e.edge.to = world.resolved[e.scope][key]
    ELSE Silent => \A j \in world.started :
           (\E r \in Ran(j) : r[1].kind = "repository" /\ BindingKey(r[1]) = key)
             => e.edge.to = world.resolved[j][key]

\* Only a cancellation ends the collection of an attempt without a result: what
\* is missing, malformed or unsupported is recorded as a gap.
FaultsBecomeGaps == stage = "failed" => cancelled

\* Every attempt is done with, whatever the API, the storage and the disk do.
AttemptEnds == <>(stage \in {"done", "failed"})
=============================================================================
