-------------------------- MODULE DefinitionResolver --------------------------
(***************************************************************************)
(* How exact workflow and Action definitions are followed to the           *)
(* definitions they use (Resolver in internal/resolve/resolver.go).        *)
(*                                                                         *)
(* A definition is a pair <<place, commit>>; a place is the path of a      *)
(* workflow or the directory of an Action in some repository.  A           *)
(* declaration is a record of its kind, the place it names and the ref it  *)
(* gives.  What is known besides the content is the record "in":           *)
(*                                                                         *)
(*   actions    the definitions that runners resolved, by <<place, ref>>   *)
(*   workflows  the called workflows that GitHub recorded, by the same key *)
(*   algorithms the repositories whose object format was observed          *)
(*   source     what the content source answers for each definition:       *)
(*              [status, uses]                                             *)
(*                                                                         *)
(* A result has nodes (kind and definition), edges, diagnostics and the    *)
(* visits that are still to be made: a definition whose declarations are   *)
(* to be followed, how deep it is and the definitions that led to it.  The *)
(* code goes depth first; the order decides nothing, as a visit knows no   *)
(* more than what led to it, so that a step makes all the visits of a      *)
(* result.                                                                 *)
(***************************************************************************)
EXTENDS Integers

CONSTANTS
  RepositoryOf,  \* [place -> repository]
  ActionNamed,   \* the places whose file path ends in action.yml or action.yaml
  Commits,       \* refs that are full object IDs
  MaxDepth,      \* historicalResolutionDepth: 10
  None

Result(nodes, edges, diagnostics, visits) ==
  [nodes |-> nodes, edges |-> edges, diagnostics |-> diagnostics, visits |-> visits]

Visit(def, depth, stack) == [def |-> def, depth |-> depth, stack |-> stack]

\* ReferenceBindingKey.
BindingKey(use) == <<use.place, use.ref>>

Bound(bindings, use) ==
  IF BindingKey(use) \in DOMAIN bindings THEN bindings[BindingKey(use)] ELSE {}

\* declaredReferenceObject: a full object ID is typed by the format of the
\* repository it is in, and is no object when that format was not observed.
Declared(use, in) ==
  use.ref \in Commits /\ RepositoryOf[use.place] \in in.algorithms

\* uniqueRuntimeAction and uniqueRuntimeWorkflow: every binding is the same.
Unique(defs) == \E d \in defs : defs = {d}

\* The definition that a repository declaration stands for: what the runtime
\* bound it to, if that is one thing, or else the object it declares.
Identity(bindings, use, in) ==
  IF Unique(Bound(bindings, use)) THEN CHOOSE d \in Bound(bindings, use) : TRUE
  ELSE IF Bound(bindings, use) = {} /\ Declared(use, in) THEN <<use.place, use.ref>>
  ELSE None

UnknownIdentity(bindings, use) ==
  IF Bound(bindings, use) = {} THEN "IDENTITY_MISSING" ELSE "IDENTITY_AMBIGUOUS"

\* definitionNodeKind decides by the end of the path, also for a workflow.
DefinitionNodeKind(place) == IF place \in ActionNamed THEN "action" ELSE "workflow"

Edge(from, use, to, bound, gap) ==
  [from |-> from, use |-> use, to |-> to, bound |-> bound, gap |-> gap]

OnlyEdge(edge) == Result({}, {edge}, {}, {})

\* classifyFetch, and the metadata that fetchActionMetadata cannot choose from.
FetchDiagnostic(status) ==
  CASE status = "missing" -> "HISTORICAL_CONTENT_MISSING"
    [] status = "failed"  -> "CONTENT_FETCH_FAILED"
    [] status = "both"    -> "AMBIGUOUS_ACTION_METADATA"
    [] OTHER              -> "MALFORMED"

\* What a declaration of an Action stands for, None when that is unknown.
ActionTarget(parent, use, in) ==
  CASE use.kind = "self"       -> <<use.place, parent[2]>>
    [] use.kind = "repository" -> Identity(in.actions, use, in)
    [] OTHER                   -> None

WorkflowTarget(parent, use, in) ==
  IF use.kind = "sibling" THEN <<use.place, parent[2]>> ELSE Identity(in.workflows, use, in)

\* resolveAction: a declaration of an Action on a visit.
FollowAction(visit, use, in) ==
  LET from == <<DefinitionNodeKind(visit.def[1]), visit.def>>
      unknown(gap) == OnlyEdge(Edge(from, use, None, FALSE, gap))
      target == ActionTarget(visit.def, use, in)
      bound == use.kind = "repository" /\ Bound(in.actions, use) # {}
      edge(gap) == Edge(from, use, target, bound, gap)
      status == in.source[target].status IN
  IF use.kind = "opaque" THEN unknown("DYNAMIC_OR_OPAQUE_ACTION")
  ELSE IF visit.depth >= MaxDepth THEN unknown("RESOLUTION_DEPTH_LIMIT")
  ELSE IF use.kind = "local" THEN unknown("LOCAL_WORKSPACE_BYTES_UNPROVEN")
  ELSE IF target = None THEN unknown(UnknownIdentity(in.actions, use))
  ELSE IF status \in {"missing", "failed"}
    THEN Result({}, {edge(FetchDiagnostic(status))}, {FetchDiagnostic(status)}, {})
  ELSE IF status # "ok" THEN Result({}, {edge("")}, {FetchDiagnostic(status)}, {})
  ELSE IF target \in visit.stack THEN Result({}, {edge("")}, {"RESOLUTION_CYCLE"}, {})
  ELSE Result({<<"action", target>>}, {edge("")}, {},
              {Visit(target, visit.depth + 1, visit.stack \union {target})})

\* resolveReusable: a job that calls a workflow; "sibling" is a local path.
FollowReusable(visit, use, in) ==
  LET from == <<"workflow", visit.def>>
      unknown(gap) == OnlyEdge(Edge(from, use, None, FALSE, gap))
      target == WorkflowTarget(visit.def, use, in)
      bound == use.kind = "reusable" /\ Bound(in.workflows, use) # {}
      edge == Edge(from, use, target, bound, "")
      node == <<"workflow", target>>
      status == in.source[target].status IN
  IF visit.depth >= MaxDepth THEN unknown("RESOLUTION_DEPTH_LIMIT")
  ELSE IF target = None THEN unknown(UnknownIdentity(in.workflows, use))
  ELSE IF target \in visit.stack THEN Result({}, {edge}, {"RESOLUTION_CYCLE"}, {})
  ELSE IF status \in {"missing", "failed"}
    THEN Result({}, {edge}, {FetchDiagnostic(status)}, {})
  ELSE IF status # "ok" THEN Result({node}, {edge}, {"MALFORMED"}, {})
  ELSE Result({node}, {edge}, {},
              {Visit(target, visit.depth + 1, visit.stack \union {target})})

\* resolveWorkflowParsed, and the steps of an Action.
Follow(visit, use, in) ==
  IF use.kind \in {"reusable", "sibling"} THEN FollowReusable(visit, use, in)
  ELSE FollowAction(visit, use, in)

\* All the visits of a result.
Advance(result, in) ==
  LET found == UNION {{Follow(v, use, in) : use \in in.source[v.def].uses} : v \in result.visits} IN
  Result(result.nodes \union UNION {r.nodes : r \in found},
         result.edges \union UNION {r.edges : r \in found},
         result.diagnostics \union UNION {r.diagnostics : r \in found},
         UNION {r.visits : r \in found})

\* ResolveWorkflow and ResolveAction start with a node for their root.  Content
\* of an Action that cannot be parsed is an error of the call.
Root(kind, def, in) ==
  IF in.source[def].status = "ok"
  THEN Result({<<kind, def>>}, {}, {}, {Visit(def, 1, {def})})
  ELSE Result({}, {}, {FetchDiagnostic(in.source[def].status)}, {})
=============================================================================
