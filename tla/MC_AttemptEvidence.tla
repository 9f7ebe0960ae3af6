-------------------------- MODULE MC_AttemptEvidence --------------------------
(***************************************************************************)
(* Small worlds for AttemptEvidence.  The caller workflow uses an Action A *)
(* or a composite Action W by a tag, A by a commit, the called workflow R, *)
(* which uses W, or a workflow of its own repository, which uses A.  The   *)
(* tag of A may move between the jobs.  With MaxDepth = 4 the child of W's *)
(* own sub-Action is at the limit below R.  A world has at most one fault. *)
(***************************************************************************)
EXTENDS AttemptEvidence, TLC

CONSTANTS j1, j2

MCJob == {j1, j2}
MCLogOrder == <<j1, j2, AttemptLog>>

MCRepositoryOf ==
  [ci |-> "home", lint_action |-> "home", nested |-> "home", R |-> "repo R",
   A |-> "repo A", W |-> "repo W", Wsub |-> "repo W"]

MCActionNamed == {"lint_action", "A", "W", "Wsub"}
MCCommits == {"a1", "a2"}

Use(kind, place, ref) == [kind |-> kind, place |-> place, ref |-> ref]
ByTag(place)  == Use("repository", place, "v1")
Pinned(place, commit) == Use("repository", place, commit)
Self(place)   == Use("self", place, "")
Local  == Use("local", "A", "")
Opaque == Use("opaque", "A", "")
Call   == Use("reusable", "R", "v1")
Nested == Use("sibling", "nested", "")

CallerUses ==
  {{}, {ByTag("A")}, {Pinned("A", "a1")}, {Local}, {Opaque}, {Nested}, {Call},
   {ByTag("W")}, {ByTag("W"), ByTag("A")}}

WUses == {{}, {ByTag("A")}, {Pinned("A", "a2")}, {Self("Wsub")}, {Opaque}, {ByTag("W")}}

\* The definitions of a world and their declarations.
Truth(place, uses, wUses) ==
  [d \in {<<place, "h">>, <<"nested", "h">>, <<"R", "r1">>, <<"W", "w">>, <<"Wsub", "w">>,
          <<"A", "a1">>, <<"A", "a2">>} |->
     CASE d[1] = place    -> uses
       [] d[1] = "nested" -> {ByTag("A")}
       [] d[1] = "R"      -> {ByTag("W")}
       [] d[1] = "W"      -> wUses
       [] d[1] = "Wsub"   -> {ByTag("A")}
       [] OTHER           -> {}]

Resolved(tag) ==
  [key \in {<<"A", "v1">>, <<"A", "a1">>, <<"A", "a2">>, <<"W", "v1">>} |->
     CASE key = <<"W", "v1">> -> <<"W", "w">>
       [] key = <<"A", "v1">> -> <<"A", tag>>
       [] OTHER               -> key]

Recording(compatible, peeled) ==
  [key |-> <<"R", "v1">>, def |-> <<"R", "r1">>, compatible |-> compatible, peeled |-> peeled]

\* Everything is there and well.
Plain(place, uses, wUses, started, tags) ==
  LET truth == Truth(place, uses, wUses) IN
  [ started |-> started, ran |-> <<place, "h">>, truth |-> truth,
    resolved |-> [j \in MCJob |-> Resolved(tags[j])],
    calls |-> <<"R", "v1">> :> <<"R", "r1">>,
    caller |-> <<place, "h">>, absent |-> {}, partial |-> {},
    unseen |-> [j \in MCJob |-> {}],
    formats |-> {"home", "repo R", "repo A", "repo W"},
    recorded |-> IF Call \in uses THEN {Recording(TRUE, TRUE)} ELSE {},
    source |-> [d \in DOMAIN truth |-> [status |-> "ok", uses |-> truth[d]]] ]

UsesW(uses) == uses \intersect {ByTag("W"), Call} # {}

PlainWorlds(places) ==
  {Plain(place, uses, wUses, started, tags) :
     place \in places, uses \in CallerUses, wUses \in WUses,
     started \in {{j1}, {j1, j2}}, tags \in [MCJob -> {"a1", "a2"}]}

\* What cannot be told apart is told once.
Distinct(w) ==
  /\ UsesW(w.truth[w.ran]) \/ w.truth[<<"W", "w">>] = {}
  /\ w.started = {j1} => w.resolved[j1] = w.resolved[j2]

Keys == {<<"A", "v1">>, <<"A", "a2">>, <<"W", "v1">>}

\* The setup entry of a job is missing, or ends before some resolution, or names
\* it by an object of another format; GitHub withholds the format of a repository,
\* the caller's commit or the recorded call, or records the call with another
\* ref, an object that is no commit, or a second commit; a definition is deleted,
\* unavailable, malformed or there under two names.
MCFaulty(w) ==
  {[w EXCEPT !.absent = {j}] : j \in w.started}
  \union {[w EXCEPT !.partial = {j}, !.unseen[j] = {key}] :
            j \in w.started, key \in Keys}
  \union {[w EXCEPT !.formats = @ \ {r}] : r \in w.formats}
  \union {[w EXCEPT !.caller = None]}
  \union {[w EXCEPT !.recorded = c] :
            c \in IF w.recorded = {} THEN {}
                  ELSE {{}, {Recording(FALSE, TRUE)}, {Recording(TRUE, FALSE)},
                        {Recording(TRUE, TRUE), [Recording(TRUE, TRUE) EXCEPT !.def = <<"nested", "h">>]}}}
  \union {[w EXCEPT !.source[d].status = status] :
            d \in DOMAIN w.source, status \in {"missing", "failed", "malformed"}}
  \union {[w EXCEPT !.source[d].status = "both"] :
            d \in {d \in DOMAIN w.source : d[1] \in {"A", "W", "Wsub"}}}

SoundWorlds == {w \in PlainWorlds({"ci"}) : Distinct(w)}
MCWorlds == SoundWorlds

\* Of the workflow files one is named like the metadata of an Action.
MisnamedWorlds ==
  {w \in PlainWorlds({"ci", "lint_action"}) :
     Distinct(w) /\ w.started = {j1} /\ w.truth[<<"W", "w">>] = {}}
=============================================================================
