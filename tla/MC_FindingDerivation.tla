----------------------- MODULE MC_FindingDerivation -----------------------
\* Attempt 1 has the jobs 11 and 12, attempt 2 the job 21.  "bad" is the
\* affected commit, "good" the known-good one, "badPackage" and "goodPackage"
\* are the digests of immutable packages.
EXTENDS FindingDerivation

Sub(attempt, job, step) == [attempt |-> attempt, job |-> job, step |-> step]

Action(job, step, stage, source, digest) ==
  [kind |-> "action", subject |-> Sub(job \div 10, job, step), stage |-> stage,
   source |-> source, digest |-> digest]

Dep(subject, basis, targets, object, ref, depth, contradicts) ==
  [kind |-> "dependency", subject |-> subject, basis |-> basis, targets |-> targets,
   object |-> object, ref |-> ref, depth |-> depth, inWindow |-> ref = "v1",
   contradicts |-> contradicts]

Closed(job) ==
  {[kind |-> "coverage", subject |-> Sub(job \div 10, job, None), unit |-> u, closed |-> TRUE] :
     u \in RequiredUnits}

Gap(subject, unit, ambiguous) ==
  [kind |-> "gap", subject |-> subject, unit |-> unit, material |-> TRUE, ambiguous |-> ambiguous]

BadStarted == Action(11, "s1", Started, "bad", None)
GoodStarted == Action(11, "s1", Started, "good", None)

MCBatches ==
  {{f} : f \in
     { Action(11, None, Announced, "bad", None),
       Action(11, None, Prepared, "bad", None),
       BadStarted,
       Action(11, None, Prepared, "good", None),
       Action(11, "s2", Started, "bad", None),
       GoodStarted,
       Action(21, None, Announced, "third", "badPackage"),
       Action(21, None, Prepared, "bad", "badPackage"),
       Action(21, "s1", Started, "bad", None),
       Action(21, None, Prepared, "other", "goodPackage"),
       Dep(Sub(1, None, None), "historical", "none", None, "v1", 0, {}),
       Dep(Sub(1, None, None), "historical", "action-commit", "bad", "bad", 0, {}),
       Dep(Sub(1, 11, None), "historical", "action-commit", "bad", "v1", 1, {}),
       Dep(Sub(None, None, None), "current", "action-commit", "bad", "v1", 0, {}),
       Dep(Sub(1, None, None), "attempt metadata", "reusable-workflow-commit", "badFlow", "v1", 0, {}),
       Dep(Sub(1, 11, "s1"), "historical", "action-commit", "other", "other", 0, {BadStarted}),
       Gap(Sub(1, 11, None), "parser grammar", FALSE),
       Gap(Sub(1, 12, None), "job log", TRUE),
       Gap(Sub(2, 21, None), "definition", FALSE),
       Gap(Sub(2, None, None), "parser grammar", FALSE) }}
  \cup {Closed(11), Closed(21),
        {[kind |-> "coverage", subject |-> Sub(1, 11, None), unit |-> "job log",
          closed |-> FALSE]}}
  \cup {{Action(11, None, Failed, "bad", None), Action(11, None, Announced, "bad", None)}}

MCIndicators ==
  { [kind |-> "action-commit", value |-> "bad"],
    [kind |-> "digest", value |-> "badPackage"],
    [kind |-> "mutable-action-ref", value |-> "v1"],
    [kind |-> "reusable-workflow-commit", value |-> "badFlow"] }

MCKnownGood ==
  { [kind |-> "action-commit", value |-> "good"], [kind |-> "digest", value |-> "goodPackage"] }
=============================================================================
