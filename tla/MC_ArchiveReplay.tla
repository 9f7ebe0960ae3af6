-------------------------- MODULE MC_ArchiveReplay --------------------------
(***************************************************************************)
(* Three batches for a reader that runs while they are appended.  "first"  *)
(* starts the repository; "second" observes the same evidence object       *)
(* again, links it to a fact of "first", derives evidence from it, records *)
(* what a reference was pinned to and moves the checkpoint; "third" has    *)
(* new evidence, a changed capability, a fact that contradicts the pinned  *)
(* reference of "second", and no checkpoint.                               *)
(***************************************************************************)
EXTENDS ArchiveReplay

CONSTANTS none, d1

MCBatch == {"first", "second", "third"}
MCSession == {"s1", "s2", "s3"}
MCBody == {"x"}
MCEvidence == {"e1", "e2", "e3", "e4"}
MCEvidenceSession == [e1 |-> "s1", e2 |-> "s2", e3 |-> "s3", e4 |-> "s2"]
MCObject == {"o1", "o3", "o4"}
MCObjectOf == [e1 |-> "o1", e2 |-> "o1", e3 |-> "o3", e4 |-> "o4"]
MCParentsOf == [e \in MCEvidence |-> IF e = "e4" THEN {"o1"} ELSE {}]
MCRawOf == [e1 |-> d1, e2 |-> none, e3 |-> none, e4 |-> none]
MCFact == {"repo", "run1", "run2", "gap", "pinned", "resolved"}
MCContradicts == [f \in MCFact |-> IF f = "resolved" THEN {"pinned"} ELSE {}]
MCRepositoryFacts == [r |-> {"repo"}]
MCRunFacts == [u1 |-> {"run1"}, u2 |-> {"run2"}]
MCCapability == {"raw_logs", "attempt_logs"}
MCStatus == {"retained", "gap", "structured-only"}
MCRun == {"u1", "u2"}

Named(session, ev, fs, ls, raw_logs, attempt_logs, offer, raw) ==
  [ sessions |-> {[id |-> session, body |-> "x"]},
    evidence |-> ev,
    facts |-> fs,
    links |-> ls,
    capabilities |-> [raw_logs |-> raw_logs, attempt_logs |-> attempt_logs],
    checkpoints |-> [r \in {"r"} |-> offer],
    raw |-> raw ]

Offer(time, session, runs) ==
  [row |-> [watermark |-> time, session |-> session], parents |-> runs]

MCContent ==
  [ first  |-> Named("s1", {"e1"}, {"repo", "run1"}, {<<"run1", "o1">>},
                     "retained", "retained", Offer(1, "s1", {"u1"}), {d1}),
    second |-> Named("s2", {"e2", "e4"}, {"run1", "run2", "pinned"}, {<<"run1", "o1">>, <<"run2", "o1">>},
                     none, none, Offer(2, "s2", {"u1", "u2"}), {}),
    third  |-> Named("s3", {"e3"}, {"run1", "gap", "resolved"}, {<<"run1", "o3">>},
                     "structured-only", "gap", none, {}) ]
=============================================================================
