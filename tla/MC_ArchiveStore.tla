-------------------------- MODULE MC_ArchiveStore --------------------------
(***************************************************************************)
(* Four batches of one repository for the model checker: "first" and       *)
(* "late" offer watermarks 2 and 1, "equal" offers the watermark of        *)
(* "first" with another watch set and refers to rows that only "first"     *)
(* writes, evidence of its own among them, and "clash" reuses the session name of "first" with another end *)
(* time and offers no watermark.                                           *)
(***************************************************************************)
EXTENDS ArchiveStore

CONSTANTS none, d1

MCBatch == {"first", "late", "equal", "clash"}
MCSession == {"s1", "s2", "s3"}
MCBody == {"x", "y"}
MCEvidence == {"e1", "e2", "e3"}
MCFact == {"repo", "run1", "run2"}
MCObject == {"o1", "o2", "o3"}
MCObjectOf == [e1 |-> "o1", e2 |-> "o2", e3 |-> "o3"]
MCParentsOf == [e1 |-> {}, e2 |-> {}, e3 |-> {"o1"}]
MCRepositoryFacts == [r |-> {"repo"}]
MCRunFacts == [u1 |-> {"run1"}, u2 |-> {"run2"}]
MCEvidenceSession == [e1 |-> "s1", e2 |-> "s2", e3 |-> "s3"]
MCCapability == {"raw"}
MCStatus == {"AVAILABLE", "NOT_RETAINED"}
MCRun == {"u1", "u2"}

\* A batch with one session and one repository, "r".
Simple(session, body, ev, fs, ls, status, offer, raw) ==
  [ sessions |-> {[id |-> session, body |-> body]},
    evidence |-> ev,
    facts |-> fs,
    links |-> ls,
    capabilities |-> [c \in MCCapability |-> status],
    checkpoints |-> [r \in {"r"} |-> offer],
    raw |-> raw ]

Offer(time, session, runs) ==
  [row |-> [watermark |-> time, session |-> session], parents |-> runs]

MCContent ==
  [ first |-> Simple("s1", "x", {"e1"}, {"repo", "run1"}, {<<"run1", "o1">>},
                     "AVAILABLE", Offer(2, "s1", {"u1"}), {d1}),
    late  |-> Simple("s2", "x", {"e2"}, {"repo", "run2"}, {<<"run2", "o2">>},
                     none, Offer(1, "s2", {"u2"}), {}),
    equal |-> Simple("s3", "x", {"e3"}, {"run2"}, {<<"run2", "o1">>},
                     "NOT_RETAINED", Offer(2, "s3", {"u1", "u2"}), {d1}),
    clash |-> Simple("s1", "y", {}, {"repo"}, {}, none, Offer(Null, "s1", {}), {}) ]
=============================================================================
