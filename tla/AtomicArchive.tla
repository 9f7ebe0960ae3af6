--------------------------- MODULE AtomicArchive ---------------------------
(***************************************************************************)
(* What the incremental archive promises a replay: batches take effect one *)
(* at a time and as a whole.  A replay sees the union of the facts,        *)
(* evidence and links of the batches committed so far, the latest value of *)
(* every capability, and per repository the incremental frontier           *)
(* (watermark and watch set) that no older batch can move backwards.       *)
(*                                                                         *)
(* ArchiveStore implements this specification: preparation, raw retention, *)
(* retries, resumption and crashes are stuttering steps.                   *)
(***************************************************************************)
EXTENDS Integers

CONSTANTS
  Batch,        \* the batches that may be appended
  Fact, Evidence, Capability, Repo,
  FactsOf,      \* [Batch -> SUBSET Fact]
  LinksOf,      \* [Batch -> SUBSET (Fact \X evidence object)]
  EvidenceOf,   \* [Batch -> SUBSET Evidence]
  Reports,      \* [Batch -> [Capability -> status or Nothing]]
  Frontier,     \* [Batch -> [Repo -> frontier or Nothing]]
  Nothing       \* "this batch says nothing about it"

VARIABLES committed, facts, links, evidence, capability, frontier
vars == <<committed, facts, links, evidence, capability, frontier>>

Init ==
  /\ committed = {}
  /\ facts = {}
  /\ links = {}
  /\ evidence = {}
  /\ capability = [c \in Capability |-> Nothing]
  /\ frontier = [r \in Repo |-> Nothing]

\* Later reports replace earlier ones; silence leaves the earlier one.
Latest(old, new) == IF new = Nothing THEN old ELSE new

\* A frontier moves as a whole, and only to a watermark that is not older.
Advance(held, offered) ==
  IF /\ offered # Nothing
     /\ held # Nothing => held.row.watermark <= offered.row.watermark
  THEN offered ELSE held

Commit(b) ==
  /\ b \notin committed
  /\ committed' = committed \union {b}
  /\ facts' = facts \union FactsOf[b]
  /\ links' = links \union LinksOf[b]
  /\ evidence' = evidence \union EvidenceOf[b]
  /\ capability' = [c \in Capability |-> Latest(capability[c], Reports[b][c])]
  /\ frontier' = [r \in Repo |-> Advance(frontier[r], Frontier[b][r])]

Next == \E b \in Batch : Commit(b)

Spec == Init /\ [][Next]_vars
=============================================================================
