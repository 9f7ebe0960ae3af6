------------------------- MODULE MC_CaseGeneration -------------------------
(***************************************************************************)
(* Small archives for CaseGeneration: a first collection of one repository *)
(* with a retained log, and three ways in which a second one overlaps it.  *)
(***************************************************************************)
EXTENDS CaseGeneration, TLC

CONSTANTS g1, g2

Symmetry == Permutations(Generators)

Observation(session, id, parents, failed, raw) ==
  [session |-> session, id |-> id, parents |-> parents, failed |-> failed, raw |-> raw]

RepositoryFact(id, listing) ==
  [id |-> id, kind |-> "repository", evidence |-> {listing}, status |-> Nothing]

CoverageFact == [id |-> "logs", kind |-> "coverage", evidence |-> {"log"}, status |-> "collected"]

First ==
  [session  |-> [id |-> "s1", mode |-> "archive"],
   evidence |-> {Observation("s1", "listing", {}, FALSE, Nothing),
                 Observation("s1", "log", {}, FALSE, "digest"),
                 Observation("s1", "step", {"log"}, FALSE, Nothing)},
   facts    |-> {RepositoryFact("public", "listing"), CoverageFact},
   findings |-> {[id |-> "finding", evidence |-> {"step"}, coverage |-> {"logs"}]}]

Second(mode, evidence, facts) ==
  [session |-> [id |-> "s2", mode |-> mode], evidence |-> evidence, facts |-> facts,
   findings |-> {}]

\* The same listing again, of an archive and of the demo data.
Unchanged(mode) == Second(mode, {Observation("s2", "listing", {}, FALSE, Nothing)}, {})

\* The repository was renamed or made private in between.
Renamed == Second("archive", {Observation("s2", "relisting", {}, FALSE, Nothing)},
                  {RepositoryFact("private", "relisting")})

\* The same log was read and interpreted again.
Reread ==
  Second("archive", {Observation("s2", "log", {}, FALSE, "digest"),
                     Observation("s2", "step", {"log"}, FALSE, Nothing)}, {})

Writable   == {{First}, {First, Unchanged("archive")}, {First, Unchanged("fixture")}}
Unwritable == {{First, Renamed}, {First, Reread}}

MCArchives   == Writable \cup {{First, Renamed}}
ReobservedArchives == Writable \cup Unwritable

MCContracts == {[contract |-> "v1", raw |-> FALSE], [contract |-> "v2", raw |-> TRUE]}

Trouble(faults, meddles, edits, stops) ==
  [faults |-> faults, meddles |-> meddles, edits |-> edits, stops |-> stops]

MCScenarios == {Trouble(1, 1, 0, 1), Trouble(0, 0, 2, 0)}
NoTrouble   == {Trouble(0, 0, 0, 0)}
=============================================================================
