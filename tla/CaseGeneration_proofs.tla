----------------------- MODULE CaseGeneration_proofs -----------------------
(***************************************************************************)
(* Proofs about CaseGeneration for every number of commands, every archive *)
(* and every amount of trouble: what a failed command leaves behind, and   *)
(* that a published directory stays where it is; and, for as much trouble  *)
(* as it takes to break them and no more, that reports rest on facts and   *)
(* that what a verification accepts fits together; and that commands that  *)
(* nothing befalls do not all fail.                                        *)
(***************************************************************************)
EXTENDS CaseGeneration, FiniteSetTheorems, TLAPS

Working == {"raw", "database", "project", "ledger", "reports", "finalize", "manifest",
            "verify", "claim", "publish", "rename", "abort", "remove"}

\* The part of the state that publication and cleanup are about.
PathsType ==
  /\ pc \in [Generators -> Working \cup {"begin", "unbuilt", "done", "dead"}]
  /\ staging \in [Generators -> Generators \cup {Foreign, Nothing}]
  /\ outcome \in [Generators -> {Nothing, "error", "case"}]
  /\ leftover \subseteq Generators
  /\ swapped \subseteq Generators

\* What other programs made is not removed, but for a directory that takes the
\* place of one after the last look.
OthersStand ==
  /\ Squatter \in exists
  /\ swapped = {} => Foreign \in exists

\* Before it begins a command has no directory, and while it works its
\* staging path leads to its own directory or its directory is not there.
\* After the last look only a swap can lead the path elsewhere.
StagingInv ==
  \A g \in Generators :
    /\ pc[g] = "begin" => staging[g] = Nothing /\ g \notin exists /\ g \notin swapped
    /\ staging[g] \in {g, Foreign, Nothing}
    /\ staging[g] = g => g \in exists /\ g \notin swapped
    /\ pc[g] \in Working /\ staging[g] = Nothing => g \notin exists
    /\ pc[g] \in {"rename", "remove"} /\ staging[g] = Foreign => g \in swapped

\* What is at the target after a command published.
Left(g) == IF g \in swapped THEN Foreign ELSE g

\* Only a command that is done has an outcome, and the outcome tells what
\* became of its directory.
OutcomeInv ==
  \A g \in Generators :
    /\ outcome[g] # Nothing => pc[g] \in {"unbuilt", "done"}
    /\ outcome[g] = "error" /\ pc[g] # "unbuilt" /\ g \notin swapped =>
         g \notin exists \/ g \in leftover
    /\ outcome[g] = "case" =>
         /\ pc[g] = "done" /\ staging[g] = Nothing
         /\ target = Left(g) /\ (g \notin swapped => g \in exists)

Inv == PathsType /\ OthersStand /\ StagingInv /\ OutcomeInv

\* Whoever returned a case has its own directory at the target, and it is
\* still there (publishDirectoryNoReplace, Abort), unless another was put in
\* its place between the last look and the rename.
PublishedStands ==
  \A g \in Generators :
    outcome[g] = "case" /\ g \notin swapped => target = g /\ g \in exists

-----------------------------------------------------------------------------
(* Most steps only move a program counter.                                 *)

paths == <<staging, target, exists, outcome, leftover, swapped>>

\* A command at work goes on with another step, or gives up.  It only follows
\* its path unseen after a look at it.
Continues(g) ==
  /\ pc[g] \in Working
  /\ \E next \in Working :
       /\ pc' = [pc EXCEPT ![g] = next]
       /\ next \in {"rename", "remove"} => staging[g] = g
  /\ UNCHANGED paths

\* A step that fails continues with the cleanup.
LEMMA RefusedContinues ==
  ASSUME NEW g \in Generators, pc[g] \in Working, Refused(g)
  PROVE  Continues(g)
  BY DEF Refused, Failing, Continues, Working, paths, fixed

\* A step that adds files goes on.
LEMMA StageContinues ==
  ASSUME NEW g \in Generators, pc[g] \in Working, NEW files,
         NEW next \in Working \ {"rename", "remove"}, Stage(g, files, next)
  PROVE  Continues(g)
  BY DEF Stage, Continues, paths, fixed

\* The steps from the raw files to the reports.
LEMMA StagingContinues ==
  ASSUME NEW g \in Generators,
         \/ WriteRawEvidence(g) \/ WriteCaseDatabase(g) \/ ReprojectCaseDatabase(g)
         \/ WriteEvidenceLedger(g) \/ WriteReports(g)
  PROVE  Continues(g)
  <1> USE DEF Working
  <1>1. CASE WriteRawEvidence(g)
    <2>1. pc[g] \in Working
      BY <1>1 DEF WriteRawEvidence
    <2>2. \/ pc' = [pc EXCEPT ![g] = "database"] /\ UNCHANGED paths
          \/ Refused(g)
          \/ \E files : Stage(g, files, "database")
      BY <1>1 DEF WriteRawEvidence, paths, fixed
    <2> QED BY <2>1, <2>2, RefusedContinues, StageContinues DEF Continues
  <1>2. CASE WriteCaseDatabase(g)
    <2>1. pc[g] \in Working
      BY <1>2 DEF WriteCaseDatabase
    <2>2. \/ Refused(g)
          \/ \E files : \E next \in {"project", "ledger"} : Stage(g, files, next)
      BY <1>2 DEF WriteCaseDatabase
    <2> QED BY <2>1, <2>2, RefusedContinues, StageContinues
  <1>3. CASE ReprojectCaseDatabase(g)
    <2>1. pc[g] \in Working
      BY <1>3 DEF ReprojectCaseDatabase
    <2>2. \/ Refused(g)
          \/ pc' = [pc EXCEPT ![g] = "ledger"] /\ UNCHANGED paths
      BY <1>3 DEF ReprojectCaseDatabase, paths, fixed
    <2> QED BY <2>1, <2>2, RefusedContinues DEF Continues
  <1>4. CASE WriteEvidenceLedger(g)
    <2>1. pc[g] \in Working
      BY <1>4 DEF WriteEvidenceLedger
    <2>2. Refused(g) \/ \E files : Stage(g, files, "reports")
      BY <1>4 DEF WriteEvidenceLedger
    <2> QED BY <2>1, <2>2, RefusedContinues, StageContinues
  <1>5. CASE WriteReports(g)
    <2>1. pc[g] \in Working
      BY <1>5 DEF WriteReports
    <2>2. Refused(g) \/ \E files : Stage(g, files, "finalize")
      BY <1>5 DEF WriteReports
    <2> QED BY <2>1, <2>2, RefusedContinues, StageContinues
  <1> QED BY <1>1, <1>2, <1>3, <1>4, <1>5

\* The steps of the finalization but for the rename.
LEMMA FinalizingContinues ==
  ASSUME NEW g \in Generators,
         BeginFinalize(g) \/ WriteManifest(g) \/ Claim(g) \/ LastLook(g)
  PROVE  Continues(g)
  <1> USE DEF Working
  <1>1. CASE BeginFinalize(g)
    BY <1>1, RefusedContinues DEF BeginFinalize, Continues, paths, fixed
  <1>2. CASE WriteManifest(g)
    <2>1. pc[g] \in Working
      BY <1>2 DEF WriteManifest
    <2>2. \/ Refused(g)
          \/ pc' = [pc EXCEPT ![g] = "verify"] /\ UNCHANGED paths
      BY <1>2 DEF WriteManifest, paths, fixed
    <2> QED BY <2>1, <2>2, RefusedContinues DEF Continues
  <1>3. CASE Claim(g)
    BY <1>3, RefusedContinues DEF Claim, Continues, paths, fixed
  <1>4. CASE LastLook(g)
    BY <1>4, RefusedContinues DEF LastLook, Continues, paths, fixed
  <1> QED BY <1>1, <1>2, <1>3, <1>4

\* A step of a verification: the reader's changes no path and no command.
LEMMA VerifyContinues ==
  ASSUME PathsType, NEW p \in Processes, VerifyCase(p)
  PROVE  \/ p \in Generators /\ Continues(p)
         \/ UNCHANGED <<pc, paths>>
  <1>1. PICK at, holds, frame : VerifyStep(p, at, holds, frame)
    BY DEF VerifyCase, VerifyManifestIntegrity, ReadMetadata, VerifyDatabase, RehashDatabase,
           VerifyFiles
  <1>2. UNCHANGED paths
    BY <1>1 DEF VerifyStep, paths, fixed
  <1>3. CASE p = Reader
    BY <1>1, <1>2, <1>3 DEF VerifyStep
  <1>4. CASE p # Reader
    <2>1. p \in Generators /\ pc[p] = "verify"
      BY <1>1, <1>4 DEF VerifyStep, Processes
    <2>2. \/ pc' = [pc EXCEPT ![p] = "claim"]
          \/ pc' = [pc EXCEPT ![p] = "abort"]
          \/ pc' = pc
      BY <1>1, <1>4 DEF VerifyStep
    <2> QED BY <1>2, <2>1, <2>2 DEF Continues, Working
  <1> QED BY <1>3, <1>4

-----------------------------------------------------------------------------
(* The invariant.                                                          *)

\* No command has begun, so none has left anything.
LEMMA InitInv == Init => Inv
  BY NamesAssumption
     DEF Init, Inv, PathsType, OthersStand, StagingInv, OutcomeInv, Working

\* A step that moves no path keeps the invariant.
LEMMA ContinuesInv ==
  ASSUME Inv, NEW g \in Generators, Continues(g)
  PROVE  Inv'
  <1> USE NamesAssumption
  <1>1. PICK next \in Working : /\ pc' = [pc EXCEPT ![g] = next]
                                /\ next \in {"rename", "remove"} => staging[g] = g
    BY DEF Continues
  <1>2. pc[g] \in Working /\ UNCHANGED paths
    BY DEF Continues
  <1>3. PathsType' /\ OthersStand'
    BY <1>1, <1>2 DEF Inv, PathsType, OthersStand, paths
  <1>4. StagingInv'
    BY <1>1, <1>2 DEF Inv, PathsType, StagingInv, paths, Working
  <1>5. OutcomeInv'
    BY <1>1, <1>2 DEF Inv, PathsType, OutcomeInv, Left, paths, Working
  <1> QED BY <1>3, <1>4, <1>5 DEF Inv

\* A command makes its directory, or ends before it has one.
LEMMA BeginInv ==
  ASSUME Inv, NEW g \in Generators, NewBuilder(g)
  PROVE  Inv'
  <1> USE NamesAssumption
  <1>1. /\ pc[g] = "begin" /\ staging[g] = Nothing /\ outcome[g] = Nothing
        /\ g \notin exists /\ g \notin swapped /\ swapped' = swapped
    BY DEF NewBuilder, Inv, StagingInv, OutcomeInv, PathsType, fixed
  <1>2. CASE target = Nothing
    <2>1. /\ pc' = [pc EXCEPT ![g] = "raw"] /\ staging' = [staging EXCEPT ![g] = g]
          /\ exists' = exists \cup {g} /\ UNCHANGED <<outcome, target, leftover>>
      BY <1>2 DEF NewBuilder
    <2>2. PathsType' /\ OthersStand'
      BY <1>1, <2>1 DEF Inv, PathsType, OthersStand, Working
    <2>3. StagingInv'
      BY <1>1, <2>1 DEF Inv, PathsType, StagingInv, Working
    <2>4. OutcomeInv'
      BY <1>1, <2>1 DEF Inv, PathsType, OutcomeInv, Left
    <2> QED BY <2>2, <2>3, <2>4 DEF Inv
  <1>3. CASE target # Nothing
    <2>1. /\ pc' = [pc EXCEPT ![g] = "done"] /\ outcome' = [outcome EXCEPT ![g] = "error"]
          /\ UNCHANGED <<staging, exists, target, leftover>>
      BY <1>3 DEF NewBuilder
    <2>2. PathsType' /\ OthersStand'
      BY <1>1, <2>1 DEF Inv, PathsType, OthersStand
    <2>3. StagingInv'
      BY <1>1, <2>1 DEF Inv, PathsType, StagingInv, Working
    <2>4. OutcomeInv'
      BY <1>1, <2>1 DEF Inv, PathsType, OutcomeInv, Left
    <2> QED BY <2>2, <2>3, <2>4 DEF Inv
  <1> QED BY <1>2, <1>3

\* A command that cannot begin may leave its directory, and does not say so.
LEMMA UnbuiltInv ==
  ASSUME Inv, NEW g \in Generators, NewBuilderFails(g)
  PROVE  Inv'
  <1> USE NamesAssumption
  <1>1. /\ pc[g] = "begin" /\ staging[g] = Nothing /\ outcome[g] = Nothing
        /\ g \notin exists /\ g \notin swapped /\ UNCHANGED <<swapped, target, leftover>>
        /\ pc' = [pc EXCEPT ![g] = "unbuilt"] /\ outcome' = [outcome EXCEPT ![g] = "error"]
        /\ \/ UNCHANGED <<staging, exists>>
           \/ staging' = [staging EXCEPT ![g] = g] /\ exists' = exists \cup {g}
    BY DEF NewBuilderFails, Inv, StagingInv, OutcomeInv, PathsType, fixed
  <1>2. PathsType' /\ OthersStand'
    BY <1>1 DEF Inv, PathsType, OthersStand
  <1>3. StagingInv'
    BY <1>1 DEF Inv, PathsType, StagingInv, Working
  <1>4. OutcomeInv'
    BY <1>1 DEF Inv, PathsType, OutcomeInv, Left
  <1> QED BY <1>2, <1>3, <1>4 DEF Inv

\* A rename takes the target only if nothing is there, and takes what is at
\* the staging path: the command's own directory, or the one swapped in.
LEMMA PublishInv ==
  ASSUME Inv, NEW g \in Generators, Publish(g)
  PROVE  Inv'
  <1> USE NamesAssumption
  <1>1. pc[g] = "rename"
    BY DEF Publish
  <1>2. CASE Refused(g)
    BY <1>1, <1>2, RefusedContinues, ContinuesInv DEF Working
  <1>3. CASE ~Refused(g)
    <2>1. /\ staging[g] # Nothing /\ target = Nothing
          /\ target' = staging[g] /\ staging' = [staging EXCEPT ![g] = Nothing]
          /\ pc' = [pc EXCEPT ![g] = "done"] /\ outcome' = [outcome EXCEPT ![g] = "case"]
          /\ UNCHANGED <<exists, leftover, swapped>>
      BY <1>3 DEF Publish, Publishable, fixed
    <2>2. PathsType' /\ OthersStand'
      BY <2>1 DEF Inv, PathsType, OthersStand
    <2>3. StagingInv'
      BY <2>1 DEF Inv, PathsType, StagingInv, Working
    <2>4. /\ staging[g] = Left(g) /\ (g \notin swapped => g \in exists)
          /\ \A h \in Generators : outcome[h] # "case"
      <3>1. /\ staging[g] \in {g, Foreign} /\ (staging[g] = g => g \in exists /\ g \notin swapped)
            /\ staging[g] = Foreign => g \in swapped
        BY <1>1, <2>1 DEF Inv, StagingInv
      <3>2. \A h \in Generators : Left(h) # Nothing
        BY DEF Left
      <3>3. \A h \in Generators : outcome[h] # "case"
        BY <2>1, <3>2 DEF Inv, OutcomeInv
      <3> QED BY <3>1, <3>3 DEF Left
    <2>5. OutcomeInv'
      BY <2>1, <2>4 DEF Inv, PathsType, OutcomeInv, Left
    <2> QED BY <2>2, <2>3, <2>5 DEF Inv
  <1> QED BY <1>2, <1>3

\* The cleanup finds the command's own directory, or has nothing to remove, or
\* says that it does not remove it.
LEMMA AbortInv ==
  ASSUME Inv, NEW g \in Generators, AbortStagedCase(g)
  PROVE  Inv'
  <1> USE NamesAssumption
  <1>1. pc[g] = "abort" /\ UNCHANGED <<staging, target, exists, swapped>>
    BY DEF AbortStagedCase, fixed
  <1>2. /\ outcome[g] = Nothing /\ staging[g] \in {g, Foreign, Nothing}
        /\ staging[g] = Nothing => g \notin exists
    BY <1>1 DEF Inv, PathsType, StagingInv, OutcomeInv, Working
  <1>3. CASE Removable(g)
    <2>1. /\ staging[g] = g /\ pc' = [pc EXCEPT ![g] = "remove"]
          /\ UNCHANGED <<outcome, leftover>>
      BY <1>3 DEF AbortStagedCase, Removable
    <2> QED BY <1>1, <2>1, ContinuesInv DEF Continues, Working, paths
  <1>4. CASE ~Removable(g)
    <2>1. /\ pc' = [pc EXCEPT ![g] = "done"] /\ outcome' = [outcome EXCEPT ![g] = "error"]
          /\ leftover' = IF staging[g] = Nothing THEN leftover ELSE leftover \cup {g}
      BY <1>4 DEF AbortStagedCase, Fails
    <2>2. PathsType' /\ OthersStand'
      BY <1>1, <2>1 DEF Inv, PathsType, OthersStand
    <2>3. StagingInv'
      BY <1>1, <2>1 DEF Inv, PathsType, StagingInv, Working
    <2>4. OutcomeInv'
      BY <1>1, <1>2, <2>1 DEF Inv, PathsType, OutcomeInv, Left
    <2> QED BY <2>2, <2>3, <2>4 DEF Inv
  <1> QED BY <1>3, <1>4

\* What is removed is the command's own directory, or the one swapped in.
LEMMA RemoveInv ==
  ASSUME Inv, NEW g \in Generators, RemoveAll(g)
  PROVE  Inv'
  <1> USE NamesAssumption
  <1>1. /\ pc[g] = "remove" /\ pc' = [pc EXCEPT ![g] = "done"]
        /\ outcome' = [outcome EXCEPT ![g] = "error"]
        /\ exists' = exists \ {staging[g]} /\ staging' = [staging EXCEPT ![g] = Nothing]
        /\ UNCHANGED <<target, leftover, swapped>>
    BY DEF RemoveAll, Fails, fixed
  <1>2. /\ outcome[g] = Nothing /\ staging[g] \in {g, Foreign, Nothing}
        /\ staging[g] = Nothing => g \notin exists
        /\ staging[g] = Foreign => g \in swapped
    BY <1>1 DEF Inv, PathsType, StagingInv, OutcomeInv, Working
  <1>3. PathsType' /\ OthersStand'
    BY <1>1, <1>2 DEF Inv, PathsType, OthersStand
  <1>4. StagingInv'
    BY <1>1, <1>2 DEF Inv, PathsType, StagingInv, Working
  <1>5. g \in swapped \/ g \notin exists'
    BY <1>1, <1>2
  <1>6. \A h \in Generators \ {g} : h \in exists' <=> h \in exists
    BY <1>1, <1>2
  <1>7. OutcomeInv'
    BY <1>1, <1>2, <1>5, <1>6 DEF Inv, PathsType, OutcomeInv, Left
  <1> QED BY <1>3, <1>4, <1>7 DEF Inv

\* A cleanup that fails is reported.
LEMMA CleanupFaultInv ==
  ASSUME Inv, NEW g \in Generators, CleanupFault(g)
  PROVE  Inv'
  <1> USE NamesAssumption
  <1>1. /\ pc[g] \in {"abort", "remove"} /\ pc' = [pc EXCEPT ![g] = "done"]
        /\ outcome' = [outcome EXCEPT ![g] = "error"] /\ leftover' = leftover \cup {g}
        /\ UNCHANGED <<staging, target, exists, swapped>>
    BY DEF CleanupFault, Fails, fixed
  <1>2. outcome[g] = Nothing
    BY <1>1 DEF Inv, PathsType, OutcomeInv
  <1>3. PathsType' /\ OthersStand'
    BY <1>1 DEF Inv, PathsType, OthersStand
  <1>4. StagingInv'
    BY <1>1 DEF Inv, PathsType, StagingInv, Working
  <1>5. OutcomeInv'
    BY <1>1, <1>2 DEF Inv, PathsType, OutcomeInv, Left
  <1> QED BY <1>3, <1>4, <1>5 DEF Inv

\* What happens around one command: it fails, is interrupted or killed, its
\* files change, and its directory is replaced or removed.
LEMMA SurroundingsInv ==
  ASSUME Inv, NEW g \in Generators, Surroundings(g)
  PROVE  Inv'
  <1> USE NamesAssumption
  <1>1. CASE Fault(g)
    <2>1. pc[g] \in Working /\ pc' = [pc EXCEPT ![g] = "abort"] /\ UNCHANGED paths
      BY <1>1 DEF Fault, Failing, Underway, paths, fixed, Inv, PathsType
    <2> QED BY <2>1, ContinuesInv DEF Continues, Working
  <1>2. CASE Kill(g)
    <2>1. pc[g] \in Working /\ pc' = [pc EXCEPT ![g] = "dead"] /\ UNCHANGED paths
      BY <1>2 DEF Kill, Underway, paths, fixed, Inv, PathsType
    <2>2. PathsType' /\ OthersStand'
      BY <2>1 DEF Inv, PathsType, OthersStand, paths
    <2>3. StagingInv'
      BY <2>1 DEF Inv, PathsType, StagingInv, paths, Working
    <2>4. OutcomeInv'
      BY <2>1 DEF Inv, PathsType, OutcomeInv, Left, paths, Working
    <2> QED BY <2>2, <2>3, <2>4 DEF Inv
  <1>3. CASE Replace(g)
    <2>1. /\ staging[g] = g /\ staging' = [staging EXCEPT ![g] = Foreign]
          /\ swapped' = IF pc[g] \in {"rename", "remove"} THEN swapped \cup {g} ELSE swapped
          /\ UNCHANGED <<pc, target, exists, outcome, leftover>>
      BY <1>3 DEF Replace
    <2>2. PathsType' /\ OthersStand'
      BY <2>1 DEF Inv, PathsType, OthersStand
    <2>3. StagingInv'
      BY <2>1 DEF Inv, PathsType, StagingInv, Working
    <2>4. outcome[g] # "case" /\ (outcome[g] = "error" => swapped' = swapped)
      BY <2>1 DEF Inv, PathsType, OutcomeInv
    <2>5. \A h \in Generators \ {g} : h \in swapped' <=> h \in swapped
      BY <2>1
    <2>6. OutcomeInv'
      BY <2>1, <2>4, <2>5 DEF Inv, PathsType, OutcomeInv, Left
    <2> QED BY <2>2, <2>3, <2>6 DEF Inv
  <1>4. CASE Reap(g)
    <2>1. /\ staging[g] = g /\ staging' = [staging EXCEPT ![g] = Nothing]
          /\ exists' = exists \ {g} /\ UNCHANGED <<pc, target, outcome, leftover, swapped>>
      BY <1>4 DEF Reap, fixed
    <2>2. PathsType' /\ OthersStand'
      BY <2>1 DEF Inv, PathsType, OthersStand
    <2>3. StagingInv'
      BY <2>1 DEF Inv, PathsType, StagingInv
    <2>4. OutcomeInv'
      BY <2>1 DEF Inv, PathsType, OutcomeInv, Left
    <2> QED BY <2>2, <2>3, <2>4 DEF Inv
  <1>5. CASE Drift(g) \/ Cancel(g) \/ Edit(g)
    <2>1. UNCHANGED <<pc, paths>>
      BY <1>5 DEF Drift, Cancel, Edit, paths, fixed
    <2> QED BY <2>1 DEF paths, Inv, PathsType, OthersStand, StagingInv, OutcomeInv, Left
  <1>6. CASE NewBuilderFails(g) \/ CleanupFault(g)
    BY <1>6, UnbuiltInv, CleanupFaultInv
  <1> QED BY <1>1, <1>2, <1>3, <1>4, <1>5, <1>6 DEF Surroundings

\* Somebody takes the target while nothing is there.
LEMMA SquatInv ==
  ASSUME Inv, Squat
  PROVE  Inv'
  <1>1. target = Nothing /\ UNCHANGED <<pc, staging, exists, outcome, leftover, swapped>>
    BY DEF Squat, fixed
  <1>2. \A g \in Generators : outcome[g] # "case"
    BY <1>1, NamesAssumption DEF Inv, OutcomeInv, Left
  <1> QED BY <1>1, <1>2 DEF Inv, PathsType, OthersStand, StagingInv, OutcomeInv

\* Every step keeps the invariant.
LEMMA StepInv == Inv /\ [Next]_vars => Inv'
  <1> SUFFICES ASSUME Inv, [Next]_vars PROVE Inv'
    OBVIOUS
  <1>1. ASSUME NEW g \in Generators, Generate(g) PROVE Inv'
    <2>1. CASE NewBuilder(g)
      BY <2>1, BeginInv
    <2>2. CASE Publish(g)
      BY <2>2, PublishInv
    <2>3. CASE AbortStagedCase(g)
      BY <2>3, AbortInv
    <2>4. CASE RemoveAll(g)
      BY <2>4, RemoveInv
    <2>5. CASE Continues(g)
      BY <2>5, ContinuesInv
    <2> QED
      BY <1>1, <2>1, <2>2, <2>3, <2>4, <2>5, StagingContinues, FinalizingContinues DEF Generate
  <1>2. ASSUME NEW g \in Generators, Surroundings(g) PROVE Inv'
    BY <1>2, SurroundingsInv
  <1>3. ASSUME NEW p \in Processes, VerifyCase(p) PROVE Inv'
    <2>1. CASE p \in Generators /\ Continues(p)
      BY <2>1, ContinuesInv
    <2>2. CASE UNCHANGED <<pc, paths>>
      BY <2>2 DEF paths, Inv, PathsType, OthersStand, StagingInv, OutcomeInv, Left
    <2> QED BY <1>3, <2>1, <2>2, VerifyContinues DEF Inv
  <1>4. CASE Squat
    BY <1>4, SquatInv
  <1>5. CASE StartReader \/ UNCHANGED vars
    BY <1>5 DEF StartReader, vars, fixed, Inv, PathsType, OthersStand, StagingInv, OutcomeInv,
           Left
  <1> QED BY <1>1, <1>2, <1>3, <1>4, <1>5 DEF Next

\* A command that fails leaves no staging directory of its own without saying
\* so, and no command removes one that it did not make, except in the window
\* between the look at the directory and its removal by path, and when newBuilder
\* fails and discards the error of its own cleanup (Abort, newBuilder).
THEOREM CleanupTheorem == Spec => []CleansUp
  <1>1. Inv => CleansUp
    BY DEF Inv, OthersStand, OutcomeInv, CleansUp
  <1> QED BY <1>1, InitInv, StepInv, PTL DEF Spec

\* A command that returned a case left its own directory at the target, and
\* the directory stays there, unless another was put in its place between the
\* last look at it and the rename (Finalize).
THEOREM PublishedTheorem == Spec => []PublishedStands
  <1>1. Inv => PublishedStands
    BY DEF Inv, OutcomeInv, Left, PublishedStands
  <1> QED BY <1>1, InitInv, StepInv, PTL DEF Spec

-----------------------------------------------------------------------------
(* What the projection tells of a database.                                *)

Tables == {"batches", "batchSessions", "batchFacts", "facts", "links", "coverage", "metadata",
           "sessions", "repositories", "packs", "analyses", "revisions", "selected", "support",
           "covered", "edges"}

\* The tables of a case database, one by one.
LEMMA PersistedRows ==
  ASSUME NEW s, NEW name, NEW raw
  PROVE  LET db == PersistCase(s, name, raw) IN
         /\ DOMAIN db = Tables /\ db = [t \in Tables |-> db[t]]
         /\ db.batches = {[content |-> s.facts, state |-> "COMMITTED"]}
         /\ db.batchSessions = {c.id : c \in s.sessions}
         /\ db.batchFacts = {f.id : f \in s.facts}
         /\ db.facts = {FactRow(f) : f \in s.facts}
         /\ db.links = UNION {{f.id} \X f.evidence : f \in s.facts}
         /\ db.coverage = {CoverageRow(f) : f \in OfKind(s.facts, "coverage")}
         /\ db.metadata = {<<"case_id", name>>, <<"case_raw_materialized", Text(raw)>>}
         /\ db.sessions = s.sessions
         /\ db.repositories = OfKind(s.facts, "repository")
         /\ db.packs = {"pack"} /\ db.analyses = {name}
         /\ db.revisions = {PersistFinding(n) : n \in s.findings}
         /\ db.selected = {n.id : n \in s.findings}
         /\ db.support = UNION {{n.id} \X n.evidence : n \in s.findings}
         /\ db.covered = UNION {{n.id} \X n.coverage : n \in s.findings}
         /\ db.edges = {GraphOf(s.sessions, s.facts, s.findings)}
  <1> DEFINE mine == PersistFacts(s) db == PersistCase(s, name, raw)
             Rest == {"metadata", "sessions", "repositories", "packs", "analyses", "revisions",
                      "selected", "support", "covered", "edges"}
  <1>1. DOMAIN mine = {"batches", "batchSessions", "batchFacts", "facts", "links", "coverage"}
    BY DEF PersistFacts
  <1>2. PICK rest : /\ db = Over(mine, rest) /\ DOMAIN rest = Rest
                    /\ rest.metadata = {<<"case_id", name>>, <<"case_raw_materialized", Text(raw)>>}
                    /\ rest.sessions = s.sessions
                    /\ rest.repositories = OfKind(s.facts, "repository")
                    /\ rest.packs = {"pack"} /\ rest.analyses = {name}
                    /\ rest.revisions = {PersistFinding(n) : n \in s.findings}
                    /\ rest.selected = {n.id : n \in s.findings}
                    /\ rest.support = UNION {{n.id} \X n.evidence : n \in s.findings}
                    /\ rest.covered = UNION {{n.id} \X n.coverage : n \in s.findings}
                    /\ rest.edges = {GraphOf(s.sessions, s.facts, s.findings)}
    <2> DEFINE rest ==
          [metadata     |-> {<<"case_id", name>>, <<"case_raw_materialized", Text(raw)>>},
           sessions     |-> s.sessions,
           repositories |-> OfKind(s.facts, "repository"),
           packs        |-> {"pack"},
           analyses     |-> {name},
           revisions    |-> {PersistFinding(n) : n \in s.findings},
           selected     |-> {n.id : n \in s.findings},
           support      |-> UNION {{n.id} \X n.evidence : n \in s.findings},
           covered      |-> UNION {{n.id} \X n.coverage : n \in s.findings},
           edges        |-> {GraphOf(s.sessions, s.facts, s.findings)}]
    <2>1. db = Over(mine, rest)
      BY DEF PersistCase
    <2> WITNESS rest
    <2> QED BY <2>1
  <1>3. /\ mine.batches = {[content |-> s.facts, state |-> "COMMITTED"]}
        /\ mine.batchSessions = {c.id : c \in s.sessions}
        /\ mine.batchFacts = {f.id : f \in s.facts}
        /\ mine.facts = {FactRow(f) : f \in s.facts}
        /\ mine.links = UNION {{f.id} \X f.evidence : f \in s.facts}
        /\ mine.coverage = {CoverageRow(f) : f \in OfKind(s.facts, "coverage")}
    BY DEF PersistFacts
  <1> HIDE DEF mine, db
  <1>4. DOMAIN mine \cup DOMAIN rest = Tables
    BY <1>1, <1>2 DEF Tables
  <1>5. /\ DOMAIN db = Tables /\ db = [t \in Tables |-> db[t]]
        /\ \A t \in DOMAIN mine : db[t] = mine[t]
        /\ \A t \in Tables \ DOMAIN mine : db[t] = rest[t]
    BY <1>2, <1>4 DEF Over
  <1>6. Rest \subseteq Tables \ DOMAIN mine
    BY <1>1 DEF Tables
  <1>7. \A t \in Rest : db[t] = rest[t]
    BY <1>5, <1>6
  <1>8. /\ db.batches = mine.batches /\ db.batchSessions = mine.batchSessions
        /\ db.batchFacts = mine.batchFacts /\ db.facts = mine.facts
        /\ db.links = mine.links /\ db.coverage = mine.coverage
    BY <1>1, <1>5
  <1>9. /\ db.metadata = rest.metadata /\ db.sessions = rest.sessions
        /\ db.repositories = rest.repositories /\ db.packs = rest.packs
        /\ db.analyses = rest.analyses /\ db.revisions = rest.revisions
        /\ db.selected = rest.selected /\ db.support = rest.support
        /\ db.covered = rest.covered /\ db.edges = rest.edges
    BY <1>7
  <1>10. PersistCase(s, name, raw) = db
    BY DEF db
  <1> QED BY <1>2, <1>3, <1>5, <1>8, <1>9, <1>10

\* A database that may have lost rows of what was written, and in which columns
\* may have been overwritten.
Below(db, s) ==
  /\ db = [t \in Tables |-> db[t]]
  /\ db.batchSessions \subseteq {c.id : c \in s.sessions}
  /\ db.batchFacts \subseteq {f.id : f \in s.facts}
  /\ db.selected \subseteq {n.id : n \in s.findings}
  /\ db.support \subseteq UNION {{n.id} \X n.evidence : n \in s.findings}
  /\ db.covered \subseteq UNION {{n.id} \X n.coverage : n \in s.findings}
  /\ \A row \in db.facts : /\ row = [fact |-> row.fact, columns |-> row.columns]
                           /\ row.fact \in s.facts
  /\ \A row \in db.batches : row = [content |-> row.content, state |-> row.state]
  /\ \A row \in db.revisions : /\ row = [id |-> row.id, coverage |-> row.coverage]
                               /\ row.id \in {n.id : n \in s.findings}

\* The two tables that name the collections: one of them is complete.
Collections(db, s) ==
  db.sessions = s.sessions \/ db.batchSessions = {c.id : c \in s.sessions}

LEMMA PersistedBelow ==
  ASSUME NEW s, NEW name, NEW raw
  PROVE  LET db == PersistCase(s, name, raw) IN
         /\ Below(db, s)
         /\ db.sessions = s.sessions /\ db.batchSessions = {c.id : c \in s.sessions}
  BY PersistedRows DEF Below, FactRow, PersistFinding

\* A row that is lost or altered leaves a database below what was written, and
\* changes one table.
LEMMA DriftBelow ==
  ASSUME NEW db, NEW s, Below(db, s), NEW new \in Drifts(db)
  PROVE  /\ Below(new, s)
         /\ new.sessions = db.sessions \/ new.batchSessions = db.batchSessions
  <1>1. DOMAIN db = Tables
    BY DEF Below
  <1>2. PICK t \in Tables : \E row \in db[t] : \E rows \in {{}} \cup {{a} : a \in Altered(t, row)} :
           new = [db EXCEPT ![t] = (@ \ {row}) \cup rows]
    BY <1>1 DEF Drifts
  <1>a. PICK row \in db[t] : \E rows \in {{}} \cup {{a} : a \in Altered(t, row)} :
           new = [db EXCEPT ![t] = (@ \ {row}) \cup rows]
    BY <1>2
  <1>b. PICK rows \in {{}} \cup {{a} : a \in Altered(t, row)} :
           new = [db EXCEPT ![t] = (@ \ {row}) \cup rows]
    BY <1>a
  <1>3. /\ new = [u \in Tables |-> new[u]]
        /\ new[t] = (db[t] \ {row}) \cup rows
        /\ \A u \in Tables \ {t} : new[u] = db[u]
    BY <1>1, <1>b DEF Below
  <1>4. t \notin {"metadata", "facts", "batches", "coverage", "revisions"} =>
           Altered(t, row) = {} /\ new[t] \subseteq db[t]
    BY <1>b, <1>3 DEF Altered
  <1>5. ASSUME NEW u \in Tables, u \notin {"metadata", "facts", "batches", "coverage", "revisions"}
        PROVE  new[u] \subseteq db[u]
    BY <1>3, <1>4, <1>5
  <1>6. ASSUME NEW r \in new.facts
        PROVE  r = [fact |-> r.fact, columns |-> r.columns] /\ r.fact \in s.facts
    <2>1. CASE r \in db.facts
      BY <2>1 DEF Below
    <2>2. CASE r \notin db.facts
      <3>1. t = "facts" /\ r \in rows
        BY <1>3, <2>2 DEF Tables
      <3>2. r \in Altered("facts", row)
        BY <1>b, <3>1
      <3>3. r = [row EXCEPT !.columns = Nothing] /\ row \in db.facts
        BY <1>b, <3>1, <3>2 DEF Altered
      <3> QED BY <3>3 DEF Below
    <2> QED BY <2>1, <2>2
  <1>7. ASSUME NEW r \in new.batches PROVE r = [content |-> r.content, state |-> r.state]
    <2>1. CASE r \in db.batches
      BY <2>1 DEF Below
    <2>2. CASE r \notin db.batches
      <3>1. t = "batches" /\ r \in rows
        BY <1>3, <2>2 DEF Tables
      <3>2. r \in Altered("batches", row)
        BY <1>b, <3>1
      <3>3. /\ r \in {[row EXCEPT !.state = "PREPARED"], [row EXCEPT !.content = {}]}
            /\ row \in db.batches
        BY <1>b, <3>1, <3>2 DEF Altered
      <3> QED BY <3>3 DEF Below
    <2> QED BY <2>1, <2>2
  <1>8. ASSUME NEW r \in new.revisions
        PROVE  r = [id |-> r.id, coverage |-> r.coverage] /\ r.id \in {n.id : n \in s.findings}
    <2>1. CASE r \in db.revisions
      BY <2>1 DEF Below
    <2>2. CASE r \notin db.revisions
      <3>1. t = "revisions" /\ r \in rows
        BY <1>3, <2>2 DEF Tables
      <3>2. r \in Altered("revisions", row)
        BY <1>b, <3>1
      <3>3. r = [row EXCEPT !.coverage = {}] /\ row \in db.revisions
        BY <1>b, <3>1, <3>2 DEF Altered
      <3>4. /\ row = [id |-> row.id, coverage |-> row.coverage]
            /\ row.id \in {n.id : n \in s.findings}
        BY <3>3 DEF Below
      <3> QED BY <3>3, <3>4
    <2> QED BY <2>1, <2>2
  <1>9. /\ new.batchSessions \subseteq db.batchSessions
        /\ new.batchFacts \subseteq db.batchFacts
        /\ new.selected \subseteq db.selected
        /\ new.support \subseteq db.support
        /\ new.covered \subseteq db.covered
    BY <1>5 DEF Tables
  <1>10. new.sessions = db.sessions \/ new.batchSessions = db.batchSessions
    BY <1>3 DEF Tables
  <1> QED BY <1>3, <1>6, <1>7, <1>8, <1>9, <1>10 DEF Below

\* The projection accepts such a database only if the tables it answers for are
\* as they were written.
LEMMA ReprojectsRows ==
  ASSUME NEW db, NEW s, NEW name, NEW raw, Below(db, s), Collections(db, s),
         Reprojects(db, name, GraphOf(s.sessions, s.facts, s.findings))
  PROVE  \A t \in Projected : db[t] = PersistCase(s, name, raw)[t]
  <1> DEFINE full == PersistCase(s, name, raw)
  <1>0. /\ full.batches = {[content |-> s.facts, state |-> "COMMITTED"]}
        /\ full.batchSessions = {c.id : c \in s.sessions}
        /\ full.batchFacts = {f.id : f \in s.facts}
        /\ full.facts = {FactRow(f) : f \in s.facts}
        /\ full.links = UNION {{f.id} \X f.evidence : f \in s.facts}
        /\ full.coverage = {CoverageRow(f) : f \in OfKind(s.facts, "coverage")}
        /\ full.packs = {"pack"} /\ full.analyses = {name}
        /\ full.revisions = {PersistFinding(n) : n \in s.findings}
        /\ full.selected = {n.id : n \in s.findings}
        /\ full.support = UNION {{n.id} \X n.evidence : n \in s.findings}
        /\ full.covered = UNION {{n.id} \X n.coverage : n \in s.findings}
        /\ full.edges = {GraphOf(s.sessions, s.facts, s.findings)}
    BY PersistedRows
  <1> HIDE DEF full
  <1>b. /\ db.batchSessions \subseteq {c.id : c \in s.sessions}
        /\ db.batchFacts \subseteq {f.id : f \in s.facts}
        /\ db.selected \subseteq {n.id : n \in s.findings}
        /\ db.support \subseteq UNION {{n.id} \X n.evidence : n \in s.findings}
        /\ db.covered \subseteq UNION {{n.id} \X n.coverage : n \in s.findings}
    BY DEF Below
  <1>1. LoadedFacts(db) = s.facts /\ LoadedFindings(db) = s.findings
    BY DEF Reprojects, ReprojectedGraph, GraphOf
  <1>2. /\ SessionsCommitted(db) /\ FactsAgree(db) /\ LinksAgree(db) /\ CoverageAgrees(db)
        /\ BatchAgrees(db) /\ FindingsAgree(db) /\ ProvenanceAgrees(db, name)
    BY DEF Reprojects, Accepts
  <1>3. Committed(db)
    BY <1>2 DEF SessionsCommitted, LoadedSessions
  <1>4. db.batches = full.batches
    <2>1. \A b \in db.batches : b = [content |-> s.facts, state |-> "COMMITTED"]
      BY <1>1, <1>2 DEF BatchAgrees, Below
    <2>2. db.batches # {}
      BY <1>3 DEF Committed
    <2> QED BY <2>1, <2>2, <1>0
  <1>5. db.batchSessions = full.batchSessions
    <2>1. CASE db.sessions = s.sessions
      <3>1. \A c \in s.sessions : c.id \in db.batchSessions
        BY <1>2, <2>1 DEF SessionsCommitted, LoadedSessions
      <3> QED BY <3>1, <1>0, <1>b
    <2>2. CASE db.batchSessions = {c.id : c \in s.sessions}
      BY <2>2, <1>0
    <2> QED BY <2>1, <2>2 DEF Collections
  <1>6. db.batchFacts = full.batchFacts
    <2>1. \A f \in s.facts : f.id \in db.batchFacts
      BY <1>1 DEF LoadedFacts
    <2> QED BY <2>1, <1>0, <1>b
  <1>7. db.facts = full.facts
    <2>1. ASSUME NEW r \in db.facts PROVE r \in full.facts
      <3>1. r = [fact |-> r.fact, columns |-> r.fact.id] /\ r.fact \in s.facts
        BY <1>2 DEF FactsAgree, Below
      <3> QED BY <3>1, <1>0 DEF FactRow
    <2>2. ASSUME NEW r \in full.facts PROVE r \in db.facts
      <3>1. PICK f \in s.facts : r = [fact |-> f, columns |-> f.id]
        BY <1>0 DEF FactRow
      <3>2. PICK q \in db.facts : q.fact = f
        BY <1>1 DEF LoadedFacts
      <3>3. q = [fact |-> q.fact, columns |-> q.fact.id]
        BY <1>2 DEF FactsAgree, Below
      <3> QED BY <3>1, <3>2, <3>3
    <2> QED BY <2>1, <2>2
  <1>8. db.links = full.links /\ db.coverage = full.coverage
    BY <1>1, <1>2, <1>0 DEF LinksAgree, CoverageAgrees
  <1>9. db.packs = full.packs /\ db.analyses = full.analyses
    BY <1>2, <1>0 DEF ProvenanceAgrees
  <1>10. ASSUME NEW n \in s.findings
         PROVE  /\ n.id \in db.selected /\ PersistFinding(n) \in db.revisions
                /\ n.evidence = LinkedTo(db.support, n.id)
                /\ n.coverage = LinkedTo(db.covered, n.id)
    <2>1. PICK r \in SelectedRevisions(db) :
             n = [id |-> r.id, evidence |-> LinkedTo(db.support, r.id),
                  coverage |-> LinkedTo(db.covered, r.id)]
      BY <1>1 DEF LoadedFindings
    <2>2. r \in db.revisions /\ r.id \in db.selected /\ LinkedTo(db.covered, r.id) = r.coverage
      BY <1>2 DEF FindingsAgree, SelectedRevisions
    <2>3. r = [id |-> r.id, coverage |-> r.coverage]
      BY <2>2 DEF Below
    <2> QED BY <2>1, <2>2, <2>3 DEF PersistFinding
  <1>11. db.selected = full.selected
    BY <1>10, <1>0, <1>b
  <1>12. db.revisions = full.revisions
    <2>1. ASSUME NEW r \in db.revisions PROVE r \in full.revisions
      <3>1. r = [id |-> r.id, coverage |-> r.coverage] /\ r.id \in db.selected
        BY <1>0, <1>11 DEF Below
      <3>2. r \in SelectedRevisions(db) /\ LinkedTo(db.covered, r.id) = r.coverage
        BY <1>2, <3>1 DEF FindingsAgree, SelectedRevisions
      <3>3. PICK n \in s.findings : n.id = r.id /\ n.coverage = LinkedTo(db.covered, r.id)
        <4>1. [id |-> r.id, evidence |-> LinkedTo(db.support, r.id),
               coverage |-> LinkedTo(db.covered, r.id)] \in s.findings
          BY <1>1, <3>2 DEF LoadedFindings
        <4> QED BY <4>1
      <3>4. r = PersistFinding(n)
        BY <3>1, <3>2, <3>3 DEF PersistFinding
      <3> QED BY <3>4, <1>0
    <2>2. ASSUME NEW r \in full.revisions PROVE r \in db.revisions
      BY <1>10, <1>0
    <2> QED BY <2>1, <2>2
  <1>13. db.support = full.support
    <2>1. ASSUME NEW n \in s.findings, NEW e \in n.evidence PROVE <<n.id, e>> \in db.support
      <3>1. PICK link \in db.support : link[1] = n.id /\ link[2] = e
        BY <1>10 DEF LinkedTo
      <3>2. link = <<n.id, e>>
        BY <3>1 DEF Below
      <3> QED BY <3>2
    <2> QED BY <2>1, <1>0, <1>b
  <1>14. db.covered = full.covered
    <2>1. ASSUME NEW n \in s.findings, NEW e \in n.coverage PROVE <<n.id, e>> \in db.covered
      <3>1. PICK link \in db.covered : link[1] = n.id /\ link[2] = e
        BY <1>10 DEF LinkedTo
      <3>2. link = <<n.id, e>>
        BY <3>1 DEF Below
      <3> QED BY <3>2
    <2> QED BY <2>1, <1>0, <1>b
  <1>15. db.edges = full.edges
    <2>1. /\ db.edges = {ReprojectedGraph(db)}
          /\ ReprojectedGraph(db) = GraphOf(s.sessions, s.facts, s.findings)
      BY DEF Reprojects
    <2> QED BY <1>0, <2>1
  <1> QED BY <1>4, <1>5, <1>6, <1>7, <1>8, <1>9, <1>11, <1>12, <1>13, <1>14, <1>15 DEF Projected, full

-----------------------------------------------------------------------------
(* Whose step changes what.                                                 *)

FileNames == {"db", "ledger", "metadata", "reports", "raw", "extra", "manifest"}
FrameNames == {"step", "manifest", "metadata"}

\* The shape of the state that is not about paths.
Shape ==
  /\ budget \in [faults : Nat, meddles : Nat, edits : Nat, stops : Nat]
  /\ dir = [d \in Directories |-> dir[d]]
  /\ \A d \in Directories : dir[d] = [f \in FileNames |-> dir[d][f]]
  /\ projected = [g \in Generators |-> projected[g]]
  /\ check = [p \in Processes |-> check[p]]
  /\ \A p \in Processes : check[p] = [f \in FrameNames |-> check[p][f]]

\* Nothing is ever given back.
LEMMA BudgetShrinks ==
  ASSUME Shape, [Next]_vars
  PROVE  /\ budget' \in [faults : Nat, meddles : Nat, edits : Nat, stops : Nat]
         /\ budget'.faults <= budget.faults /\ budget'.edits <= budget.edits
  <1>1. ASSUME NEW what \in {"faults", "meddles", "edits", "stops"}, Spend(what)
        PROVE  /\ budget' \in [faults : Nat, meddles : Nat, edits : Nat, stops : Nat]
               /\ budget'.faults <= budget.faults /\ budget'.edits <= budget.edits
    BY <1>1 DEF Shape, Spend
  <1>2. CASE budget' = budget
    BY <1>2 DEF Shape
  <1>3. \/ budget' = budget
        \/ \E what \in {"faults", "meddles", "edits", "stops"} : Spend(what)
    <2>1. ASSUME NEW g \in Generators, Generate(g) PROVE budget' = budget
      BY <2>1 DEF Generate, NewBuilder, WriteRawEvidence, WriteCaseDatabase,
         ReprojectCaseDatabase, WriteEvidenceLedger, WriteReports, BeginFinalize, WriteManifest,
         Claim, LastLook, Publish, AbortStagedCase, RemoveAll, Stage, Refused, Spared
    <2>2. ASSUME NEW g \in Generators, Surroundings(g)
          PROVE  \E what \in {"faults", "meddles", "edits", "stops"} : Spend(what)
      BY <2>2 DEF Surroundings, NewBuilderFails, Fault, CleanupFault, Drift, Cancel, Kill,
         Replace, Reap, Edit
    <2>3. ASSUME NEW p \in Processes, VerifyCase(p) PROVE budget' = budget
      BY <2>3 DEF VerifyCase, VerifyManifestIntegrity, ReadMetadata, VerifyDatabase,
         RehashDatabase, VerifyFiles, VerifyStep, Spared
    <2>4. CASE Squat \/ StartReader \/ UNCHANGED vars
      BY <2>4 DEF Squat, StartReader, Spared, vars
    <2> QED BY <2>1, <2>2, <2>3, <2>4 DEF Next
  <1> QED BY <1>1, <1>2, <1>3

\* The world does not change, and a swap stays one.
LEMMA WorldStands == [Next]_vars => UNCHANGED world /\ swapped \subseteq swapped'
  <1> SUFFICES ASSUME [Next]_vars PROVE UNCHANGED world /\ swapped \subseteq swapped'
    OBVIOUS
  <1>1. ASSUME NEW g \in Generators, Generate(g) PROVE UNCHANGED <<world, swapped>>
    BY <1>1 DEF Generate, NewBuilder, WriteRawEvidence, WriteCaseDatabase,
       ReprojectCaseDatabase, WriteEvidenceLedger, WriteReports, BeginFinalize, WriteManifest,
       Claim, LastLook, Publish, AbortStagedCase, RemoveAll, Stage, Refused, fixed
  <1>2. ASSUME NEW g \in Generators, Surroundings(g)
        PROVE  UNCHANGED world /\ swapped \subseteq swapped'
    BY <1>2 DEF Surroundings, NewBuilderFails, Fault, CleanupFault, Drift, Cancel, Kill,
       Replace, Reap, Edit, fixed
  <1>3. ASSUME NEW p \in Processes, VerifyCase(p) PROVE UNCHANGED <<world, swapped>>
    BY <1>3 DEF VerifyCase, VerifyManifestIntegrity, ReadMetadata, VerifyDatabase,
       RehashDatabase, VerifyFiles, VerifyStep, fixed
  <1>4. CASE Squat \/ StartReader \/ UNCHANGED vars
    BY <1>4 DEF Squat, StartReader, vars, world, fixed
  <1> QED BY <1>1, <1>2, <1>3, <1>4 DEF Next

\* The record of files that a directory becomes.
LEMMA StagedFiles ==
  ASSUME Shape, NEW d \in Directories, NEW files, DOMAIN files \subseteq FileNames,
         dir' = [dir EXCEPT ![d] = Over(files, @)]
  PROVE  /\ dir' = [e \in Directories |-> dir'[e]]
         /\ \A e \in Directories : dir'[e] = [f \in FileNames |-> dir'[e][f]]
         /\ \A e \in Directories \ {d} : dir'[e] = dir[e]
         /\ \A f \in FileNames : dir'[d][f] = IF f \in DOMAIN files THEN files[f] ELSE dir[d][f]
  <1>1. dir[d] = [f \in FileNames |-> dir[d][f]] /\ DOMAIN dir[d] = FileNames
    BY DEF Shape
  <1>2. DOMAIN dir = Directories
    BY DEF Shape
  <1>3. dir'[d] = Over(files, dir[d])
    BY <1>2
  <1>4. dir'[d] = [f \in FileNames |-> IF f \in DOMAIN files THEN files[f] ELSE dir[d][f]]
    <2>1. DOMAIN files \cup DOMAIN dir[d] = FileNames
      BY <1>1
    <2> QED BY <1>3, <2>1 DEF Over
  <1>5. \A e \in Directories \ {d} : dir'[e] = dir[e]
    BY <1>2
  <1>6. dir' = [e \in Directories |-> dir'[e]]
    BY <1>2
  <1>7. \A e \in Directories : dir'[e] = [f \in FileNames |-> dir'[e][f]]
    BY <1>4, <1>5 DEF Shape
  <1> QED BY <1>4, <1>5, <1>6, <1>7

\* The files that a staging step puts where the path leads.
Puts(g, files, next) ==
  /\ staging[g] \in Directories /\ pc' = [pc EXCEPT ![g] = next]
  /\ dir' = [dir EXCEPT ![staging[g]] = Over(files, @)]
  /\ UNCHANGED <<world, budget, staging, target, exists, check, outcome, leftover>>

LEMMA StagingPuts ==
  ASSUME Inv, NEW g \in Generators,
         \/ WriteRawEvidence(g) \/ WriteCaseDatabase(g) \/ WriteEvidenceLedger(g)
         \/ WriteReports(g)
  PROVE  \/ pc' = [pc EXCEPT ![g] = "abort"] /\ UNCHANGED <<staging, dir, projected, outcome>>
         \/ /\ pc[g] = "raw" /\ pc' = [pc EXCEPT ![g] = "database"]
            /\ UNCHANGED <<staging, dir, projected, outcome>>
         \/ /\ projected' = projected
            /\ \/ pc[g] = "raw" /\ \E rows : Puts(g, [raw |-> rows], "database")
               \/ /\ pc[g] = "database"
                  /\ Puts(g, [db |-> PersistCase(Snapshot, case, option[g].raw)],
                          IF option[g].contract = "v2" THEN "project" ELSE "ledger")
               \/ /\ pc[g] = "ledger"
                  /\ Puts(g, [ledger |-> [evidence |-> Snapshot.evidence,
                                          findings |-> Rehydrated(g).findings]], "reports")
               \/ /\ pc[g] = "reports"
                  /\ Puts(g, [metadata |-> Metadata(g), reports |-> Rehydrated(g)], "finalize")
  <1>1. staging[g] # Nothing => staging[g] \in Directories
    BY DEF Inv, PathsType, Directories
  <1>2. CASE WriteRawEvidence(g)
    BY <1>1, <1>2 DEF WriteRawEvidence, Refused, Failing, Stage, Puts, Spared, fixed
  <1>3. CASE WriteCaseDatabase(g)
    BY <1>1, <1>3
       DEF WriteCaseDatabase, Refused, Failing, Stage, Puts, CanCreate, Spared, fixed
  <1>4. CASE WriteEvidenceLedger(g)
    BY <1>1, <1>4
       DEF WriteEvidenceLedger, Refused, Failing, Stage, Puts, CanCreate, Spared, fixed
  <1>5. CASE WriteReports(g)
    BY <1>1, <1>5 DEF WriteReports, Refused, Failing, Stage, Puts, CanCreate, Spared, fixed
  <1> QED BY <1>2, <1>3, <1>4, <1>5

\* The shape of directories, projections and verifications.
Folders == dir = [d \in Directories |-> dir[d]]
           /\ \A d \in Directories : dir[d] = [f \in FileNames |-> dir[d][f]]
Projections == projected = [g \in Generators |-> projected[g]]
Checks == check = [p \in Processes |-> check[p]]
          /\ \A p \in Processes : check[p] = [f \in FrameNames |-> check[p][f]]

LEMMA OneFolder ==
  ASSUME Shape, NEW d \in Directories, NEW field \in FileNames, NEW file,
         dir' = [dir EXCEPT ![d] = [@ EXCEPT ![field] = file]]
  PROVE  /\ Folders' /\ \A e \in Directories \ {d} : dir'[e] = dir[e]
         /\ \A f \in FileNames : dir'[d][f] = IF f = field THEN file ELSE dir[d][f]
  <1>1. DOMAIN dir = Directories /\ DOMAIN dir[d] = FileNames
    BY DEF Shape
  <1>2. dir'[d] = [f \in FileNames |-> IF f = field THEN file ELSE dir[d][f]]
    BY <1>1 DEF Shape
  <1>3. \A e \in Directories \ {d} : dir'[e] = dir[e]
    BY <1>1
  <1>4. dir' = [e \in Directories |-> dir'[e]]
    BY <1>1
  <1>5. \A e \in Directories : dir'[e] = [f \in FileNames |-> dir'[e][f]]
    BY <1>2, <1>3 DEF Shape
  <1> QED BY <1>2, <1>3, <1>4, <1>5 DEF Folders

\* What a command sees of itself.
Own(h) == <<pc[h], staging[h], outcome[h], projected[h], dir[h], check[h]>>

\* A step of one command, or around it, is no other command's business.
LEMMA OthersUntouched ==
  ASSUME Inv, Shape, NEW g \in Generators, Generate(g) \/ Surroundings(g)
  PROVE  /\ Folders' /\ Projections' /\ Checks'
         /\ \A h \in Generators \ {g} : UNCHANGED Own(h)
         /\ check'[Reader] = check[Reader]
  <1> USE NamesAssumption
  <1>1. /\ Folders /\ Projections /\ Checks
        /\ DOMAIN dir = Directories /\ DOMAIN projected = Generators /\ DOMAIN check = Processes
    BY DEF Shape, Folders, Projections, Checks
  <1>2. /\ \A d \in Generators : d \in Directories /\ d # Foreign /\ d \in Processes /\ d # Reader
        /\ Reader \in Processes
        /\ staging[g] \in {g, Foreign, Nothing}
        /\ pc = [h \in Generators |-> pc[h]] /\ staging = [h \in Generators |-> staging[h]]
        /\ outcome = [h \in Generators |-> outcome[h]]
    BY DEF Inv, StagingInv, PathsType, Directories, Processes
  <1> DEFINE Stands == /\ Folders' /\ Projections' /\ Checks'
                       /\ \A h \in Generators \ {g} : UNCHANGED Own(h)
                       /\ check'[Reader] = check[Reader]
  <1>3. ASSUME NEW files, DOMAIN files \subseteq FileNames, NEW next, Puts(g, files, next),
               projected' = projected
        PROVE  Stands
    <2>1. Folders' /\ \A h \in Generators \ {g} : dir'[h] = dir[h]
      <3>1. staging[g] \in Directories /\ dir' = [dir EXCEPT ![staging[g]] = Over(files, @)]
        BY <1>3 DEF Puts
      <3>2. /\ dir' = [e \in Directories |-> dir'[e]]
            /\ \A e \in Directories : dir'[e] = [f \in FileNames |-> dir'[e][f]]
            /\ \A e \in Directories \ {staging[g]} : dir'[e] = dir[e]
        BY <1>3, <3>1, StagedFiles
      <3>3. \A h \in Generators \ {g} : h \in Directories \ {staging[g]}
        BY <1>2
      <3>4. Folders'
        BY <3>2 DEF Folders
      <3> QED BY <3>2, <3>3, <3>4
    <2> QED BY <1>1, <1>2, <1>3, <2>1 DEF Puts, Own, Projections, Checks
  <1>4. ASSUME UNCHANGED dir,
               pc' = pc \/ \E x : pc' = [pc EXCEPT ![g] = x],
               staging' = staging \/ \E x : staging' = [staging EXCEPT ![g] = x],
               outcome' = outcome \/ \E x : outcome' = [outcome EXCEPT ![g] = x],
               projected' = projected \/ \E x : projected' = [projected EXCEPT ![g] = x],
               \/ check' = check
               \/ check' = [check EXCEPT ![g] = NoCheck]
        PROVE  Stands
    <2>1. Folders'
      BY <1>1, <1>4 DEF Folders
    <2>2. Projections' /\ \A h \in Generators \ {g} : projected'[h] = projected[h]
      BY <1>1, <1>4 DEF Projections
    <2>3. /\ Checks' /\ \A h \in Generators \ {g} : check'[h] = check[h]
          /\ check'[Reader] = check[Reader]
      BY <1>1, <1>2, <1>4 DEF Checks, NoCheck, FrameNames
    <2> QED BY <1>2, <1>4, <2>1, <2>2, <2>3 DEF Own
  <1>5. CASE NewBuilder(g)
    <2>1. CASE target = Nothing
      <3>1. PICK rows : dir' = [dir EXCEPT ![g] = [@ EXCEPT !["raw"] = rows]]
        BY <1>5, <2>1 DEF NewBuilder
      <3>2. Folders' /\ \A h \in Generators \ {g} : dir'[h] = dir[h]
        <4>1. "raw" \in FileNames
          BY DEF FileNames
        <4>2. g \in Directories /\ Generators \ {g} \subseteq Directories \ {g}
          BY <1>2
        <4>3. Folders' /\ \A e \in Directories \ {g} : dir'[e] = dir[e]
          BY <3>1, <4>1, <4>2, OneFolder
        <4> QED BY <4>2, <4>3
      <3> QED BY <1>1, <1>2, <1>5, <2>1, <3>2 DEF NewBuilder, Own, Projections, Checks
    <2>2. CASE target # Nothing
      BY <1>1, <1>2, <1>5, <2>2 DEF NewBuilder, Own, Folders, Projections, Checks
    <2> QED BY <2>1, <2>2
  <1>6. CASE WriteRawEvidence(g) \/ WriteCaseDatabase(g) \/ WriteEvidenceLedger(g) \/ WriteReports(g)
    <2>1. UNCHANGED check
      BY <1>6 DEF WriteRawEvidence, WriteCaseDatabase, WriteEvidenceLedger, WriteReports, Stage, Refused
    <2>2. CASE UNCHANGED <<staging, dir, projected, outcome>> /\ \E x : pc' = [pc EXCEPT ![g] = x]
      BY <1>4, <2>1, <2>2
    <2>3. \/ UNCHANGED <<staging, dir, projected, outcome>> /\ \E x : pc' = [pc EXCEPT ![g] = x]
          \/ \E files, next : /\ DOMAIN files \subseteq FileNames /\ Puts(g, files, next)
                              /\ projected' = projected
      <3>1. \A x : /\ DOMAIN [raw |-> x] \subseteq FileNames /\ DOMAIN [db |-> x] \subseteq FileNames
                   /\ DOMAIN [ledger |-> x] \subseteq FileNames
                   /\ \A y : DOMAIN [metadata |-> x, reports |-> y] \subseteq FileNames
        BY DEF FileNames
      <3> QED BY <1>6, <3>1, StagingPuts
    <2> QED BY <1>3, <2>2, <2>3
  <1>7. CASE \/ ReprojectCaseDatabase(g) \/ BeginFinalize(g) \/ Claim(g) \/ LastLook(g)
             \/ Publish(g) \/ AbortStagedCase(g) \/ NewBuilderFails(g) \/ Fault(g)
             \/ CleanupFault(g) \/ Cancel(g) \/ Kill(g) \/ Replace(g)
    <2>1. Refused(g) => Stands
      BY <1>4 DEF Refused, Failing
    <2>2. CASE ReprojectCaseDatabase(g) \/ BeginFinalize(g) \/ Claim(g) \/ LastLook(g)
      BY <1>4, <2>1, <2>2 DEF ReprojectCaseDatabase, BeginFinalize, Claim, LastLook
    <2>3. CASE Publish(g)
      BY <1>4, <2>1, <2>3 DEF Publish
    <2>4. CASE Fault(g) \/ Cancel(g) \/ Kill(g) \/ Replace(g)
      BY <1>4, <2>4 DEF Fault, Cancel, Kill, Replace, Failing
    <2>5. CASE NewBuilderFails(g) \/ CleanupFault(g)
      BY <1>4, <2>5 DEF NewBuilderFails, CleanupFault, Fails
    <2>6. CASE AbortStagedCase(g)
      BY <1>4, <2>6 DEF AbortStagedCase, Fails
    <2> QED BY <1>7, <2>2, <2>3, <2>4, <2>5, <2>6
  <1>8. CASE WriteManifest(g)
    <2>1. CASE Refused(g)
      BY <1>4, <2>1 DEF Refused, Failing
    <2>2. CASE /\ CanCreate(g, {"manifest"})
               /\ dir' = [dir EXCEPT ![staging[g]].manifest = BuildManifest(staging[g])]
               /\ pc' = [pc EXCEPT ![g] = "verify"]
               /\ check' = [check EXCEPT ![g].step = "integrity"]
               /\ UNCHANGED <<staging, projected, outcome>>
      <3>1. staging[g] \in Directories
        BY <1>2, <2>2 DEF CanCreate, Directories
      <3>2. dir' = [dir EXCEPT ![staging[g]] = [@ EXCEPT !["manifest"] = BuildManifest(staging[g])]]
        BY <2>2
      <3>3. "manifest" \in FileNames
        BY DEF FileNames
      <3>4. Folders' /\ \A e \in Directories \ {staging[g]} : dir'[e] = dir[e]
        BY <3>1, <3>2, <3>3, OneFolder
      <3>5. \A h \in Generators \ {g} : dir'[h] = dir[h]
        BY <1>2, <3>4
      <3>6. /\ Checks' /\ \A h \in Generators \ {g} : check'[h] = check[h]
            /\ check'[Reader] = check[Reader]
        <4>1. check' = [check EXCEPT ![g] = [@ EXCEPT !["step"] = "integrity"]]
          BY <2>2
        <4>2. /\ \A p \in Processes \ {g} : check'[p] = check[p]
              /\ check'[g] = [check[g] EXCEPT !["step"] = "integrity"]
              /\ check' = [p \in Processes |-> check'[p]]
          BY <1>1, <1>2, <4>1
        <4>3. check'[g] = [f \in FrameNames |-> check'[g][f]]
          BY <1>1, <1>2, <4>2 DEF Checks
        <4>4. \A p \in Processes \ {g} : check'[p] = [f \in FrameNames |-> check'[p][f]]
          BY <1>1, <4>2 DEF Checks
        <4>5. Checks'
          BY <4>2, <4>3, <4>4 DEF Checks
        <4> QED BY <1>2, <4>2, <4>5
      <3>7. Projections' /\ \A h \in Generators \ {g} : projected'[h] = projected[h]
        BY <1>1, <2>2 DEF Projections
      <3> QED BY <1>2, <2>2, <3>4, <3>5, <3>6, <3>7 DEF Own
    <2> QED BY <1>8, <2>1, <2>2 DEF WriteManifest
  <1>9. CASE RemoveAll(g)
    <2>1. dir' = [d \in Directories |-> IF d = staging[g] THEN NoFiles ELSE dir[d]]
      BY <1>9 DEF RemoveAll
    <2>2. Folders' /\ \A h \in Generators \ {g} : dir'[h] = dir[h]
      BY <1>1, <1>2, <2>1 DEF Folders, NoFiles, FileNames
    <2> QED BY <1>1, <1>2, <1>9, <2>2 DEF RemoveAll, Fails, Own, Projections, Checks
  <1>10. CASE Reap(g)
    <2>1. dir' = [dir EXCEPT ![g] = NoFiles]
      BY <1>10 DEF Reap
    <2>2. Folders' /\ \A h \in Generators \ {g} : dir'[h] = dir[h]
      BY <1>1, <1>2, <2>1 DEF Folders, NoFiles, FileNames
    <2> QED BY <1>1, <1>2, <1>10, <2>2 DEF Reap, Own, Projections, Checks
  <1>11. CASE Drift(g) \/ Edit(g)
    <2>1. PICK field \in FileNames :
            \E file : dir' = [dir EXCEPT ![g] = [@ EXCEPT ![field] = file]]
      <3>1. CASE Drift(g)
        BY <3>1 DEF Drift, FileNames
      <3>2. CASE Edit(g)
        <4>1. PICK files \in Edited(dir[g]) : dir' = [dir EXCEPT ![g] = files]
          BY <3>2 DEF Edit
        <4>2. \E field \in FileNames : \E file : files = [dir[g] EXCEPT ![field] = file]
          BY <4>1 DEF Edited, FileNames
        <4> QED BY <4>1, <4>2
      <3> QED BY <1>11, <3>1, <3>2
    <2>2. PICK file : dir' = [dir EXCEPT ![g] = [@ EXCEPT ![field] = file]]
      BY <2>1
    <2>3. Folders' /\ \A h \in Generators \ {g} : dir'[h] = dir[h]
      BY <1>2, <2>2, OneFolder
    <2> QED BY <1>1, <1>2, <1>11, <2>3 DEF Drift, Edit, Own, Projections, Checks
  <1> QED
    BY <1>5, <1>6, <1>7, <1>8, <1>9, <1>10, <1>11 DEF Generate, Surroundings

\* What a verification goes on with.
Becomes(p, step, manifest, metadata) ==
  /\ check'[p].step = step /\ check'[p].manifest = manifest /\ check'[p].metadata = metadata

\* A verification finds nothing wrong.
Advance(p) ==
  LET files    == Files(p)
      manifest == check[p].manifest
      metadata == check[p].metadata
  IN
  /\ Verified(p) # Nothing
  /\ \/ /\ check[p].step = "integrity"
        /\ files.manifest = BuildManifest(Verified(p))
        /\ \A f \in Required : files.manifest[f] # Nothing
        /\ Becomes(p, "metadata", files.manifest, metadata)
     \/ /\ check[p].step = "metadata"
        /\ files.metadata = manifest.metadata
        /\ Becomes(p, IF manifest.metadata.contract = "v1" THEN "accepted" ELSE "database",
                    manifest, files.metadata)
     \/ /\ check[p].step = "database"
        /\ files.db # Nothing /\ DatabaseContract(files.db, metadata)
        /\ Becomes(p, "rehash", manifest, metadata)
     \/ /\ check[p].step = "rehash"
        /\ files.db = manifest.db
        /\ Becomes(p, "files", manifest, metadata)
     \/ /\ check[p].step = "files"
        /\ files.ledger = manifest.ledger
        /\ RawAgrees(files, manifest, metadata)
        /\ manifest.extra = Nothing
        /\ Becomes(p, "accepted", manifest, metadata)

LEMMA NewFrame ==
  ASSUME Shape, NEW p \in Processes, NEW frame, frame = [f \in FrameNames |-> frame[f]],
         check' = [check EXCEPT ![p] = frame]
  PROVE  /\ Checks' /\ \A q \in Processes \ {p} : check'[q] = check[q]
         /\ Becomes(p, frame.step, frame.manifest, frame.metadata)
  <1>1. DOMAIN check = Processes /\ Checks
    BY DEF Shape, Checks
  <1> QED BY <1>1 DEF Checks, Becomes

LEMMA VerifyEffect ==
  ASSUME Shape, NEW p \in Processes, VerifyCase(p)
  PROVE  /\ Checks' /\ \A q \in Processes \ {p} : check'[q] = check[q]
         /\ Becomes(p, "rejected", Nothing, Nothing) \/ Advance(p)
  <1> DEFINE
    Stands  == Checks' /\ \A q \in Processes \ {p} : check'[q] = check[q]
    Rejects == check' = [check EXCEPT ![p] = [NoCheck EXCEPT !.step = "rejected"]]
    Goes(frame) == Verified(p) # Nothing /\ check' = [check EXCEPT ![p] = frame]
  <1>0. DOMAIN check[p] = FrameNames
    BY DEF Shape
  <1>1. ASSUME Rejects PROVE Stands /\ Becomes(p, "rejected", Nothing, Nothing)
    <2> DEFINE frame == [NoCheck EXCEPT !.step = "rejected"]
    <2>1. frame = [f \in FrameNames |-> frame[f]]
      BY DEF NoCheck, FrameNames
    <2>2. frame.step = "rejected" /\ frame.manifest = Nothing /\ frame.metadata = Nothing
      BY DEF NoCheck
    <2> HIDE DEF frame
    <2>3. check' = [check EXCEPT ![p] = frame]
      BY <1>1 DEF frame
    <2> QED BY <2>1, <2>2, <2>3, NewFrame
  <1>2. ASSUME NEW frame, frame = [f \in FrameNames |-> frame[f]], Goes(frame)
        PROVE  Stands /\ Becomes(p, frame.step, frame.manifest, frame.metadata)
    BY <1>2, NewFrame
  <1>3. CASE VerifyManifestIntegrity(p)
    <2> DEFINE frame == [check[p] EXCEPT !.step = "metadata", !.manifest = Files(p).manifest]
    <2>1. /\ check[p].step = "integrity"
          /\ \/ Rejects
             \/ /\ Goes(frame) /\ Files(p).manifest = BuildManifest(Verified(p))
                /\ \A f \in Required : Files(p).manifest[f] # Nothing
      BY <1>3 DEF VerifyManifestIntegrity, VerifyStep
    <2>2. /\ frame = [f \in FrameNames |-> frame[f]]
          /\ frame.step = "metadata" /\ frame.manifest = Files(p).manifest
          /\ frame.metadata = check[p].metadata
      BY <1>0 DEF FrameNames
    <2> HIDE DEF frame
    <2> QED BY <1>1, <1>2, <2>1, <2>2 DEF Advance
  <1>4. CASE ReadMetadata(p)
    <2> DEFINE frame == [check[p] EXCEPT !.metadata = Files(p).metadata,
                           !.step = IF check[p].manifest.metadata.contract = "v1"
                                    THEN "accepted" ELSE "database"]
    <2>1. /\ check[p].step = "metadata"
          /\ Rejects \/ (Goes(frame) /\ Files(p).metadata = check[p].manifest.metadata)
      BY <1>4 DEF ReadMetadata, VerifyStep
    <2>2. /\ frame = [f \in FrameNames |-> frame[f]]
          /\ frame.step = IF check[p].manifest.metadata.contract = "v1"
                          THEN "accepted" ELSE "database"
          /\ frame.manifest = check[p].manifest /\ frame.metadata = Files(p).metadata
      BY <1>0 DEF FrameNames
    <2> HIDE DEF frame
    <2> QED BY <1>1, <1>2, <2>1, <2>2 DEF Advance
  <1>5. CASE VerifyDatabase(p)
    <2> DEFINE frame == [check[p] EXCEPT !.step = "rehash"]
    <2>1. /\ check[p].step = "database"
          /\ \/ Rejects
             \/ /\ Goes(frame) /\ Files(p).db # Nothing
                /\ DatabaseContract(Files(p).db, check[p].metadata)
      BY <1>5 DEF VerifyDatabase, VerifyStep
    <2>2. /\ frame = [f \in FrameNames |-> frame[f]] /\ frame.step = "rehash"
          /\ frame.manifest = check[p].manifest /\ frame.metadata = check[p].metadata
      BY <1>0 DEF FrameNames
    <2> HIDE DEF frame
    <2> QED BY <1>1, <1>2, <2>1, <2>2 DEF Advance
  <1>6. CASE RehashDatabase(p)
    <2> DEFINE frame == [check[p] EXCEPT !.step = "files"]
    <2>1. /\ check[p].step = "rehash"
          /\ Rejects \/ (Goes(frame) /\ Files(p).db = check[p].manifest.db)
      BY <1>6 DEF RehashDatabase, VerifyStep
    <2>2. /\ frame = [f \in FrameNames |-> frame[f]] /\ frame.step = "files"
          /\ frame.manifest = check[p].manifest /\ frame.metadata = check[p].metadata
      BY <1>0 DEF FrameNames
    <2> HIDE DEF frame
    <2> QED BY <1>1, <1>2, <2>1, <2>2 DEF Advance
  <1>7. CASE VerifyFiles(p)
    <2> DEFINE frame == [check[p] EXCEPT !.step = "accepted"]
    <2>1. /\ check[p].step = "files"
          /\ \/ Rejects
             \/ /\ Goes(frame) /\ Files(p).ledger = check[p].manifest.ledger
                /\ RawAgrees(Files(p), check[p].manifest, check[p].metadata)
                /\ check[p].manifest.extra = Nothing
      BY <1>7 DEF VerifyFiles, VerifyStep
    <2>2. /\ frame = [f \in FrameNames |-> frame[f]] /\ frame.step = "accepted"
          /\ frame.manifest = check[p].manifest /\ frame.metadata = check[p].metadata
      BY <1>0 DEF FrameNames
    <2> HIDE DEF frame
    <2> QED BY <1>1, <1>2, <2>1, <2>2 DEF Advance
  <1> QED BY <1>3, <1>4, <1>5, <1>6, <1>7 DEF VerifyCase

\* A step of a verification changes the verification, and of a command that
\* verifies what it does next.
LEMMA VerifyUntouched ==
  ASSUME Inv, Shape, NEW p \in Processes, VerifyCase(p)
  PROVE  /\ UNCHANGED <<world, budget, staging, target, dir, exists, projected, outcome>>
         /\ Checks'
         /\ \A q \in Processes \ {p} : check'[q] = check[q]
         /\ \A h \in Generators \ {p} : UNCHANGED Own(h)
         /\ p \in Generators => pc[p] = "verify" /\ pc'[p] \in {"verify", "claim", "abort"}
  <1>1. PICK at, holds, frame : VerifyStep(p, at, holds, frame)
    BY DEF VerifyCase, VerifyManifestIntegrity, ReadMetadata, VerifyDatabase, RehashDatabase,
           VerifyFiles
  <1>2. UNCHANGED <<world, budget, staging, target, dir, exists, projected, outcome>>
    BY <1>1 DEF VerifyStep, Spared, fixed
  <1>4. Checks' /\ \A q \in Processes \ {p} : check'[q] = check[q]
    BY VerifyEffect
  <1>5. pc = [h \in Generators |-> pc[h]]
    BY DEF Inv, PathsType
  <1>6. p # Reader => pc[p] = "verify"
    BY <1>1 DEF VerifyStep
  <1>7. pc' = pc \/ (p # Reader /\ \E x \in {"claim", "abort"} : pc' = [pc EXCEPT ![p] = x])
    BY <1>1 DEF VerifyStep
  <1>8. \A h \in Generators \ {p} : UNCHANGED Own(h)
    BY <1>2, <1>4, <1>5, <1>7 DEF Own, Processes
  <1>9. p \in Generators => pc[p] = "verify" /\ pc'[p] \in {"verify", "claim", "abort"}
    BY <1>5, <1>6, <1>7, NamesAssumption
  <1> QED BY <1>2, <1>4, <1>8, <1>9

LEMMA ShapeStep ==
  ASSUME Inv, Shape, [Next]_vars
  PROVE  Shape'
  <1>1. budget' \in [faults : Nat, meddles : Nat, edits : Nat, stops : Nat]
    BY BudgetShrinks
  <1>2. Folders /\ Projections /\ Checks
    BY DEF Shape, Folders, Projections, Checks
  <1>3. Folders' /\ Projections' /\ Checks'
    <2>1. ASSUME NEW g \in Generators, Generate(g) \/ Surroundings(g)
          PROVE  Folders' /\ Projections' /\ Checks'
      BY <2>1, OthersUntouched
    <2>2. ASSUME NEW p \in Processes, VerifyCase(p) PROVE Folders' /\ Projections' /\ Checks'
      BY <1>2, <2>2, VerifyUntouched DEF Folders, Projections
    <2>3. CASE StartReader
      <3>1. Folders' /\ Projections'
        BY <1>2, <2>3 DEF StartReader, Folders, Projections
      <3>2. check' = [check EXCEPT ![Reader] = [@ EXCEPT !["step"] = "integrity"]]
        BY <2>3 DEF StartReader
      <3>3. /\ \A p \in Processes \ {Reader} : check'[p] = check[p]
            /\ check'[Reader] = [check[Reader] EXCEPT !["step"] = "integrity"]
            /\ check' = [p \in Processes |-> check'[p]]
        BY <1>2, <3>2 DEF Checks, Processes
      <3>4. \A p \in Processes : check'[p] = [f \in FrameNames |-> check'[p][f]]
        <4>1. check'[Reader] = [f \in FrameNames |-> check'[Reader][f]]
          BY <1>2, <3>3 DEF Checks, Processes
        <4> QED BY <1>2, <3>3, <4>1 DEF Checks
      <3> QED BY <3>1, <3>3, <3>4 DEF Checks
    <2>4. CASE Squat \/ UNCHANGED vars
      BY <1>2, <2>4 DEF Squat, vars, Folders, Projections, Checks
    <2> QED BY <2>1, <2>2, <2>3, <2>4 DEF Next
  <1> QED BY <1>1, <1>3 DEF Shape, Folders, Projections, Checks

\* What the scenarios allow is counted.
ScenariosAreCounts == Scenarios \subseteq [faults : Nat, meddles : Nat, edits : Nat, stops : Nat]

LEMMA ShapeInv == ScenariosAreCounts => (Spec => [](Inv /\ Shape))
  <1> SUFFICES ASSUME ScenariosAreCounts PROVE Spec => [](Inv /\ Shape)
    OBVIOUS
  <1>1. Init => Inv /\ Shape
    BY InitInv DEF Init, Shape, ScenariosAreCounts, NoFiles, NoCheck, FileNames, FrameNames
  <1>2. Inv /\ Shape /\ [Next]_vars => Inv' /\ Shape'
    BY StepInv, ShapeStep
  <1> QED BY <1>1, <1>2, PTL DEF Spec

-----------------------------------------------------------------------------
(* The reports of a strict case.                                           *)

\* At most one row is lost or altered, or one file fails.
OneFault == \A s \in Scenarios : s.faults <= 1

\* The steps after the projection, and those after the reports.
Rehydrating == {"ledger", "reports", "finalize", "manifest", "verify", "claim", "publish",
                "rename"}
Reported    == {"finalize", "manifest", "verify", "claim", "publish", "rename"}

\* The directory of a command is on its way to the target, or there.
OnItsWay(g, steps) ==
  (pc[g] \in steps /\ staging[g] = g) \/ (outcome[g] = "case" /\ g \notin swapped)

\* Before the projection the database is what was written but for one row, and
\* while nothing was lost it names its collections twice.
Written(g) ==
  /\ Below(dir[g].db, Snapshot) /\ Collections(dir[g].db, Snapshot)
  /\ budget.faults # 0 =>
       /\ dir[g].db.sessions = Snapshot.sessions
       /\ dir[g].db.batchSessions = {c.id : c \in Snapshot.sessions}

\* What was projected is what was written, as far as the projection can see.
ProjectedAsWritten(g) ==
  /\ projected[g] # Nothing /\ ReprojectedGraph(projected[g]) = Expected
  /\ \A t \in Projected : projected[g][t] = PersistCase(Snapshot, case, option[g].raw)[t]

ReportsOf(g) ==
  option[g].contract = "v2" =>
    /\ pc[g] = "project" /\ staging[g] = g /\ dir[g].db # Nothing => Written(g)
    /\ OnItsWay(g, Rehydrating) => ProjectedAsWritten(g)
    /\ OnItsWay(g, Reported) => dir[g].reports = Expected

ReportsInv == budget.faults <= 1 /\ \A g \in Generators : ReportsOf(g)

\* A step that leaves the database, the projection and the reports alone, and
\* goes on with a step that asks for no more.
Harmless(g) ==
  /\ UNCHANGED world /\ budget'.faults \in {0, budget.faults}
  /\ OnItsWay(g, Rehydrating)' => OnItsWay(g, Rehydrating) /\ projected'[g] = projected[g]
  /\ OnItsWay(g, Reported)' => OnItsWay(g, Reported) /\ dir'[g].reports = dir[g].reports
  /\ (pc'[g] = "project" /\ staging'[g] = g) =>
       pc[g] = "project" /\ staging[g] = g /\ dir'[g].db = dir[g].db

LEMMA HarmlessReports ==
  ASSUME NEW g \in Generators, ReportsOf(g), Harmless(g)
  PROVE  ReportsOf(g)'
  <1>1. UNCHANGED <<Snapshot, Expected, option[g]>>
    BY DEF Harmless, world, Snapshot, Expected
  <1>2. Written(g) /\ dir'[g].db = dir[g].db => Written(g)'
    BY <1>1 DEF Written, Harmless
  <1>3. ProjectedAsWritten(g) /\ projected'[g] = projected[g] => ProjectedAsWritten(g)'
    BY <1>1 DEF ProjectedAsWritten
  <1> QED BY <1>1, <1>2, <1>3 DEF ReportsOf, Harmless

\* The database as it is written.
LEMMA WrittenReports ==
  ASSUME Inv, Shape, NEW g \in Generators, WriteCaseDatabase(g),
         budget.faults <= 1
  PROVE  ReportsOf(g)'
  <1>1. /\ pc[g] = "database" /\ outcome[g] # "case" /\ DOMAIN pc = Generators
        /\ g \in Directories /\ staging[g] \in {g, Foreign, Nothing}
    BY NamesAssumption
       DEF WriteCaseDatabase, Inv, PathsType, OutcomeInv, StagingInv, Directories
  <1>2. UNCHANGED world
    BY WorldStands DEF Next, Generate
  <1>3. CASE pc' = [pc EXCEPT ![g] = "abort"] /\ UNCHANGED outcome
    BY <1>1, <1>3 DEF ReportsOf, OnItsWay, Rehydrating, Reported
  <1>4. CASE Puts(g, [db |-> PersistCase(Snapshot, case, option[g].raw)],
                  IF option[g].contract = "v2" THEN "project" ELSE "ledger")
    <2> DEFINE db == PersistCase(Snapshot, case, option[g].raw)
    <2>1. DOMAIN [db |-> db] \subseteq FileNames
      BY DEF FileNames
    <2>2. staging[g] = g => dir'[g].db = db
      <3>1. "db" \in FileNames /\ "db" \in DOMAIN [db |-> db] /\ [db |-> db]["db"] = db
        BY DEF FileNames
      <3> HIDE DEF db
      <3> QED BY <1>1, <1>4, <2>1, <3>1, StagedFiles DEF Puts, db
    <2>3. /\ Below(db, Snapshot)
          /\ db.sessions = Snapshot.sessions
          /\ db.batchSessions = {c.id : c \in Snapshot.sessions}
      BY PersistedBelow
    <2>4. /\ pc'[g] = (IF option[g].contract = "v2" THEN "project" ELSE "ledger")
          /\ UNCHANGED <<outcome, staging, Snapshot>> /\ option' = option
      BY <1>1, <1>2, <1>4 DEF Puts, world, Snapshot
    <2>5. option[g].contract = "v2" /\ staging[g] = g => Written(g)'
      BY <2>2, <2>3, <2>4 DEF Written, Collections
    <2> QED BY <1>1, <2>4, <2>5 DEF ReportsOf, OnItsWay, Rehydrating, Reported
  <1> QED BY <1>1, <1>3, <1>4, StagingPuts

\* A row is lost or altered before the projection.
LEMMA DriftReports ==
  ASSUME Inv, Shape, NEW g \in Generators, ReportsOf(g), Drift(g), budget.faults <= 1
  PROVE  ReportsOf(g)'
  <1>1. /\ pc[g] = "project" /\ staging[g] = g /\ dir[g].db # Nothing /\ g \in Directories
        /\ outcome[g] # "case" /\ UNCHANGED <<pc, staging, outcome, world>>
    BY NamesAssumption DEF Drift, Inv, PathsType, OutcomeInv, Directories, fixed
  <1>2. budget.faults = 1 /\ budget'.faults = 0
    BY DEF Drift, Spend, Shape
  <1>3. PICK db \in Drifts(dir[g].db) : dir' = [dir EXCEPT ![g].db = db]
    BY DEF Drift
  <1>4. dir'[g].db = db
    BY <1>1, <1>3 DEF Shape, FileNames
  <1>5. option[g].contract = "v2" => Written(g)
    BY <1>1 DEF ReportsOf
  <1>6. Written(g) => Below(db, Snapshot) /\ Collections(db, Snapshot)
    BY <1>2, DriftBelow DEF Written, Collections
  <1>7. Snapshot' = Snapshot /\ option' = option
    BY <1>1 DEF world, Snapshot
  <1>8. option[g].contract = "v2" => Written(g)'
    BY <1>2, <1>4, <1>5, <1>6, <1>7 DEF Written
  <1>9. ~OnItsWay(g, Rehydrating)' /\ ~OnItsWay(g, Reported)'
    BY <1>1 DEF OnItsWay, Rehydrating, Reported
  <1> QED BY <1>7, <1>8, <1>9 DEF ReportsOf

\* The projection accepts what was written and nothing else.
LEMMA ProjectedReports ==
  ASSUME Inv, Shape, NEW g \in Generators, ReportsOf(g), ReprojectCaseDatabase(g)
  PROVE  ReportsOf(g)'
  <1>1. pc[g] = "project" /\ outcome[g] # "case" /\ DOMAIN pc = Generators /\ g \in DOMAIN projected
    BY NamesAssumption DEF ReprojectCaseDatabase, Inv, PathsType, OutcomeInv, Shape
  <1>2. CASE Refused(g)
    BY <1>1, <1>2 DEF Refused, Failing, ReportsOf, OnItsWay, Rehydrating, Reported
  <1>3. CASE ~Refused(g)
    <2>1. /\ Staged(g).db # Nothing /\ Reprojects(Staged(g).db, case, Expected)
          /\ projected' = [projected EXCEPT ![g] = Staged(g).db]
          /\ pc' = [pc EXCEPT ![g] = "ledger"] /\ UNCHANGED <<world, staging, outcome>>
      BY <1>3 DEF ReprojectCaseDatabase, fixed
    <2>2. UNCHANGED <<Snapshot, Expected>> /\ option' = option
      BY <2>1 DEF world, Snapshot, Expected
    <2>3. option[g].contract = "v2" /\ staging[g] = g => ProjectedAsWritten(g)'
      <3> SUFFICES ASSUME option[g].contract = "v2", staging[g] = g PROVE ProjectedAsWritten(g)'
        OBVIOUS
      <3>1. projected'[g] = dir[g].db
        BY <1>1, <2>1 DEF Staged
      <3>2. Below(dir[g].db, Snapshot) /\ Collections(dir[g].db, Snapshot)
        BY <1>1, <2>1 DEF ReportsOf, Written, Staged
      <3>3. ReprojectedGraph(dir[g].db) = Expected /\ dir[g].db # Nothing
        BY <2>1 DEF Reprojects, Staged
      <3>4. \A t \in Projected : dir[g].db[t] = PersistCase(Snapshot, case, option[g].raw)[t]
        BY <2>1, <3>2, ReprojectsRows DEF Staged, Expected
      <3> QED BY <2>2, <3>1, <3>3, <3>4 DEF ProjectedAsWritten
    <2>4. pc'[g] = "ledger" /\ outcome'[g] # "case" /\ staging' = staging
      BY <1>1, <2>1
    <2> QED BY <2>2, <2>3, <2>4 DEF ReportsOf, OnItsWay, Rehydrating, Reported
  <1> QED BY <1>2, <1>3

\* The reports are drawn from the projection.
LEMMA RehydratedReports ==
  ASSUME Inv, Shape, NEW g \in Generators, ReportsOf(g), WriteReports(g)
  PROVE  ReportsOf(g)'
  <1>1. /\ pc[g] = "reports" /\ outcome[g] # "case" /\ DOMAIN pc = Generators
        /\ g \in Directories /\ staging[g] \in {g, Foreign, Nothing}
    BY NamesAssumption DEF WriteReports, Inv, PathsType, OutcomeInv, StagingInv, Directories
  <1>2. UNCHANGED world
    BY WorldStands DEF Next, Generate
  <1>3. CASE pc' = [pc EXCEPT ![g] = "abort"] /\ UNCHANGED outcome
    BY <1>1, <1>3 DEF ReportsOf, OnItsWay, Rehydrating, Reported
  <1>4. CASE /\ Puts(g, [metadata |-> Metadata(g), reports |-> Rehydrated(g)], "finalize")
             /\ projected' = projected
    <2> DEFINE files == [metadata |-> Metadata(g), reports |-> Rehydrated(g)]
    <2>1. /\ DOMAIN files \subseteq FileNames /\ "reports" \in FileNames
          /\ "reports" \in DOMAIN files /\ files["reports"] = Rehydrated(g)
      BY DEF FileNames
    <2>2. staging[g] = g => dir'[g].reports = Rehydrated(g)
      <3>1. Puts(g, files, "finalize")
        BY <1>4
      <3> HIDE DEF files
      <3> QED BY <1>1, <2>1, <3>1, StagedFiles DEF Puts
    <2>3. /\ pc'[g] = "finalize" /\ UNCHANGED <<outcome, staging>>
          /\ UNCHANGED <<Snapshot, Expected>> /\ option' = option
      BY <1>1, <1>2, <1>4 DEF Puts, world, Snapshot, Expected
    <2>4. option[g].contract = "v2" /\ staging[g] = g => ProjectedAsWritten(g)
      BY <1>1 DEF ReportsOf, OnItsWay, Rehydrating
    <2>5. option[g].contract = "v2" /\ staging[g] = g => ProjectedAsWritten(g)'
      BY <1>4, <2>3, <2>4 DEF ProjectedAsWritten
    <2>6. option[g].contract = "v2" /\ staging[g] = g => dir'[g].reports = Expected
      BY <2>2, <2>4 DEF ProjectedAsWritten, Rehydrated
    <2> QED BY <1>1, <2>3, <2>5, <2>6 DEF ReportsOf, OnItsWay, Rehydrating, Reported
  <1> QED BY <1>1, <1>3, <1>4, StagingPuts

\* The other steps of a command are harmless to its reports.
LEMMA OwnHarmless ==
  ASSUME Inv, Shape, NEW g \in Generators, budget.faults <= 1,
         \/ NewBuilder(g) \/ WriteRawEvidence(g) \/ WriteEvidenceLedger(g) \/ BeginFinalize(g)
         \/ WriteManifest(g) \/ Claim(g) \/ LastLook(g) \/ Publish(g) \/ AbortStagedCase(g)
         \/ RemoveAll(g)
  PROVE  Harmless(g)
  <1> USE NamesAssumption
  <1>1. /\ g \in Directories /\ staging[g] \in {g, Foreign, Nothing}
        /\ pc[g] # "done" => outcome[g] # "case"
        /\ DOMAIN pc = Generators /\ DOMAIN staging = Generators /\ DOMAIN outcome = Generators
        /\ DOMAIN dir = Directories /\ DOMAIN dir[g] = FileNames
    <2>1. g \in Directories
      BY DEF Directories
    <2>2. staging[g] \in {g, Foreign, Nothing} /\ (pc[g] # "done" => outcome[g] # "case")
      BY NamesAssumption DEF Inv, StagingInv, OutcomeInv
    <2>3. DOMAIN pc = Generators /\ DOMAIN staging = Generators /\ DOMAIN outcome = Generators
      BY DEF Inv, PathsType
    <2>4. DOMAIN dir = Directories /\ DOMAIN dir[g] = FileNames
      BY <2>1 DEF Shape
    <2> QED BY <2>1, <2>2, <2>3, <2>4
  <1>2. UNCHANGED world /\ swapped \subseteq swapped' /\ budget'.faults \in {0, budget.faults}
    <2>1. UNCHANGED world /\ swapped \subseteq swapped'
      BY WorldStands DEF Next, Generate
    <2>2. budget'.faults \in Nat /\ budget.faults \in Nat /\ budget'.faults <= budget.faults
      BY BudgetShrinks DEF Next, Generate, Shape
    <2> QED BY <2>1, <2>2
  <1> USE DEF Harmless, OnItsWay, Rehydrating, Reported
  <1>3. CASE NewBuilder(g)
    BY <1>1, <1>2, <1>3 DEF NewBuilder
  <1>4. CASE Refused(g) /\ pc[g] # "done"
    BY <1>1, <1>2, <1>4 DEF Refused, Failing
  <1>5. CASE WriteRawEvidence(g) \/ WriteEvidenceLedger(g)
    <2>1. pc[g] \in {"raw", "ledger"}
      BY <1>5 DEF WriteRawEvidence, WriteEvidenceLedger
    <2>2. CASE pc' = [pc EXCEPT ![g] = "abort"] /\ UNCHANGED <<staging, dir, projected, outcome>>
      BY <1>1, <1>2, <2>1, <2>2
    <2>3. CASE /\ pc[g] = "raw" /\ pc' = [pc EXCEPT ![g] = "database"]
               /\ UNCHANGED <<staging, dir, projected, outcome>>
      BY <1>1, <1>2, <2>3
    <2>4. CASE /\ projected' = projected
               /\ pc[g] = "raw" /\ \E rows : Puts(g, [raw |-> rows], "database")
      BY <1>1, <1>2, <2>4 DEF Puts
    <2>5. CASE /\ projected' = projected
               /\ pc[g] = "ledger"
               /\ \E files : Puts(g, files, "reports")
      BY <1>1, <1>2, <2>5 DEF Puts
    <2> QED BY <1>5, <2>1, <2>2, <2>3, <2>4, <2>5, StagingPuts
  <1>6. CASE BeginFinalize(g)
    BY <1>1, <1>2, <1>4, <1>6 DEF BeginFinalize
  <1>7. CASE WriteManifest(g)
    <2>1. CASE ~Refused(g)
      <3>1. /\ pc[g] = "manifest" /\ staging[g] # Nothing
            /\ dir' = [dir EXCEPT ![staging[g]].manifest = BuildManifest(staging[g])]
            /\ pc' = [pc EXCEPT ![g] = "verify"]
            /\ UNCHANGED <<staging, projected, outcome>>
        BY <1>7, <2>1 DEF WriteManifest, CanCreate
      <3>2. staging[g] = g => dir'[g].reports = dir[g].reports
        BY <1>1, <3>1 DEF FileNames
      <3> QED BY <1>1, <1>2, <3>1, <3>2
    <2> QED BY <1>4, <1>7, <2>1 DEF WriteManifest
  <1>8. CASE Claim(g)
    BY <1>1, <1>2, <1>4, <1>8 DEF Claim
  <1>9. CASE Publish(g)
    <2>1. pc[g] = "rename"
      BY <1>9 DEF Publish
    <2>2. staging[g] \in {g, Nothing} \/ g \in swapped
      BY <1>1, <2>1 DEF Inv, StagingInv
    <2>3. CASE ~Refused(g)
      BY <1>1, <1>2, <1>9, <2>1, <2>2, <2>3 DEF Publish, Publishable
    <2> QED BY <1>4, <2>1, <2>3
  <1>10. CASE AbortStagedCase(g) \/ RemoveAll(g)
    BY <1>1, <1>2, <1>10 DEF AbortStagedCase, RemoveAll, Fails
  <1>11. CASE LastLook(g)
    BY <1>1, <1>2, <1>4, <1>11 DEF LastLook
  <1> QED BY <1>3, <1>5, <1>6, <1>7, <1>8, <1>9, <1>10, <1>11

\* So is what happens around it, but for the row that is lost or altered.
LEMMA AroundHarmless ==
  ASSUME Inv, Shape, NEW g \in Generators, budget.faults <= 1, Surroundings(g), ~Drift(g)
  PROVE  ReportsOf(g) => ReportsOf(g)'
  <1> USE NamesAssumption
  <1>1. /\ g \in Directories /\ g # Foreign
        /\ outcome[g] = "case" => pc[g] = "done" /\ staging[g] = Nothing
        /\ DOMAIN pc = Generators /\ DOMAIN staging = Generators /\ DOMAIN outcome = Generators
        /\ DOMAIN dir = Directories /\ DOMAIN dir[g] = FileNames
    <2>1. g \in Directories /\ g # Foreign
      BY DEF Directories
    <2>2. outcome[g] = "case" => pc[g] = "done" /\ staging[g] = Nothing
      BY NamesAssumption DEF Inv, OutcomeInv
    <2>3. DOMAIN pc = Generators /\ DOMAIN staging = Generators /\ DOMAIN outcome = Generators
      BY DEF Inv, PathsType
    <2>4. DOMAIN dir = Directories /\ DOMAIN dir[g] = FileNames
      BY <2>1 DEF Shape
    <2> QED BY <2>1, <2>2, <2>3, <2>4
  <1>2. UNCHANGED world /\ swapped \subseteq swapped' /\ budget'.faults \in {0, budget.faults}
    <2>1. UNCHANGED world /\ swapped \subseteq swapped'
      BY WorldStands DEF Next
    <2>2. budget'.faults \in Nat /\ budget.faults \in Nat /\ budget'.faults <= budget.faults
      BY BudgetShrinks DEF Next, Shape
    <2> QED BY <2>1, <2>2
  <1>3. CASE ~Edit(g)
    <2> SUFFICES Harmless(g)
      BY HarmlessReports
    <2>1. CASE Fault(g)
      BY <1>1, <1>2, <2>1 DEF Fault, Underway, Failing, Harmless, OnItsWay, Rehydrating, Reported
    <2>2. CASE Cancel(g)
      BY <1>2, <2>2 DEF Cancel, Harmless, OnItsWay, Rehydrating, Reported
    <2>3. CASE Kill(g)
      BY <1>1, <1>2, <2>3 DEF Kill, Underway, Harmless, OnItsWay, Rehydrating, Reported
    <2>4. CASE Replace(g)
      BY <1>1, <1>2, <2>4 DEF Replace, Harmless, OnItsWay, Rehydrating, Reported
    <2>5. CASE Reap(g)
      BY <1>1, <1>2, <2>5 DEF Reap, Harmless, OnItsWay, Rehydrating, Reported
    <2>6. CASE NewBuilderFails(g) \/ CleanupFault(g)
      BY <1>1, <1>2, <2>6 DEF NewBuilderFails, CleanupFault, Fails, Harmless, OnItsWay,
         Rehydrating, Reported
    <2> QED BY <1>3, <2>1, <2>2, <2>3, <2>4, <2>5, <2>6 DEF Surroundings
  <1>4. CASE Edit(g)
    <2>1. PICK files \in Edited(dir[g]) : dir' = [dir EXCEPT ![g] = files]
      BY <1>4 DEF Edit
    <2>2. UNCHANGED <<pc, staging, outcome, projected>> /\ budget'.faults = budget.faults
      BY <1>4 DEF Edit, Spend, Shape
    <2>3. /\ dir'[g].reports = dir[g].reports
          /\ dir[g].db # Nothing => 
               dir'[g].db = dir[g].db \/ \E rows : dir'[g].db = [dir[g].db EXCEPT !.metadata = rows]
      <3>1. dir'[g] = files
        BY <1>1, <2>1
      <3>2. {"db", "ledger", "metadata", "reports", "raw", "extra"} \subseteq DOMAIN dir[g]
        BY <1>1 DEF FileNames
      <3>3. \/ \E field \in {"extra", "metadata", "ledger", "raw"} : \E x :
                 files = [dir[g] EXCEPT ![field] = x]
            \/ \E rows : files = [dir[g] EXCEPT !["db"] = [@ EXCEPT !["metadata"] = rows]]
        BY <2>1 DEF Edited
      <3> QED BY <3>1, <3>2, <3>3
    <2>4. Snapshot' = Snapshot /\ Expected' = Expected /\ option' = option
      BY <1>2 DEF world, Snapshot, Expected
    <2>5. ASSUME dir[g].db # Nothing, Written(g) PROVE Written(g)'
      <3>1. CASE dir'[g].db = dir[g].db
        BY <2>2, <2>4, <2>5, <3>1 DEF Written
      <3>2. CASE \E rows : dir'[g].db = [dir[g].db EXCEPT !.metadata = rows]
        <4> DEFINE db == dir[g].db new == dir'[g].db
        <4>1. PICK rows : new = [db EXCEPT !.metadata = rows]
          BY <3>2
        <4>2. Below(db, Snapshot) /\ db = [t \in Tables |-> db[t]]
          BY <2>5 DEF Written, Below
        <4>3. /\ new = [t \in Tables |-> new[t]]
              /\ \A t \in Tables \ {"metadata"} : new[t] = db[t]
          BY <4>1, <4>2
        <4> HIDE DEF db, new
        <4>4. /\ new.batchSessions = db.batchSessions /\ new.batchFacts = db.batchFacts
              /\ new.selected = db.selected /\ new.support = db.support
              /\ new.covered = db.covered /\ new.facts = db.facts
              /\ new.batches = db.batches /\ new.revisions = db.revisions
              /\ new.sessions = db.sessions
          BY <4>3 DEF Tables
        <4>5. Below(new, Snapshot)
          BY <4>2, <4>3, <4>4 DEF Below
        <4>6. Collections(db, Snapshot) => Collections(new, Snapshot)
          BY <4>4 DEF Collections
        <4> QED BY <2>2, <2>4, <2>5, <4>4, <4>5, <4>6 DEF Written, db, new
      <3> QED BY <2>3, <2>5, <3>1, <3>2
    <2>6. dir[g].db = Nothing => dir'[g].db = Nothing
      BY <1>1, <2>1 DEF Edited, FileNames
    <2>7. ProjectedAsWritten(g) => ProjectedAsWritten(g)'
      BY <2>2, <2>4 DEF ProjectedAsWritten
    <2>8. /\ OnItsWay(g, Rehydrating)' => OnItsWay(g, Rehydrating)
          /\ OnItsWay(g, Reported)' => OnItsWay(g, Reported)
      BY <1>2, <2>2 DEF OnItsWay, Rehydrating, Reported
    <2> QED BY <2>2, <2>3, <2>4, <2>5, <2>6, <2>7, <2>8 DEF ReportsOf
  <1> QED BY <1>3, <1>4

\* What others do is harmless, too.
LEMMA OtherHarmless ==
  ASSUME NEW g \in Generators, UNCHANGED <<world, Own(g)>>, swapped \subseteq swapped',
         budget'.faults \in {0, budget.faults}
  PROVE  Harmless(g)
  BY DEF Own, Harmless, OnItsWay

\* Every step keeps the reports true to what was written.
LEMMA ReportsStep ==
  ASSUME Inv, Shape, ReportsInv, [Next]_vars
  PROVE  ReportsInv'
  <1>1. /\ UNCHANGED world /\ swapped \subseteq swapped'
        /\ budget'.faults \in {0, budget.faults} /\ budget'.faults <= 1
    <2>1. budget'.faults \in Nat /\ budget.faults \in Nat /\ budget'.faults <= budget.faults
      BY BudgetShrinks DEF Shape
    <2> QED BY <2>1, WorldStands DEF ReportsInv
  <1>2. ASSUME NEW g \in Generators, NEW h \in Generators, Generate(h) \/ Surroundings(h)
        PROVE  ReportsOf(g)'
    <2>1. CASE g # h
      <3>1. UNCHANGED Own(g)
        BY <1>2, <2>1, OthersUntouched
      <3> QED BY <1>1, <3>1, OtherHarmless, HarmlessReports DEF ReportsInv
    <2>2. CASE g = h
      <3>1. ReportsOf(g) /\ budget.faults <= 1
        BY DEF ReportsInv
      <3>2. CASE Surroundings(g)
        BY <3>1, <3>2, DriftReports, AroundHarmless
      <3>3. CASE WriteCaseDatabase(g) \/ ReprojectCaseDatabase(g) \/ WriteReports(g)
        BY <3>1, <3>3, WrittenReports, ProjectedReports, RehydratedReports
      <3>4. CASE \/ NewBuilder(g) \/ WriteRawEvidence(g) \/ WriteEvidenceLedger(g)
                 \/ BeginFinalize(g) \/ WriteManifest(g) \/ Claim(g) \/ LastLook(g)
                 \/ Publish(g) \/ AbortStagedCase(g) \/ RemoveAll(g)
        BY <3>1, <3>4, OwnHarmless, HarmlessReports
      <3> QED BY <1>2, <2>2, <3>2, <3>3, <3>4 DEF Generate
    <2> QED BY <2>1, <2>2
  <1>3. ASSUME NEW g \in Generators, NEW p \in Processes, VerifyCase(p)
        PROVE  ReportsOf(g)'
    <2>1. /\ UNCHANGED <<world, budget, staging, dir, projected, outcome>>
          /\ pc'[g] # pc[g] => pc[g] = "verify" /\ pc'[g] \in {"verify", "claim", "abort"}
      BY <1>3, VerifyUntouched DEF Own
    <2>2. Harmless(g)
      BY <1>1, <2>1 DEF Harmless, OnItsWay, Rehydrating, Reported
    <2> QED BY <2>2, HarmlessReports DEF ReportsInv
  <1>4. ASSUME NEW g \in Generators, Squat \/ StartReader \/ UNCHANGED vars
        PROVE  ReportsOf(g)'
    <2>1. UNCHANGED <<staging, dir, projected, outcome, pc>>
      BY <1>4 DEF Squat, StartReader, vars
    <2>2. Harmless(g)
      BY <1>1, <2>1 DEF Harmless, OnItsWay
    <2> QED BY <2>2, HarmlessReports DEF ReportsInv
  <1>5. ASSUME NEW g \in Generators PROVE ReportsOf(g)'
    BY <1>2, <1>3, <1>4 DEF Next
  <1> QED BY <1>1, <1>5 DEF ReportsInv

\* The reports of a published strict case are drawn from a database whose rows
\* were exactly those of the archive when it was read again, and say what the
\* archive says (reprojectCaseDatabase), as long as one row at most is lost or
\* altered and nobody swaps the directory after the last look at it.
THEOREM ReportsTheorem ==
  ScenariosAreCounts /\ OneFault => (Spec => []ReportsRestOnFacts)
  <1> SUFFICES ASSUME ScenariosAreCounts, OneFault PROVE Spec => []ReportsRestOnFacts
    OBVIOUS
  <1>1. Init => ReportsInv
    BY NamesAssumption DEF Init, ReportsInv, ReportsOf, OnItsWay, Rehydrating, Reported, OneFault
  <1>2. ReportsInv => ReportsRestOnFacts
    BY DEF ReportsInv, ReportsOf, OnItsWay, ProjectedAsWritten, ReportsRestOnFacts
  <1>3. Spec => [](Inv /\ Shape)
    BY ShapeInv
  <1>4. Inv /\ Shape /\ ReportsInv /\ [Next]_vars => ReportsInv'
    BY ReportsStep
  <1> QED BY <1>1, <1>2, <1>3, <1>4, PTL DEF Spec


-----------------------------------------------------------------------------
(* What a verification accepts.                                            *)

\* An editor interferes at most twice.
TwoEdits == \A s \in Scenarios : s.edits <= 2

\* The database after an edit.
Flip(db) ==
  [db EXCEPT !.metadata =
     {<<row[1], IF row[2] = "true" THEN "false"
                ELSE IF row[2] = "false" THEN "true" ELSE row[2]>> : row \in @}]

\* What a step of a command, or around it, does to the database and the
\* metadata of its own directory.
DatabaseBecomes(g) ==
  \/ dir'[g].db = dir[g].db
  \/ staging[g] = g /\ staging'[g] = Nothing /\ dir'[g].db = Nothing
  \/ pc[g] = "database" /\ dir'[g].db = PersistCase(Snapshot, case, option[g].raw)
  \/ pc[g] = "project" /\ dir[g].db # Nothing /\ dir'[g].db \in Drifts(dir[g].db)
  \/ dir[g].db # Nothing /\ dir'[g].db = Flip(dir[g].db) /\ Edit(g)

MetadataBecome(g) ==
  \/ dir'[g].metadata = dir[g].metadata
  \/ dir'[g].metadata = Nothing
  \/ dir'[g].metadata = Metadata(g)
  \/ Edit(g)

\* What it does to the database of the foreign directory.
ForeignBecomes(g) ==
  \/ dir'[Foreign].db = dir[Foreign].db
  \/ staging[g] = Foreign /\ pc[g] = "database"
  \/ staging[g] = Foreign /\ pc[g] = "remove" /\ dir'[Foreign].db = Nothing

LEMMA EditEffect ==
  ASSUME Shape, NEW g \in Generators, Edit(g)
  PROVE  /\ \/ dir'[g].db = dir[g].db
            \/ dir[g].db # Nothing /\ dir'[g].db = Flip(dir[g].db)
         /\ \A d \in Directories \ {g} : dir'[d] = dir[d]
  <1>1. PICK files \in Edited(dir[g]) : dir' = [dir EXCEPT ![g] = files]
    BY DEF Edit
  <1>2. DOMAIN dir = Directories /\ g \in Directories /\ DOMAIN dir[g] = FileNames
    BY DEF Shape, Directories
  <1>3. dir'[g] = files /\ \A d \in Directories \ {g} : dir'[d] = dir[d]
    BY <1>1, <1>2
  <1>4. files.db = dir[g].db \/ (dir[g].db # Nothing /\ files.db = Flip(dir[g].db))
    BY <1>1, <1>2 DEF Edited, Flip, FileNames
  <1> QED BY <1>3, <1>4

LEMMA OwnFiles ==
  ASSUME Inv, Shape, NEW g \in Generators, Generate(g) \/ Surroundings(g)
  PROVE  /\ dir'[Squatter] = dir[Squatter]
         /\ ForeignBecomes(g) /\ DatabaseBecomes(g) /\ MetadataBecome(g)
  <1> USE NamesAssumption
  <1>1. /\ g \in Directories /\ Foreign \in Directories /\ Squatter \in Directories
        /\ g # Foreign /\ g # Squatter
        /\ staging[g] \in {g, Foreign, Nothing}
        /\ DOMAIN dir = Directories /\ \A d \in Directories : DOMAIN dir[d] = FileNames
        /\ DOMAIN staging = Generators
        /\ "db" \in FileNames /\ "metadata" \in FileNames
    <2>1. DOMAIN dir = Directories /\ \A d \in Directories : DOMAIN dir[d] = FileNames
      BY DEF Shape
    <2> QED BY <2>1 DEF Inv, PathsType, StagingInv, Directories, FileNames
  <1> DEFINE Stands == /\ dir'[Squatter] = dir[Squatter]
                       /\ ForeignBecomes(g) /\ DatabaseBecomes(g) /\ MetadataBecome(g)
  <1> USE DEF ForeignBecomes, DatabaseBecomes, MetadataBecome
  <1>2. CASE UNCHANGED dir
    BY <1>2
  <1>3. CASE NewBuilder(g)
    BY <1>1, <1>3 DEF NewBuilder, FileNames
  <1>4. CASE WriteRawEvidence(g) \/ WriteCaseDatabase(g) \/ WriteEvidenceLedger(g) \/ WriteReports(g)
    <2>1. ASSUME NEW files, DOMAIN files \subseteq FileNames, NEW next, Puts(g, files, next)
          PROVE  /\ staging[g] \in {g, Foreign} /\ dir'[Squatter] = dir[Squatter]
                 /\ \A d \in {g, Foreign} : \A f \in {"db", "metadata"} :
                       dir'[d][f] = IF d = staging[g] /\ f \in DOMAIN files
                                    THEN files[f] ELSE dir[d][f]
      <3>1. staging[g] \in {g, Foreign}
        BY <1>1, <2>1 DEF Puts, Directories
      <3>2. /\ \A e \in Directories \ {staging[g]} : dir'[e] = dir[e]
            /\ \A f \in FileNames : dir'[staging[g]][f] = IF f \in DOMAIN files
                                      THEN files[f] ELSE dir[staging[g]][f]
        BY <2>1, StagedFiles DEF Puts
      <3> QED BY <1>1, <3>1, <3>2
    <2>2. ASSUME NEW rows, Puts(g, [raw |-> rows], "database") PROVE Stands
      BY <2>1, <2>2 DEF FileNames
    <2>3. ASSUME NEW db, NEW next, pc[g] = "database", Puts(g, [db |-> db], next),
                 db = PersistCase(Snapshot, case, option[g].raw)
          PROVE Stands
      <3>1. DOMAIN [db |-> db] = {"db"} /\ {"db"} \subseteq FileNames /\ [db |-> db]["db"] = db
        BY DEF FileNames
      <3> QED BY <1>1, <2>1, <2>3, <3>1
    <2>4. ASSUME NEW ledger, Puts(g, [ledger |-> ledger], "reports") PROVE Stands
      BY <2>1, <2>4 DEF FileNames
    <2>5. ASSUME NEW reports, Puts(g, [metadata |-> Metadata(g), reports |-> reports], "finalize")
          PROVE Stands
      <3> DEFINE files == [metadata |-> Metadata(g), reports |-> reports]
      <3>1. DOMAIN files = {"metadata", "reports"} /\ {"metadata", "reports"} \subseteq FileNames
            /\ files["metadata"] = Metadata(g)
        BY DEF FileNames
      <3>2. Puts(g, files, "finalize")
        BY <2>5
      <3> HIDE DEF files
      <3> QED BY <1>1, <2>1, <3>1, <3>2
    <2> HIDE DEF ForeignBecomes, DatabaseBecomes, MetadataBecome
    <2> QED BY <1>2, <1>4, <2>2, <2>3, <2>4, <2>5, StagingPuts
  <1>5. CASE WriteManifest(g)
    <2>1. CASE /\ staging[g] # Nothing
               /\ dir' = [dir EXCEPT ![staging[g]].manifest = BuildManifest(staging[g])]
      BY <1>1, <2>1 DEF FileNames
    <2> QED BY <1>2, <1>5, <2>1 DEF WriteManifest, CanCreate, Refused
  <1>6. CASE \/ ReprojectCaseDatabase(g) \/ BeginFinalize(g) \/ Claim(g) \/ LastLook(g)
             \/ Publish(g) \/ AbortStagedCase(g)
    BY <1>2, <1>6 DEF ReprojectCaseDatabase, BeginFinalize, Claim, LastLook, Publish,
       AbortStagedCase, Refused
  <1>7. CASE RemoveAll(g)
    <2>1. /\ pc[g] = "remove" /\ staging'[g] = Nothing
          /\ dir' = [d \in Directories |-> IF d = staging[g] THEN NoFiles ELSE dir[d]]
      BY <1>1, <1>7 DEF RemoveAll
    <2> QED BY <1>1, <2>1 DEF NoFiles
  <1>8. CASE Drift(g)
    BY <1>1, <1>8 DEF Drift, FileNames
  <1>9. CASE Reap(g)
    BY <1>1, <1>9 DEF Reap, NoFiles
  <1>10. CASE Edit(g)
    BY <1>1, <1>10, EditEffect
  <1>11. CASE \/ NewBuilderFails(g) \/ Fault(g) \/ CleanupFault(g) \/ Cancel(g) \/ Kill(g)
              \/ Replace(g)
    BY <1>2, <1>11 DEF NewBuilderFails, Fault, CleanupFault, Cancel, Kill, Replace
  <1> HIDE DEF ForeignBecomes, DatabaseBecomes, MetadataBecome
  <1> QED BY <1>3, <1>4, <1>5, <1>6, <1>7, <1>8, <1>9, <1>10, <1>11 DEF Generate, Surroundings

Finalizing == {"manifest", "verify", "claim", "publish", "rename"}

\* What is at the target is a case that a command returned, or somebody's
\* directory without a database, and a reader has something to read.
TargetInv ==
  /\ target \in Generators \cup {Squatter, Foreign, Nothing}
  /\ target \in Generators => outcome[target] = "case"
  /\ check[Reader].step # "idle" => target # Nothing
  /\ dir[Squatter].db = Nothing

\* One path at most leads to the foreign directory, and a database is there
\* only if it is the staging path of a command that does not finalize.
ForeignInv ==
  /\ \A g, h \in Generators : staging[g] = Foreign /\ staging[h] = Foreign => g = h
  /\ target = Foreign => \A g \in Generators : staging[g] # Foreign
  /\ dir[Foreign].db = Nothing
     \/ \E g \in Generators : staging[g] = Foreign /\ pc[g] \notin Finalizing

\* Where the paths lead after a step of a command, or around it.
LEMMA OwnPaths ==
  ASSUME Inv, Shape, NEW g \in Generators, Generate(g) \/ Surroundings(g)
  PROVE  /\ \/ target' = target
            \/ target = Nothing /\ target' = g /\ outcome'[g] = "case"
            \/ /\ target = Nothing /\ target' = Foreign
               /\ staging[g] = Foreign /\ staging'[g] = Nothing
         /\ outcome[g] = "case" => outcome'[g] = "case"
         /\ \/ staging'[g] = staging[g] \/ staging'[g] = g \/ staging'[g] = Nothing
            \/ /\ staging'[g] = Foreign /\ target' # Foreign
               /\ \A h \in Generators : staging[h] # Foreign
         /\ staging[g] = Foreign =>
              \/ staging'[g] = Foreign
              \/ pc[g] = "rename"
              \/ pc[g] = "remove" /\ dir'[Foreign].db = Nothing
         /\ pc'[g] \in Finalizing /\ staging'[g] = Foreign =>
              pc[g] \in Finalizing \/ staging[g] # Foreign
  <1> USE NamesAssumption
  <1>1. /\ g # Foreign
        /\ staging[g] \in {g, Foreign, Nothing}
        /\ DOMAIN staging = Generators /\ DOMAIN pc = Generators /\ DOMAIN outcome = Generators
        /\ outcome[g] = "case" => pc[g] = "done"
        /\ pc[g] = "begin" => staging[g] = Nothing
    BY DEF Inv, PathsType, StagingInv, OutcomeInv
  <1> DEFINE Calm == UNCHANGED <<target, outcome, staging>>
  <1>2. CASE NewBuilder(g)
    BY <1>1, <1>2 DEF NewBuilder
  <1>3. CASE Refused(g)
    BY <1>1, <1>3 DEF Refused, Failing, Finalizing
  <1>4. CASE WriteRawEvidence(g) \/ WriteCaseDatabase(g) \/ WriteEvidenceLedger(g) \/ WriteReports(g)
    <2>1. target' = target
      BY <1>4 DEF WriteRawEvidence, WriteCaseDatabase, WriteEvidenceLedger, WriteReports, Stage,
         Refused
    <2>2. UNCHANGED <<staging, outcome>> /\ pc'[g] \notin Finalizing
      BY <1>1, <1>4, StagingPuts DEF Puts, Finalizing
    <2> QED BY <2>1, <2>2
  <1>5. CASE ReprojectCaseDatabase(g)
    BY <1>1, <1>3, <1>5 DEF ReprojectCaseDatabase, Finalizing
  <1>6. CASE BeginFinalize(g)
    BY <1>1, <1>3, <1>6 DEF BeginFinalize, Finalizing
  <1>7. CASE WriteManifest(g) \/ Claim(g) \/ LastLook(g)
    BY <1>1, <1>3, <1>7 DEF WriteManifest, Claim, LastLook, Finalizing
  <1>8. CASE Publish(g)
    BY <1>1, <1>3, <1>8 DEF Publish, Publishable, Finalizing
  <1>9. CASE AbortStagedCase(g)
    BY <1>1, <1>9 DEF AbortStagedCase, Fails, Finalizing
  <1>10. CASE RemoveAll(g)
    <2>1. DOMAIN dir = Directories /\ Foreign \in Directories
      BY DEF Shape, Directories
    <2>2. staging[g] = Foreign => dir'[Foreign].db = Nothing
      BY <1>10, <2>1 DEF RemoveAll, NoFiles
    <2> QED BY <1>1, <1>10, <2>2 DEF RemoveAll, Fails, Finalizing
  <1>11. CASE Surroundings(g)
    BY <1>1, <1>11 DEF Surroundings, NewBuilderFails, Fault, CleanupFault, Fails, Drift, Cancel,
       Kill, Replace, Reap, Edit, Failing, Underway, Finalizing
  <1> QED BY <1>2, <1>4, <1>5, <1>6, <1>7, <1>8, <1>9, <1>10, <1>11 DEF Generate

LEMMA PlacesStep ==
  ASSUME Inv, Shape, TargetInv, ForeignInv, [Next]_vars
  PROVE  TargetInv' /\ ForeignInv'
  <1> USE NamesAssumption
  <1>1. ASSUME NEW g \in Generators, Generate(g) \/ Surroundings(g)
        PROVE  TargetInv' /\ ForeignInv'
    <2>1. /\ \A h \in Generators \ {g} : UNCHANGED <<pc[h], staging[h], outcome[h]>>
          /\ check'[Reader] = check[Reader]
      BY <1>1, OthersUntouched DEF Own
    <2>2. dir'[Squatter] = dir[Squatter] /\ ForeignBecomes(g)
      BY <1>1, OwnFiles
    <2> HIDE DEF Generate, Surroundings
    <2>3. TargetInv'
      BY <1>1, <2>1, <2>2, OwnPaths DEF TargetInv
    <2>4. \A h, i \in Generators : staging'[h] = Foreign /\ staging'[i] = Foreign => h = i
      BY <1>1, <2>1, OwnPaths DEF ForeignInv
    <2>5. dir'[Foreign].db = Nothing
          \/ \E h \in Generators : staging'[h] = Foreign /\ pc'[h] \notin Finalizing
      <3>1. CASE pc[g] = "database" /\ staging[g] = Foreign
        <4>1. staging'[g] = Foreign /\ pc'[g] \notin Finalizing
          BY <1>1, <3>1, OwnPaths DEF Finalizing
        <4> QED BY <4>1
      <3>2. CASE dir'[Foreign].db = dir[Foreign].db
        <4>1. CASE dir[Foreign].db = Nothing
          BY <3>2, <4>1
        <4>2. CASE dir[Foreign].db # Nothing
          <5>1. PICK h \in Generators : staging[h] = Foreign /\ pc[h] \notin Finalizing
            BY <4>2 DEF ForeignInv
          <5>2. CASE h # g
            BY <2>1, <5>1, <5>2
          <5>3. CASE h = g
            BY <1>1, <5>1, <5>3, OwnPaths DEF Finalizing
          <5> QED BY <5>2, <5>3
        <4> QED BY <4>1, <4>2
      <3> QED BY <2>2, <3>1, <3>2 DEF ForeignBecomes
    <2>6. target' = Foreign => \A h \in Generators : staging'[h] # Foreign
      <3>1. ASSUME target' = Foreign, NEW h \in Generators, staging'[h] = Foreign PROVE FALSE
        <4>1. CASE target = Foreign
          BY <1>1, <2>1, <3>1, <4>1, OwnPaths DEF ForeignInv
        <4>2. CASE target # Foreign
          <5>1. staging[g] = Foreign /\ staging'[g] = Nothing
            BY <1>1, <3>1, <4>2, OwnPaths
          <5> QED BY <2>1, <3>1, <5>1 DEF ForeignInv
        <4> QED BY <4>1, <4>2
      <3> QED BY <3>1
    <2> QED BY <2>3, <2>4, <2>5, <2>6 DEF ForeignInv
  <1>2. ASSUME NEW p \in Processes, VerifyCase(p) PROVE TargetInv' /\ ForeignInv'
    <2>1. /\ UNCHANGED <<target, staging, dir, outcome>>
          /\ \A h \in Generators : pc'[h] # pc[h] => pc[h] \in Finalizing
          /\ \A q \in Processes \ {p} : check'[q] = check[q]
      BY <1>2, VerifyUntouched DEF Own, Finalizing
    <2>2. check'[Reader].step # "idle" => target # Nothing
      <3>1. CASE p # Reader
        BY <2>1, <3>1 DEF TargetInv, Processes
      <3>2. CASE p = Reader
        <4>1. check[Reader].step # "idle"
          BY <1>2, <3>2 DEF VerifyCase, VerifyManifestIntegrity, ReadMetadata, VerifyDatabase,
             RehashDatabase, VerifyFiles, VerifyStep
        <4> QED BY <4>1 DEF TargetInv
      <3> QED BY <3>1, <3>2
    <2> QED BY <2>1, <2>2 DEF TargetInv, ForeignInv
  <1>3. CASE StartReader
    BY <1>3 DEF StartReader, TargetInv, ForeignInv
  <1>4. CASE Squat
    BY <1>4 DEF Squat, TargetInv, ForeignInv
  <1>5. CASE UNCHANGED vars
    BY <1>5 DEF vars, TargetInv, ForeignInv
  <1> QED BY <1>1, <1>2, <1>3, <1>4, <1>5 DEF Next

RawRow == "case_raw_materialized"

\* The database says of the raw evidence what was asked for, or what no
\* metadata say.
SaysRaw(db, raw) ==
  DOMAIN db = Tables /\ Value(db, RawRow) \subseteq {Text(raw), "other"}

\* While two edits are left nobody has edited anything.
UntouchedInv ==
  budget.edits > 1 =>
    \A g \in Generators :
      /\ dir[g].db # Nothing => SaysRaw(dir[g].db, option[g].raw)
      /\ dir[g].metadata # Nothing => dir[g].metadata.raw = option[g].raw

LEMMA PersistedRaw ==
  ASSUME NEW s, NEW name, NEW raw PROVE SaysRaw(PersistCase(s, name, raw), raw)
  <1> DEFINE db == PersistCase(s, name, raw)
  <1>1. /\ DOMAIN db = Tables
        /\ db.metadata = {<<"case_id", name>>, <<"case_raw_materialized", Text(raw)>>}
    BY PersistedRows
  <1> HIDE DEF db
  <1>2. \A row \in db.metadata : row[1] = RawRow => row[2] = Text(raw)
    BY <1>1 DEF RawRow
  <1>3. SaysRaw(db, raw)
    BY <1>1, <1>2 DEF SaysRaw, Value
  <1> QED BY <1>3 DEF db

LEMMA DriftRaw ==
  ASSUME NEW db, NEW raw, SaysRaw(db, raw), NEW new \in Drifts(db)
  PROVE  SaysRaw(new, raw)
  <1>1. PICK t \in DOMAIN db : \E row \in db[t] : \E rows \in {{}} \cup {{a} : a \in Altered(t, row)} :
           new = [db EXCEPT ![t] = (@ \ {row}) \cup rows]
    BY DEF Drifts
  <1>2. PICK row \in db[t] : \E rows \in {{}} \cup {{a} : a \in Altered(t, row)} :
           new = [db EXCEPT ![t] = (@ \ {row}) \cup rows]
    BY <1>1
  <1>3. PICK rows \in {{}} \cup {{a} : a \in Altered(t, row)} :
           new = [db EXCEPT ![t] = (@ \ {row}) \cup rows]
    BY <1>2
  <1>4. DOMAIN db = Tables /\ "metadata" \in Tables /\ DOMAIN new = Tables
    BY <1>3 DEF SaysRaw, Tables
  <1>5. ASSUME NEW r \in new.metadata, r \notin db.metadata PROVE r[2] = "other"
    <2>1. t = "metadata" /\ r \in rows
      BY <1>3, <1>4, <1>5
    <2>2. r \in Altered("metadata", row)
      BY <1>3, <2>1
    <2> QED BY <2>2 DEF Altered
  <1>6. \A r \in db.metadata : r[1] = RawRow => r[2] \in {Text(raw), "other"}
    BY DEF SaysRaw, Value
  <1> QED BY <1>4, <1>5, <1>6 DEF SaysRaw, Value

\* What an edit makes of it is not what the metadata say.
LEMMA FlipMismatch ==
  ASSUME NEW db, NEW raw, SaysRaw(db, raw)
  PROVE  Text(raw) \notin Value(Flip(db), RawRow)
  <1> SUFFICES ASSUME NEW r \in Flip(db).metadata, r[1] = RawRow, r[2] = Text(raw) PROVE FALSE
    BY DEF Value
  <1>1. DOMAIN db = Tables /\ "metadata" \in Tables
    BY DEF SaysRaw, Tables
  <1>2. PICK row \in db.metadata :
           r = <<row[1], IF row[2] = "true" THEN "false"
                         ELSE IF row[2] = "false" THEN "true" ELSE row[2]>>
    BY <1>1 DEF Flip
  <1>3. row[2] \in {Text(raw), "other"}
    BY <1>2 DEF SaysRaw, Value
  <1> QED BY <1>2, <1>3 DEF Text

LEMMA UntouchedStep ==
  ASSUME Inv, Shape, UntouchedInv, [Next]_vars, budget.edits <= 2
  PROVE  UntouchedInv'
  <1>1. budget'.edits <= budget.edits /\ budget.edits \in Nat /\ budget'.edits \in Nat
        /\ option' = option
    BY BudgetShrinks, WorldStands DEF Shape, world
  <1> SUFFICES ASSUME budget'.edits = 2, budget.edits = 2, NEW g \in Generators
        PROVE  /\ dir'[g].db # Nothing => SaysRaw(dir'[g].db, option[g].raw)
               /\ dir'[g].metadata # Nothing => dir'[g].metadata.raw = option[g].raw
    BY <1>1 DEF UntouchedInv
  <1>2. /\ dir[g].db # Nothing => SaysRaw(dir[g].db, option[g].raw)
        /\ dir[g].metadata # Nothing => dir[g].metadata.raw = option[g].raw
    BY DEF UntouchedInv
  <1>3. CASE dir'[g] = dir[g]
    BY <1>2, <1>3
  <1>4. ASSUME NEW h \in Generators, Generate(h) \/ Surroundings(h), h # g PROVE dir'[g] = dir[g]
    BY <1>4, OthersUntouched DEF Own
  <1>5. CASE Generate(g) \/ Surroundings(g)
    <2>1. ~Edit(g)
      BY DEF Edit, Spend, Shape
    <2>2. DatabaseBecomes(g) /\ MetadataBecome(g)
      BY <1>5, OwnFiles
    <2>3. dir'[g].db # Nothing => SaysRaw(dir'[g].db, option[g].raw)
      BY <1>2, <2>1, <2>2, PersistedRaw, DriftRaw DEF DatabaseBecomes
    <2>4. dir'[g].metadata # Nothing => dir'[g].metadata.raw = option[g].raw
      BY <1>2, <2>1, <2>2 DEF MetadataBecome, Metadata, MetadataOf
    <2> QED BY <2>3, <2>4
  <1>6. ASSUME NEW p \in Processes, VerifyCase(p) PROVE dir'[g] = dir[g]
    BY <1>6, VerifyUntouched
  <1>7. CASE Squat \/ StartReader \/ UNCHANGED vars
    BY <1>3, <1>7 DEF Squat, StartReader, vars
  <1> QED BY <1>3, <1>4, <1>5, <1>6, <1>7 DEF Next

\* A verification goes on.
Live(p) == p = Reader \/ pc[p] = "verify"

\* The database under a verification before it is opened: the one of the
\* manifest, with metadata that nobody edited while two edits are left; or that
\* one after an edit; or no edit is left; or it is gone.
BeforeOpening(p) ==
  LET manifest == check[p].manifest
      db       == Files(p).db
  IN  \/ db = manifest.db /\ (budget.edits > 1 => SaysRaw(manifest.db, manifest.metadata.raw))
      \/ /\ budget.edits = 1 /\ db = Flip(manifest.db)
         /\ SaysRaw(manifest.db, manifest.metadata.raw)
      \/ budget.edits = 0
      \/ db = Nothing

\* After it was opened: the manifest has what was opened, or the database was
\* edited for the last time before, or it is gone.
AfterOpening(p) ==
  LET manifest == check[p].manifest
      db       == Files(p).db
  IN  \/ DatabaseContract(manifest.db, manifest.metadata)
      \/ budget.edits = 0 /\ DatabaseContract(db, manifest.metadata)
      \/ db = Nothing

AgreesOf(p) ==
  LET manifest == check[p].manifest
      metadata == check[p].metadata
      step     == check[p].step
  IN
  /\ step \in {"database", "rehash", "files", "accepted"} => metadata = manifest.metadata
  /\ step \in {"metadata", "database", "rehash"} => manifest.db # Nothing
  /\ step \in {"metadata", "database"} /\ Live(p) => BeforeOpening(p)
  /\ step = "rehash" /\ Live(p) => AfterOpening(p)
  /\ step = "files" => DatabaseContract(manifest.db, manifest.metadata)
  /\ step = "accepted" /\ manifest.metadata.contract = "v2" =>
       /\ DatabaseContract(manifest.db, manifest.metadata)
       /\ manifest.raw = IF manifest.metadata.raw
                         THEN RawDescriptors(manifest.ledger.evidence) ELSE {}
       /\ manifest.extra = Nothing

AgreesInv == \A p \in Processes : AgreesOf(p)

\* The database under a verification stays, is edited or goes.
FilesBecome(p) ==
  \/ Files(p)'.db = Files(p).db
  \/ Files(p)'.db = Nothing
  \/ /\ budget'.edits < budget.edits /\ Files(p).db # Nothing
     /\ Files(p)'.db = Flip(Files(p).db)

\* A process at rest, while others act: its verification stands.
LEMMA AgreesStands ==
  ASSUME Shape, NEW p \in Processes, AgreesOf(p), budget.edits <= 2,
         budget'.edits \in Nat, budget'.edits <= budget.edits,
         check'[p] = check[p],
         check[p].step \in {"metadata", "database", "rehash"} /\ Live(p)' =>
           Live(p) /\ FilesBecome(p)
  PROVE  AgreesOf(p)'
  <1>1. budget.edits \in Nat
    BY DEF Shape
  <1> DEFINE manifest == check[p].manifest
             db == Files(p).db
             new == Files(p)'.db
             left == budget.edits
             after == budget'.edits
  <1>2. ASSUME check[p].step \in {"metadata", "database"}, Live(p)' PROVE BeforeOpening(p)'
    <2>1. \/ db = manifest.db /\ (left > 1 => SaysRaw(manifest.db, manifest.metadata.raw))
          \/ /\ left = 1 /\ db = Flip(manifest.db)
             /\ SaysRaw(manifest.db, manifest.metadata.raw)
          \/ left = 0
          \/ db = Nothing
      BY <1>2 DEF AgreesOf, BeforeOpening
    <2>2. new = db \/ new = Nothing \/ (after < left /\ db # Nothing /\ new = Flip(db))
      BY <1>2 DEF FilesBecome
    <2>3. \/ new = manifest.db /\ (after > 1 => SaysRaw(manifest.db, manifest.metadata.raw))
          \/ /\ after = 1 /\ new = Flip(manifest.db)
             /\ SaysRaw(manifest.db, manifest.metadata.raw)
          \/ after = 0
          \/ new = Nothing
      <3> HIDE DEF manifest, db, new, left, after
      <3>1. left \in Nat /\ left <= 2 /\ after \in Nat /\ after <= left
        BY <1>1 DEF left, after
      <3>2. after = 0 \/ (after = 1 /\ left = 1) \/ (after = 1 /\ left = 2) \/ (after = 2 /\ left = 2)
        BY <3>1
      <3> QED BY <2>1, <2>2, <3>2
    <2>4. check'[p].manifest = manifest
      OBVIOUS
    <2> QED BY <2>3, <2>4 DEF BeforeOpening
  <1>3. ASSUME check[p].step = "rehash", Live(p)' PROVE AfterOpening(p)'
    <2>1. \/ DatabaseContract(manifest.db, manifest.metadata)
          \/ left = 0 /\ DatabaseContract(db, manifest.metadata)
          \/ db = Nothing
      BY <1>3 DEF AgreesOf, AfterOpening
    <2>2. new = db \/ new = Nothing \/ (after < left /\ db # Nothing /\ new = Flip(db))
      BY <1>3 DEF FilesBecome
    <2>3. \/ DatabaseContract(manifest.db, manifest.metadata)
          \/ after = 0 /\ DatabaseContract(new, manifest.metadata)
          \/ new = Nothing
      <3> HIDE DEF manifest, db, new, left, after
      <3>1. left \in Nat /\ after \in Nat /\ after <= left
        BY <1>1 DEF left, after
      <3>2. left = 0 => after = 0 /\ ~(after < left)
        BY <3>1
      <3> QED BY <2>1, <2>2, <3>2
    <2>4. check'[p].manifest = manifest
      OBVIOUS
    <2> QED BY <2>3, <2>4 DEF AfterOpening
  <1> QED BY <1>2, <1>3 DEF AgreesOf

\* Steps that leave a verification and its files alone.
LEMMA SameFiles ==
  ASSUME NEW p \in Processes, UNCHANGED <<target, staging, dir>>
  PROVE  FilesBecome(p)
  BY DEF FilesBecome, Files, Verified

\* A verifying command sees an edit, or its directory goes.
LEMMA VerifyingFiles ==
  ASSUME Inv, Shape, ForeignInv, ForeignInv', NEW g \in Generators, NEW h \in Generators,
         Generate(h) \/ Surroundings(h), check'[g] = check[g], check[g].step # "integrity",
         pc'[g] = "verify"
  PROVE  pc[g] = "verify" /\ FilesBecome(g)
  <1> USE NamesAssumption
  <1>1. /\ g # Reader /\ g # Foreign /\ staging[g] \in {g, Foreign, Nothing}
        /\ g \in Directories /\ DOMAIN pc = Generators /\ DOMAIN staging = Generators
        /\ DOMAIN check = Processes /\ g \in Processes /\ DOMAIN check[g] = FrameNames
    <2>1. DOMAIN check = Processes /\ g \in Processes /\ DOMAIN check[g] = FrameNames
      BY DEF Shape, Processes
    <2> QED BY <2>1 DEF Inv, PathsType, StagingInv, Directories
  <1>2. staging[g] = Foreign /\ pc[g] = "verify" => dir[Foreign].db = Nothing
    BY DEF ForeignInv, Finalizing
  <1>3. staging'[g] = Foreign => dir'[Foreign].db = Nothing
    BY DEF ForeignInv, Finalizing
  <1>4. CASE h # g
    <2>1. pc[g] = "verify" /\ staging'[g] = staging[g] /\ dir'[g] = dir[g]
      BY <1>4, OthersUntouched DEF Own
    <2> QED BY <1>1, <1>2, <1>3, <2>1 DEF FilesBecome, Files, Verified
  <1>5. CASE h = g
    <2>1. ~WriteManifest(g)
      <3>1. ASSUME WriteManifest(g) PROVE FALSE
        <4>1. check' = [check EXCEPT ![g].step = "integrity"]
          BY <1>1, <3>1 DEF WriteManifest, Refused, Failing
        <4>2. check'[g].step = "integrity"
          BY <1>1, <4>1 DEF FrameNames
        <4> QED BY <4>2
      <3> QED BY <3>1
    <2>2. ~Generate(g)
      <3>1. pc[g] # pc'[g] /\ ~WriteManifest(g) /\ Generate(g) => FALSE
        <4>1. WriteRawEvidence(g) \/ WriteCaseDatabase(g) \/ WriteEvidenceLedger(g) \/ WriteReports(g)
                => pc'[g] # "verify"
          BY <1>1, StagingPuts DEF Puts
        <4> QED BY <1>1, <4>1 DEF Generate, NewBuilder, ReprojectCaseDatabase, BeginFinalize, Claim,
                LastLook, Publish, AbortStagedCase, RemoveAll, Fails, Refused, Failing
      <3>2. pc[g] = "verify" => ~Generate(g)
        BY DEF Generate, NewBuilder, WriteRawEvidence, WriteCaseDatabase, ReprojectCaseDatabase,
           WriteEvidenceLedger, WriteReports, BeginFinalize, WriteManifest, Claim, LastLook,
           Publish, AbortStagedCase, RemoveAll
      <3> QED BY <2>1, <3>1, <3>2
    <2>3. Cancel(g) \/ Replace(g) \/ Reap(g) \/ Edit(g)
      BY <1>1, <1>5, <2>2
         DEF Surroundings, NewBuilderFails, Fault, CleanupFault, Fails, Drift, Kill, Failing
    <2>4. pc[g] = "verify"
      BY <2>3 DEF Cancel, Replace, Reap, Edit
    <2>5. CASE Cancel(g)
      BY <2>5, SameFiles, <1>1 DEF Cancel, FilesBecome, Files, Verified
    <2>6. CASE Replace(g)
      BY <1>1, <1>3, <2>6 DEF Replace, FilesBecome, Files, Verified
    <2>7. CASE Reap(g)
      BY <1>1, <2>7 DEF Reap, FilesBecome, Files, Verified, NoFiles
    <2>8. CASE Edit(g)
      <3>1. /\ dir'[g].db = dir[g].db \/ (dir[g].db # Nothing /\ dir'[g].db = Flip(dir[g].db))
            /\ \A d \in Directories \ {g} : dir'[d] = dir[d]
        BY <2>8, EditEffect
      <3>2. staging' = staging /\ budget'.edits < budget.edits
        BY <2>8 DEF Edit, Spend, Shape
      <3> QED BY <1>1, <1>2, <1>3, <2>4, <3>1, <3>2 DEF FilesBecome, Files, Verified
    <2> QED BY <2>3, <2>4, <2>5, <2>6, <2>7, <2>8
  <1> QED BY <1>4, <1>5

\* A reader sees an edit.
LEMMA ReaderFiles ==
  ASSUME Inv, Shape, TargetInv, ForeignInv, NEW h \in Generators,
         Generate(h) \/ Surroundings(h), check[Reader].step # "idle"
  PROVE  FilesBecome(Reader)
  <1> USE NamesAssumption
  <1>1. target' = target /\ target \in Generators \cup {Squatter, Foreign} /\ target # Nothing
    BY OwnPaths DEF TargetInv
  <1>2. CASE target = Squatter
    BY <1>1, <1>2, OwnFiles DEF FilesBecome, Files, Verified
  <1>3. CASE target \in Generators /\ target # h
    BY <1>1, <1>3, OthersUntouched DEF Own, FilesBecome, Files, Verified
  <1>4. CASE target = h
    <2>1. pc[h] = "done" /\ staging[h] = Nothing
      BY <1>4 DEF TargetInv, Inv, OutcomeInv
    <2>2. ~Generate(h)
      BY <2>1 DEF Generate, NewBuilder, WriteRawEvidence, WriteCaseDatabase, ReprojectCaseDatabase,
         WriteEvidenceLedger, WriteReports, BeginFinalize, WriteManifest, Claim, LastLook, Publish,
         AbortStagedCase, RemoveAll
    <2>3. Edit(h)
      BY <2>1, <2>2, NamesAssumption
         DEF Surroundings, NewBuilderFails, Fault, CleanupFault, Drift, Cancel, Kill, Replace,
             Reap, Underway
    <2>4. budget'.edits < budget.edits
      BY <2>3 DEF Edit, Spend, Shape
    <2> QED BY <1>1, <1>4, <2>3, <2>4, EditEffect DEF FilesBecome, Files, Verified
  <1>5. CASE target = Foreign
    <2>1. staging[h] # Foreign
      BY <1>5 DEF ForeignInv
    <2>2. dir'[Foreign].db = dir[Foreign].db
      BY <2>1, OwnFiles DEF ForeignBecomes
    <2> QED BY <1>1, <1>5, <2>2 DEF FilesBecome, Files, Verified
  <1> QED BY <1>1, <1>2, <1>3, <1>4, <1>5

\* A step of the verification itself.
LEMMA VerifyAgrees ==
  ASSUME Inv, Shape, TargetInv, ForeignInv, UntouchedInv, NEW p \in Processes, AgreesOf(p),
         budget.edits <= 2, VerifyCase(p)
  PROVE  AgreesOf(p)'
  <1> USE NamesAssumption
  <1>1. /\ UNCHANGED <<budget, staging, target, dir>> /\ budget.edits \in Nat
        /\ Becomes(p, "rejected", Nothing, Nothing) \/ Advance(p)
    BY VerifyUntouched, VerifyEffect DEF Shape
  <1>2. Live(p)
    BY <1>1 DEF Live, VerifyCase, VerifyManifestIntegrity, ReadMetadata, VerifyDatabase,
       RehashDatabase, VerifyFiles, VerifyStep
  <1>3. Files(p)' = Files(p)
    BY <1>1 DEF Files, Verified
  <1> DEFINE files    == Files(p)
             manifest == check[p].manifest
             metadata == check[p].metadata
             step     == check[p].step
  <1>4. CASE Becomes(p, "rejected", Nothing, Nothing)
    BY <1>4 DEF Becomes, AgreesOf
  <1>5. CASE /\ Verified(p) # Nothing /\ step = "integrity"
             /\ files.manifest = BuildManifest(Verified(p))
             /\ \A f \in Required : files.manifest[f] # Nothing
             /\ Becomes(p, "metadata", files.manifest, metadata)
    <2>1. /\ files.db # Nothing /\ files.metadata # Nothing
          /\ files.manifest.db = files.db /\ files.manifest.metadata = files.metadata
          /\ files = dir[Verified(p)]
      <3>1. files = dir[Verified(p)]
        BY <1>5 DEF Files
      <3>2. files.manifest.db = files.db /\ files.manifest.metadata = files.metadata
        BY <1>5, <3>1 DEF BuildManifest
      <3>3. files.manifest["db"] # Nothing /\ files.manifest["metadata"] # Nothing
        BY <1>5 DEF Required
      <3> QED BY <3>1, <3>2, <3>3
    <2>2. Verified(p) \in Generators
      <3>1. CASE p = Reader
        <4>1. target = Foreign => dir[Foreign].db = Nothing
          BY DEF ForeignInv
        <4> QED BY <1>5, <2>1, <3>1, <4>1 DEF Verified, TargetInv
      <3>2. CASE p # Reader
        <4>1. p \in Generators /\ pc[p] = "verify"
          BY <1>2, <3>2 DEF Processes, Live
        <4>2. staging[p] = Foreign => dir[Foreign].db = Nothing
          BY <4>1 DEF ForeignInv, Finalizing
        <4>3. staging[p] \in {p, Foreign, Nothing}
          BY <4>1 DEF Inv, StagingInv
        <4> QED BY <1>5, <2>1, <3>2, <4>1, <4>2, <4>3 DEF Verified
      <3> QED BY <3>1, <3>2
    <2>3. budget.edits > 1 => SaysRaw(files.db, files.metadata.raw)
      BY <2>1, <2>2 DEF UntouchedInv
    <2>4. check'[p].step = "metadata" /\ check'[p].manifest = files.manifest
      BY <1>5 DEF Becomes
    <2>5. BeforeOpening(p)'
      BY <1>1, <1>3, <2>1, <2>3, <2>4 DEF BeforeOpening
    <2> QED BY <2>1, <2>4, <2>5 DEF AgreesOf
  <1>6. CASE /\ step = "metadata" /\ files.metadata = manifest.metadata
             /\ Becomes(p, IF manifest.metadata.contract = "v1" THEN "accepted" ELSE "database",
                         manifest, files.metadata)
    <2>1. BeforeOpening(p) /\ manifest.db # Nothing
      BY <1>2, <1>6 DEF AgreesOf
    <2>2. check'[p].manifest = manifest /\ check'[p].metadata = manifest.metadata
      BY <1>6 DEF Becomes
    <2>3. BeforeOpening(p)'
      BY <1>1, <1>3, <2>1, <2>2 DEF BeforeOpening
    <2>4. CASE manifest.metadata.contract = "v1"
      <3>1. check'[p].step = "accepted"
        BY <1>6, <2>4 DEF Becomes
      <3> QED BY <2>2, <2>4, <3>1 DEF AgreesOf
    <2>5. CASE manifest.metadata.contract # "v1"
      <3>1. check'[p].step = "database"
        BY <1>6, <2>5 DEF Becomes
      <3> QED BY <2>1, <2>2, <2>3, <3>1 DEF AgreesOf
    <2> QED BY <2>4, <2>5
  <1>7. CASE /\ step = "database"
             /\ files.db # Nothing /\ DatabaseContract(files.db, metadata)
             /\ Becomes(p, "rehash", manifest, metadata)
    <2>1. BeforeOpening(p) /\ manifest.db # Nothing /\ metadata = manifest.metadata
      BY <1>2, <1>7 DEF AgreesOf
    <2>2. /\ check'[p].manifest = manifest /\ check'[p].metadata = manifest.metadata
          /\ check'[p].step = "rehash"
      BY <1>7, <2>1 DEF Becomes
    <2>3. Text(manifest.metadata.raw) \in Value(files.db, RawRow)
      BY <1>7, <2>1 DEF DatabaseContract, RawRow
    <2>4. \/ DatabaseContract(manifest.db, manifest.metadata)
          \/ budget.edits = 0 /\ DatabaseContract(files.db, manifest.metadata)
      BY <1>7, <2>1, <2>3, FlipMismatch DEF BeforeOpening
    <2>5. AfterOpening(p)'
      BY <1>1, <1>3, <2>2, <2>4 DEF AfterOpening
    <2> QED BY <2>1, <2>2, <2>5 DEF AgreesOf
  <1>8. CASE /\ step = "rehash" /\ files.db = manifest.db
             /\ Becomes(p, "files", manifest, metadata)
    <2>1. AfterOpening(p) /\ manifest.db # Nothing /\ metadata = manifest.metadata
      BY <1>2, <1>8 DEF AgreesOf
    <2>2. DatabaseContract(manifest.db, manifest.metadata)
      BY <1>8, <2>1 DEF AfterOpening
    <2> QED BY <1>8, <2>1, <2>2 DEF AgreesOf, Becomes
  <1>9. CASE /\ step = "files" /\ files.ledger = manifest.ledger
             /\ RawAgrees(files, manifest, metadata) /\ manifest.extra = Nothing
             /\ Becomes(p, "accepted", manifest, metadata)
    <2>1. metadata = manifest.metadata /\ DatabaseContract(manifest.db, manifest.metadata)
      BY <1>9 DEF AgreesOf
    <2>2. manifest.raw = IF manifest.metadata.raw
                         THEN RawDescriptors(manifest.ledger.evidence) ELSE {}
      BY <1>9, <2>1 DEF RawAgrees
    <2> QED BY <1>9, <2>1, <2>2 DEF AgreesOf, Becomes
  <1> QED BY <1>1, <1>4, <1>5, <1>6, <1>7, <1>8, <1>9 DEF Advance

\* A step of a command starts or forgets its own verification at most.
LEMMA OwnCheck ==
  ASSUME Shape, NEW g \in Generators, Generate(g) \/ Surroundings(g)
  PROVE  \/ check'[g] = check[g]
         \/ check'[g].step \in {"integrity", "idle"}
  <1>1. DOMAIN check = Processes /\ g \in Processes /\ DOMAIN check[g] = FrameNames
    BY DEF Shape, Processes
  <1>2. CASE WriteManifest(g)
    BY <1>1, <1>2 DEF WriteManifest, Refused, FrameNames
  <1>3. CASE Kill(g)
    BY <1>1, <1>3 DEF Kill, NoCheck
  <1>4. CASE check' = check
    BY <1>4
  <1>5. ~WriteManifest(g) /\ ~Kill(g) => check' = check
    BY DEF Generate, Surroundings, NewBuilder, WriteRawEvidence, WriteCaseDatabase,
       ReprojectCaseDatabase, WriteEvidenceLedger, WriteReports, BeginFinalize, Claim, LastLook,
       Publish, AbortStagedCase, RemoveAll, Stage, Refused, NewBuilderFails, Fault, CleanupFault,
       Drift, Cancel, Replace, Reap, Edit
  <1> QED BY <1>2, <1>3, <1>4, <1>5

\* Every step keeps what the verifications found.
LEMMA AgreesStep ==
  ASSUME Inv, Shape, TargetInv, ForeignInv, UntouchedInv, AgreesInv, budget.edits <= 2,
         [Next]_vars
  PROVE  AgreesInv'
  <1> USE NamesAssumption
  <1>1. budget'.edits \in Nat /\ budget'.edits <= budget.edits
    BY BudgetShrinks
  <1>2. ForeignInv'
    BY PlacesStep
  <1> SUFFICES ASSUME NEW p \in Processes PROVE AgreesOf(p)'
    BY DEF AgreesInv
  <1>3. AgreesOf(p)
    BY DEF AgreesInv
  <1>4. ASSUME check'[p].step \in {"integrity", "idle"} PROVE AgreesOf(p)'
    BY <1>4 DEF AgreesOf
  <1>5. ASSUME NEW h \in Generators, Generate(h) \/ Surroundings(h) PROVE AgreesOf(p)'
    <2>1. CASE p = Reader
      <3>1. check'[Reader] = check[Reader]
        BY <1>5, OthersUntouched
      <3>2. check[Reader].step # "idle" => FilesBecome(Reader)
        BY <1>5, ReaderFiles
      <3> QED BY <1>1, <1>3, <2>1, <3>1, <3>2, AgreesStands DEF Live
    <2>2. CASE p \in Generators
      <3>1. CASE check'[p] = check[p]
        <4>1. check[p].step # "integrity" /\ pc'[p] = "verify" => pc[p] = "verify" /\ FilesBecome(p)
          BY <1>2, <1>5, <2>2, <3>1, VerifyingFiles
        <4> QED BY <1>1, <1>3, <2>2, <3>1, <4>1, AgreesStands DEF Live
      <3>2. CASE check'[p] # check[p]
        <4>1. p = h
          BY <1>5, <2>2, <3>2, OthersUntouched DEF Own
        <4> QED BY <1>4, <1>5, <3>2, <4>1, OwnCheck
      <3> QED BY <3>1, <3>2
    <2> QED BY <2>1, <2>2 DEF Processes
  <1>6. ASSUME NEW q \in Processes, VerifyCase(q) PROVE AgreesOf(p)'
    <2>1. CASE q = p
      BY <1>3, <1>6, <2>1, VerifyAgrees
    <2>2. CASE q # p
      <3>1. check'[p] = check[p] /\ FilesBecome(p)
        BY <1>6, <2>2, VerifyUntouched, SameFiles
      <3>2. Live(p)' => Live(p)
        BY <1>6, <2>2, VerifyUntouched DEF Live, Own, Processes
      <3> QED BY <1>1, <1>3, <3>1, <3>2, AgreesStands
    <2> QED BY <2>1, <2>2
  <1>7. CASE Squat
    <2>1. check' = check /\ UNCHANGED <<pc, staging, dir>> /\ target = Nothing
      BY <1>7 DEF Squat
    <2>2. check[p].step # "idle" => FilesBecome(p)
      BY <2>1 DEF TargetInv, FilesBecome, Files, Verified
    <2> QED BY <1>1, <1>3, <2>1, <2>2, AgreesStands DEF Live
  <1>8. CASE StartReader
    <2>1. CASE p = Reader
      <3>1. DOMAIN check = Processes /\ DOMAIN check[p] = FrameNames
        BY DEF Shape
      <3>2. check' = [check EXCEPT ![p].step = "integrity"]
        BY <1>8, <2>1 DEF StartReader
      <3>3. check'[p].step = "integrity"
        BY <3>1, <3>2 DEF FrameNames
      <3> QED BY <1>4, <3>3
    <2>2. CASE p # Reader
      <3>1. check'[p] = check[p] /\ UNCHANGED <<target, staging, dir, pc>>
        BY <1>8, <2>2 DEF StartReader, Shape
      <3> QED BY <1>1, <1>3, <3>1, SameFiles, AgreesStands DEF Live
    <2> QED BY <2>1, <2>2
  <1>9. CASE UNCHANGED vars
    <2>1. UNCHANGED <<check, target, staging, dir, pc>>
      BY <1>9 DEF vars
    <2> QED BY <1>1, <1>3, <2>1, SameFiles, AgreesStands DEF Live
  <1> QED BY <1>5, <1>6, <1>7, <1>8, <1>9 DEF Next

\* What a verification accepts fits together as the manifest has it, although
\* every file is read at another moment (VerifyCase), as long as an editor
\* interferes at most twice.
THEOREM AcceptedTheorem ==
  ScenariosAreCounts /\ TwoEdits => (Spec => []AcceptedAgrees)
  <1> SUFFICES ASSUME ScenariosAreCounts, TwoEdits PROVE Spec => []AcceptedAgrees
    OBVIOUS
  <1> DEFINE Trail == TargetInv /\ ForeignInv /\ UntouchedInv /\ AgreesInv /\ budget.edits <= 2
  <1>1. Init => Trail
    BY NamesAssumption
       DEF Init, TargetInv, ForeignInv, UntouchedInv, AgreesInv, AgreesOf, TwoEdits, NoFiles,
           NoCheck, Directories, Processes
  <1>2. Trail => AcceptedAgrees
    BY DEF AgreesInv, AgreesOf, AcceptedAgrees
  <1>3. Spec => [](Inv /\ Shape)
    BY ShapeInv
  <1>4. Inv /\ Shape /\ Trail /\ [Next]_vars => Trail'
    <2> SUFFICES ASSUME Inv, Shape, Trail, [Next]_vars PROVE Trail'
      OBVIOUS
    <2>1. budget'.edits <= budget.edits /\ budget'.edits \in Nat /\ budget.edits \in Nat
      BY BudgetShrinks DEF Shape
    <2>2. budget'.edits <= 2
      BY <2>1
    <2> QED BY <2>2, PlacesStep, UntouchedStep, AgreesStep
  <1> HIDE DEF Trail
  <1> QED BY <1>1, <1>2, <1>3, <1>4, PTL DEF Spec

-----------------------------------------------------------------------------
(* That one command publishes.                                              *)

\* The projection and the verification accept a database as it is written.
LEMMA WrittenIsAccepted ==
  ASSUME NEW s, WellFormed(s), NEW name, NEW raw, NEW metadata,
         metadata.case = name, metadata.raw = raw, metadata.kind = CaseKind(s.sessions)
  PROVE  LET db == PersistCase(s, name, raw) IN
         /\ Reprojects(db, name, GraphOf(s.sessions, s.facts, s.findings))
         /\ DatabaseContract(db, metadata)
  <1> DEFINE db == PersistCase(s, name, raw)
  <1>0. /\ db.batches = {[content |-> s.facts, state |-> "COMMITTED"]}
        /\ db.batchSessions = {c.id : c \in s.sessions}
        /\ db.batchFacts = {f.id : f \in s.facts}
        /\ db.facts = {FactRow(f) : f \in s.facts}
        /\ db.links = UNION {{f.id} \X f.evidence : f \in s.facts}
        /\ db.coverage = {CoverageRow(f) : f \in OfKind(s.facts, "coverage")}
        /\ db.metadata = {<<"case_id", name>>, <<"case_raw_materialized", Text(raw)>>}
        /\ db.sessions = s.sessions
        /\ db.repositories = OfKind(s.facts, "repository")
        /\ db.packs = {"pack"} /\ db.analyses = {name}
        /\ db.revisions = {PersistFinding(n) : n \in s.findings}
        /\ db.selected = {n.id : n \in s.findings}
        /\ db.support = UNION {{n.id} \X n.evidence : n \in s.findings}
        /\ db.covered = UNION {{n.id} \X n.coverage : n \in s.findings}
        /\ db.edges = {GraphOf(s.sessions, s.facts, s.findings)}
    BY PersistedRows
  <1> HIDE DEF db
  <1>1. Committed(db)
    BY <1>0 DEF Committed
  <1>2. LoadedSessions(db) = s.sessions /\ SessionsCommitted(db)
    <2>1. LoadedSessions(db) = s.sessions
      BY <1>0, <1>1 DEF LoadedSessions
    <2> QED BY <1>0, <2>1 DEF SessionsCommitted, WellFormed
  <1>3. LoadedFacts(db) = s.facts
    <2>1. \A f \in s.facts : FactRow(f).fact = f
      BY DEF FactRow
    <2>2. ASSUME NEW f \in s.facts PROVE f \in LoadedFacts(db)
      <3>1. FactRow(f) \in db.facts /\ FactRow(f).fact.id \in db.batchFacts
        BY <1>0, <2>1
      <3> QED BY <1>1, <2>1, <3>1 DEF LoadedFacts
    <2>3. ASSUME NEW f \in LoadedFacts(db) PROVE f \in s.facts
      <3>1. PICK r \in db.facts : f = r.fact
        BY DEF LoadedFacts
      <3> QED BY <1>0, <2>1, <3>1
    <2> QED BY <2>2, <2>3
  <1>4. FactsAgree(db)
    <2>1. \A r \in db.facts : r.columns = r.fact.id
      BY <1>0 DEF FactRow
    <2>2. Cardinality(s.facts) = Cardinality(db.facts)
      <3>1. IsFiniteSet(s.facts)
        BY DEF WellFormed
      <3>2. [f \in s.facts |-> FactRow(f)] \in Bijection(s.facts, db.facts)
        BY <1>0 DEF FactRow, Bijection, Injection, Surjection, IsInjective
      <3>3. ExistsBijection(s.facts, db.facts)
        BY <3>2 DEF ExistsBijection
      <3> QED BY <3>1, <3>3, FS_Bijection
    <2> QED BY <1>3, <2>1, <2>2 DEF FactsAgree
  <1>5. LinksAgree(db) /\ CoverageAgrees(db)
    BY <1>0, <1>3 DEF LinksAgree, CoverageAgrees
  <1>6. BatchAgrees(db)
    <2>1. Cardinality(db.batches) = 1
      <3>1. \A b : Cardinality({b}) = 1
        BY FS_Singleton
      <3> QED BY <1>0, <3>1
    <2> QED BY <1>0, <1>3, <2>1 DEF BatchAgrees
  <1>7. ASSUME NEW n \in s.findings
        PROVE  /\ LinkedTo(db.support, n.id) = n.evidence
               /\ LinkedTo(db.covered, n.id) = n.coverage
    <2>1. \A m \in s.findings : m.id = n.id => m = n
      BY DEF WellFormed
    <2>2. ASSUME NEW e PROVE e \in LinkedTo(db.support, n.id) <=> e \in n.evidence
      <3>1. ASSUME e \in n.evidence PROVE e \in LinkedTo(db.support, n.id)
        <4>1. <<n.id, e>> \in {n.id} \X n.evidence
          BY <3>1
        <4>2. <<n.id, e>> \in db.support
          BY <1>0, <4>1
        <4> QED BY <4>2 DEF LinkedTo
      <3>2. ASSUME e \in LinkedTo(db.support, n.id) PROVE e \in n.evidence
        <4>1. PICK link \in db.support : link[1] = n.id /\ link[2] = e
          BY <3>2 DEF LinkedTo
        <4>2. PICK m \in s.findings : link \in {m.id} \X m.evidence
          BY <1>0, <4>1
        <4> QED BY <2>1, <4>1, <4>2
      <3> QED BY <3>1, <3>2
    <2>3. ASSUME NEW e PROVE e \in LinkedTo(db.covered, n.id) <=> e \in n.coverage
      <3>1. ASSUME e \in n.coverage PROVE e \in LinkedTo(db.covered, n.id)
        <4>1. <<n.id, e>> \in {n.id} \X n.coverage
          BY <3>1
        <4>2. <<n.id, e>> \in db.covered
          BY <1>0, <4>1
        <4> QED BY <4>2 DEF LinkedTo
      <3>2. ASSUME e \in LinkedTo(db.covered, n.id) PROVE e \in n.coverage
        <4>1. PICK link \in db.covered : link[1] = n.id /\ link[2] = e
          BY <3>2 DEF LinkedTo
        <4>2. PICK m \in s.findings : link \in {m.id} \X m.coverage
          BY <1>0, <4>1
        <4> QED BY <2>1, <4>1, <4>2
      <3> QED BY <3>1, <3>2
    <2> QED BY <2>2, <2>3
  <1>8. SelectedRevisions(db) = {PersistFinding(n) : n \in s.findings}
    BY <1>0 DEF SelectedRevisions, PersistFinding
  <1>9. \A n \in s.findings : PersistFinding(n).id = n.id /\ PersistFinding(n).coverage = n.coverage
    BY DEF PersistFinding
  <1>10. FindingsAgree(db)
    <2>1. ASSUME NEW r \in SelectedRevisions(db)
          PROVE  db.repositories # {} /\ LinkedTo(db.covered, r.id) = r.coverage
      <3>1. PICK n \in s.findings : r = PersistFinding(n)
        BY <1>8
      <3>2. db.repositories # {}
        BY <1>0, <3>1 DEF WellFormed
      <3> QED BY <1>7, <1>9, <3>1, <3>2
    <2> QED BY <2>1 DEF FindingsAgree
  <1>11. LoadedFindings(db) = s.findings
    <2> DEFINE Loaded(r) == [id |-> r.id, evidence |-> LinkedTo(db.support, r.id),
                             coverage |-> LinkedTo(db.covered, r.id)]
    <2>1. \A n \in s.findings : Loaded(PersistFinding(n)) = n
      BY <1>7, <1>9 DEF WellFormed
    <2>2. LoadedFindings(db) = {Loaded(r) : r \in SelectedRevisions(db)}
      BY DEF LoadedFindings
    <2> HIDE DEF Loaded
    <2> QED BY <1>8, <2>1, <2>2
  <1>12. ReprojectedGraph(db) = GraphOf(s.sessions, s.facts, s.findings)
    BY <1>2, <1>3, <1>11 DEF ReprojectedGraph
  <1>13. Value(db, "case_id") = {name} /\ Value(db, "case_raw_materialized") = {Text(raw)}
    <2> DEFINE named == <<"case_id", name>>
               flagged == <<"case_raw_materialized", Text(raw)>>
    <2>1. \A r \in db.metadata : /\ r[1] = "case_id" <=> r = named
                                 /\ r[1] = "case_raw_materialized" <=> r = flagged
      BY <1>0
    <2>2. named \in db.metadata /\ flagged \in db.metadata
      BY <1>0
    <2>3. named[2] = name /\ flagged[2] = Text(raw)
      OBVIOUS
    <2> HIDE DEF named, flagged
    <2>4. /\ {r \in db.metadata : r[1] = "case_id"} = {named}
          /\ {r \in db.metadata : r[1] = "case_raw_materialized"} = {flagged}
      BY <2>1, <2>2
    <2> QED BY <2>3, <2>4 DEF Value
  <1>14. Reprojects(db, name, GraphOf(s.sessions, s.facts, s.findings))
    <2>1. ProvenanceAgrees(db, name)
      BY <1>0, <1>13 DEF ProvenanceAgrees
    <2>2. Accepts(db)
      BY <1>2, <1>4, <1>5, <1>6, <1>10 DEF Accepts
    <2> QED BY <1>0, <1>11, <1>12, <2>1, <2>2 DEF Reprojects, GraphOf
  <1>15. DatabaseContract(db, metadata)
    BY <1>0, <1>2, <1>13 DEF DatabaseContract
  <1> QED BY <1>14, <1>15 DEF db

-----------------------------------------------------------------------------
(* A command that nothing befalls.                                         *)

Case(g) == CaseFiles(Snapshot, option[g])

\* What a command has staged when it comes to its next step.
AsWritten(g) ==
  LET files == dir[g] IN
  /\ files.raw = IF ~option[g].raw THEN Nothing
                 ELSE IF pc[g] = "raw" THEN {} ELSE Case(g).raw
  /\ files.db = IF pc[g] \in {"raw", "database"} THEN Nothing ELSE Case(g).db
  /\ files.ledger = IF pc[g] \in {"raw", "database", "project", "ledger"}
                    THEN Nothing ELSE Case(g).ledger
  /\ IF pc[g] \in {"raw", "database", "project", "ledger", "reports"}
     THEN files.metadata = Nothing /\ files.reports = Nothing
     ELSE files.metadata = Case(g).metadata /\ files.reports = Case(g).reports
  /\ files.extra = Nothing
  /\ files.manifest = IF pc[g] \in {"verify", "claim", "publish", "rename"}
                       THEN Case(g) ELSE Nothing

\* What its verification has found.
Checking(g) ==
  /\ check[g].step \in {"integrity", "metadata", "database", "rehash", "files"}
  /\ check[g].step # "integrity" => check[g].manifest = Case(g)
  /\ check[g].step \in {"database", "rehash", "files"} => check[g].metadata = Metadata(g)

CalmOf(g) ==
  /\ g \notin cancelled /\ pc[g] # "dead"
  /\ pc[g] = "begin" => dir[g] = NoFiles /\ projected[g] = Nothing
  /\ pc[g] \in Working \ {"abort", "remove"} =>
       /\ staging[g] = g /\ AsWritten(g) /\ projected[g] \in {Nothing, Case(g).db}
  /\ pc[g] = "verify" => Checking(g)
  /\ pc[g] = "claim" => check[g].metadata = Metadata(g)
  /\ pc[g] \in {"abort", "remove"} \/ outcome[g] = "error" => target # Nothing
  /\ pc[g] = "done" => outcome[g] # Nothing

\* What the commands were given.
Given ==
  /\ archive \in Archives /\ option \in [Generators -> Contracts]
  /\ ~Conflicts(Snapshot)

LEMMA CaseFilesOf ==
  ASSUME Given, NEW g \in Generators
  PROVE  /\ WellFormed(Snapshot)
         /\ Case(g).db = PersistCase(Snapshot, case, option[g].raw)
         /\ Case(g).ledger = [evidence |-> Snapshot.evidence, findings |-> Snapshot.findings]
         /\ Case(g).metadata = Metadata(g)
         /\ Case(g).reports = Expected
         /\ Case(g).raw = (IF option[g].raw THEN RawDescriptors(Snapshot.evidence) ELSE {})
         /\ Case(g).extra = Nothing
         /\ {} # Nothing /\ Case(g) # Nothing
         /\ \A f \in {"db", "ledger", "metadata", "reports", "raw"} : Case(g)[f] # Nothing
         /\ Expected.findings = Snapshot.findings
  <1>1. option[g] \in Contracts /\ archive \in Archives
    BY DEF Given
  <1>2. WellFormed(Snapshot)
    BY <1>1, ArchivesAssumption DEF Snapshot
  <1>3. /\ {} # Nothing /\ Case(g) # Nothing
        /\ \A f \in {"db", "ledger", "metadata", "reports", "raw"} : Case(g)[f] # Nothing
    BY <1>1, FilesAssumption DEF Case, Snapshot
  <1>4. /\ Case(g).db = PersistCase(Snapshot, case, option[g].raw)
        /\ Case(g).ledger = [evidence |-> Snapshot.evidence, findings |-> Snapshot.findings]
        /\ Case(g).metadata = Metadata(g)
        /\ Case(g).reports = Expected
        /\ Case(g).raw = (IF option[g].raw THEN RawDescriptors(Snapshot.evidence) ELSE {})
        /\ Case(g).extra = Nothing
    BY DEF Case, CaseFiles, Expected, Metadata
  <1>5. Expected.findings = Snapshot.findings
    BY DEF Expected, GraphOf
  <1> QED BY <1>2, <1>3, <1>4, <1>5

\* What a step that stages files leaves as it was.
LEMMA StageEffect ==
  ASSUME Inv, Shape, NEW g \in Generators, staging[g] = g, NEW files,
         DOMAIN files \subseteq FileNames, NEW next, Stage(g, files, next)
  PROVE  /\ pc'[g] = next /\ UNCHANGED <<cancelled, staging, target, check, outcome>>
         /\ \A f \in FileNames : dir'[g][f] = IF f \in DOMAIN files THEN files[f] ELSE dir[g][f]
  <1>1. /\ g \in Directories
        /\ pc \in [Generators -> Working \cup {"begin", "unbuilt", "done", "dead"}]
    BY DEF Directories, Inv, PathsType
  <1>2. dir' = [dir EXCEPT ![g] = Over(files, @)]
    BY DEF Stage
  <1>3. \A f \in FileNames : dir'[g][f] = IF f \in DOMAIN files THEN files[f] ELSE dir[g][f]
    BY <1>1, <1>2, StagedFiles
  <1> QED BY <1>1, <1>3 DEF Stage, fixed

\* A command begins, or finds a case.
LEMMA BeginsCalm ==
  ASSUME Inv, Shape, Given, NEW g \in Generators, CalmOf(g), NewBuilder(g), Given'
  PROVE  CalmOf(g)'
  <1>1. /\ pc[g] = "begin" /\ dir[g] = NoFiles /\ projected[g] = Nothing
        /\ outcome[g] = Nothing /\ g \notin cancelled
    BY NamesAssumption DEF NewBuilder, CalmOf, Inv, PathsType, OutcomeInv
  <1>2. /\ UNCHANGED <<world, cancelled, target, projected>>
        /\ pc \in [Generators -> Working \cup {"begin", "unbuilt", "done", "dead"}]
        /\ DOMAIN staging = Generators /\ DOMAIN outcome = Generators /\ g \in DOMAIN dir
    BY DEF NewBuilder, Inv, PathsType, Shape, Directories, fixed
  <1>3. CASE target = Nothing
    <2>1. /\ pc'[g] = "raw" /\ staging'[g] = g /\ outcome'[g] = Nothing
          /\ dir'[g] = [NoFiles EXCEPT !.raw = IF option[g].raw THEN {} ELSE Nothing]
      BY <1>1, <1>2, <1>3 DEF NewBuilder
    <2>2. AsWritten(g)'
      BY <1>2, <2>1 DEF AsWritten, NoFiles, world
    <2> QED BY <1>1, <1>2, <2>1, <2>2, NamesAssumption DEF CalmOf
  <1>4. CASE target # Nothing
    BY <1>1, <1>2, <1>4, NamesAssumption DEF NewBuilder, CalmOf, Working
  <1> QED BY <1>3, <1>4

\* The steps that write files, one after the other: none of them fails.
LEMMA WritesCalm ==
  ASSUME Inv, Shape, Given, NEW g \in Generators, CalmOf(g), UNCHANGED world,
         \/ WriteRawEvidence(g) \/ WriteCaseDatabase(g) \/ ReprojectCaseDatabase(g)
         \/ WriteEvidenceLedger(g) \/ WriteReports(g)
  PROVE  CalmOf(g)'
  <1>1. /\ pc[g] \in {"raw", "database", "project", "ledger", "reports"}
        /\ staging[g] = g /\ AsWritten(g) /\ projected[g] \in {Nothing, Case(g).db}
        /\ g \notin cancelled /\ outcome[g] = Nothing
    <2>1. pc[g] \in {"raw", "database", "project", "ledger", "reports"}
      BY DEF WriteRawEvidence, WriteCaseDatabase, ReprojectCaseDatabase, WriteEvidenceLedger,
             WriteReports
    <2> QED BY <2>1 DEF CalmOf, Working, Inv, PathsType, OutcomeInv
  <1>2. Case(g)' = Case(g)
    BY DEF Case, Snapshot, world
  <1>3. /\ g # Nothing /\ ~Interrupted(g) /\ Staged(g) = dir[g]
        /\ DOMAIN pc = Generators /\ DOMAIN projected = Generators
    BY <1>1, NamesAssumption DEF Interrupted, Staged, Inv, PathsType, Shape
  <1>4. /\ Case(g).db = PersistCase(Snapshot, case, option[g].raw)
        /\ Case(g).ledger = [evidence |-> Snapshot.evidence, findings |-> Snapshot.findings]
        /\ Case(g).metadata = Metadata(g)
        /\ Case(g).reports = Expected
        /\ Case(g).raw = (IF option[g].raw THEN RawDescriptors(Snapshot.evidence) ELSE {})
        /\ {} # Nothing /\ Expected.findings = Snapshot.findings
        /\ Case(g).db # Nothing
    BY CaseFilesOf
  <1>5. Reprojects(Case(g).db, case, Expected)
    <2>1. WellFormed(Snapshot)
      BY CaseFilesOf
    <2>2. /\ Metadata(g).case = case /\ Metadata(g).raw = option[g].raw
          /\ Metadata(g).kind = CaseKind(Snapshot.sessions)
      BY DEF Metadata, MetadataOf
    <2> QED BY <1>4, <2>1, <2>2, WrittenIsAccepted DEF Expected
  <1>6. Rehydrated(g) = Expected
    BY <1>1, <1>4, <1>5 DEF Rehydrated, Reprojects
  <1>7. ASSUME AsWritten(g)', pc'[g] \in {"database", "project", "ledger", "reports", "finalize"},
               UNCHANGED <<cancelled, staging, outcome>>,
               projected'[g] \in {Nothing, Case(g).db}
        PROVE  CalmOf(g)'
    BY <1>1, <1>2, <1>7, NamesAssumption DEF CalmOf
  <1>8. CASE WriteRawEvidence(g)
    <2>1. CASE ~option[g].raw
      <3>1. /\ pc'[g] = "database" /\ UNCHANGED <<cancelled, staging, outcome, dir, projected>>
            /\ pc[g] = "raw"
        BY <1>3, <1>8, <2>1 DEF WriteRawEvidence
      <3>2. AsWritten(g)'
        BY <1>1, <1>2, <2>1, <3>1 DEF AsWritten, world
      <3> QED BY <1>1, <1>7, <3>1, <3>2
    <2>2. CASE option[g].raw
      <3> DEFINE digests == RawDescriptors(Snapshot.evidence)
      <3>1. pc[g] = "raw" /\ dir[g].raw = {}
        BY <1>1, <1>8, <2>2 DEF WriteRawEvidence, AsWritten
      <3>2. Stage(g, [raw |-> digests], "database") /\ projected' = projected
        <4>1. {} \cup digests = digests
          OBVIOUS
        <4> HIDE DEF digests
        <4>2. Stage(g, [raw |-> {} \cup digests], "database") /\ projected' = projected
          BY <1>1, <1>3, <1>4, <1>8, <2>2, <3>1 DEF WriteRawEvidence, digests
        <4> QED BY <4>1, <4>2
      <3> HIDE DEF digests
      <3>3. /\ pc'[g] = "database" /\ UNCHANGED <<cancelled, staging, target, check, outcome>>
            /\ \A f \in FileNames : dir'[g][f] = IF f = "raw" THEN digests ELSE dir[g][f]
        BY <1>1, <3>2, StageEffect DEF FileNames
      <3>4. AsWritten(g)'
        BY <1>1, <1>2, <1>4, <2>2, <3>1, <3>3 DEF AsWritten, FileNames, world, digests
      <3> QED BY <1>1, <1>7, <3>2, <3>3, <3>4
    <2> QED BY <2>1, <2>2
  <1>9. CASE WriteCaseDatabase(g)
    <2> DEFINE next == IF option[g].contract = "v2" THEN "project" ELSE "ledger"
    <2>1. pc[g] = "database" /\ dir[g].db = Nothing
      BY <1>1, <1>9 DEF WriteCaseDatabase, AsWritten
    <2>2. Stage(g, [db |-> Case(g).db], next) /\ projected' = projected
      BY <1>1, <1>3, <1>4, <1>9, <2>1 DEF WriteCaseDatabase, CanCreate, Given
    <2>3. /\ pc'[g] = next /\ UNCHANGED <<cancelled, staging, target, check, outcome>>
          /\ \A f \in FileNames : dir'[g][f] = IF f = "db" THEN Case(g).db ELSE dir[g][f]
      BY <1>1, <2>2, StageEffect DEF FileNames
    <2>4. AsWritten(g)'
      BY <1>1, <1>2, <2>1, <2>3 DEF AsWritten, FileNames, world
    <2> QED BY <1>1, <1>7, <2>2, <2>3, <2>4
  <1>10. CASE ReprojectCaseDatabase(g)
    <2>1. pc[g] = "project" /\ dir[g].db = Case(g).db
      BY <1>1, <1>10 DEF ReprojectCaseDatabase, AsWritten
    <2>2. /\ projected'[g] = Case(g).db /\ pc'[g] = "ledger"
          /\ UNCHANGED <<cancelled, staging, outcome, dir>>
      BY <1>1, <1>3, <1>4, <1>5, <1>10, <2>1 DEF ReprojectCaseDatabase
    <2>3. AsWritten(g)'
      BY <1>1, <1>2, <2>1, <2>2 DEF AsWritten, world
    <2> QED BY <1>7, <2>2, <2>3
  <1>11. CASE WriteEvidenceLedger(g)
    <2>1. pc[g] = "ledger" /\ dir[g].ledger = Nothing
      BY <1>1, <1>11 DEF WriteEvidenceLedger, AsWritten
    <2>2. Stage(g, [ledger |-> Case(g).ledger], "reports") /\ projected' = projected
      BY <1>1, <1>3, <1>4, <1>6, <1>11, <2>1 DEF WriteEvidenceLedger, CanCreate
    <2>3. /\ pc'[g] = "reports" /\ UNCHANGED <<cancelled, staging, target, check, outcome>>
          /\ \A f \in FileNames : dir'[g][f] = IF f = "ledger" THEN Case(g).ledger ELSE dir[g][f]
      BY <1>1, <2>2, StageEffect DEF FileNames
    <2>4. AsWritten(g)'
      BY <1>1, <1>2, <2>1, <2>3 DEF AsWritten, FileNames, world
    <2> QED BY <1>1, <1>7, <2>2, <2>3, <2>4
  <1>12. CASE WriteReports(g)
    <2>1. pc[g] = "reports" /\ dir[g].metadata = Nothing /\ dir[g].reports = Nothing
      BY <1>1, <1>12 DEF WriteReports, AsWritten
    <2>2. /\ Stage(g, [metadata |-> Case(g).metadata, reports |-> Case(g).reports], "finalize")
          /\ projected' = projected
      BY <1>1, <1>3, <1>4, <1>6, <1>12, <2>1 DEF WriteReports, CanCreate
    <2>3. /\ pc'[g] = "finalize" /\ UNCHANGED <<cancelled, staging, target, check, outcome>>
          /\ \A f \in FileNames : dir'[g][f] = IF f \in {"metadata", "reports"}
                                               THEN Case(g)[f] ELSE dir[g][f]
      <3> DEFINE files == [metadata |-> Case(g).metadata, reports |-> Case(g).reports]
      <3>1. /\ DOMAIN files = {"metadata", "reports"} /\ DOMAIN files \subseteq FileNames
            /\ \A f \in DOMAIN files : files[f] = Case(g)[f]
        BY DEF FileNames
      <3>2. Stage(g, files, "finalize")
        BY <2>2
      <3> HIDE DEF files
      <3> QED BY <1>1, <3>1, <3>2, StageEffect
    <2>4. AsWritten(g)'
      BY <1>1, <1>2, <2>1, <2>3 DEF AsWritten, FileNames, world
    <2> QED BY <1>1, <1>7, <2>2, <2>3, <2>4
  <1> QED BY <1>8, <1>9, <1>10, <1>11, <1>12

\* The manifest lists what was written.
LEMMA ManifestOfCase ==
  ASSUME Given, NEW g \in Generators, AsWritten(g),
         pc[g] \in {"finalize", "manifest", "verify", "claim", "publish"}
  PROVE  BuildManifest(g) = Case(g)
  <1>1. /\ dir[g].db = Case(g).db /\ dir[g].ledger = Case(g).ledger
        /\ dir[g].metadata = Case(g).metadata /\ dir[g].reports = Case(g).reports
        /\ dir[g].extra = Case(g).extra
        /\ dir[g].raw = IF ~option[g].raw THEN Nothing ELSE Case(g).raw
    BY CaseFilesOf DEF AsWritten
  <1>2. (IF dir[g].raw = Nothing THEN {} ELSE dir[g].raw) = Case(g).raw
    BY <1>1, CaseFilesOf
  <1>3. Case(g) = [db |-> Case(g).db, ledger |-> Case(g).ledger, metadata |-> Case(g).metadata,
                   reports |-> Case(g).reports, extra |-> Case(g).extra, raw |-> Case(g).raw]
    BY DEF Case, CaseFiles
  <1> QED BY <1>1, <1>2, <1>3 DEF BuildManifest

\* A verification of what was written finds nothing wrong.
LEMMA ChecksCalm ==
  ASSUME Inv, Shape, Given, NEW g \in Generators, CalmOf(g), UNCHANGED <<world, cancelled>>,
         VerifyCase(g)
  PROVE  CalmOf(g)'
  <1>1. /\ pc[g] = "verify" /\ pc'[g] \in {"verify", "claim", "abort"}
        /\ UNCHANGED <<staging, target, dir, projected, outcome>>
    BY VerifyUntouched DEF Processes
  <1>2. /\ staging[g] = g /\ AsWritten(g) /\ Checking(g) /\ projected[g] \in {Nothing, Case(g).db}
        /\ g \notin cancelled /\ outcome[g] = Nothing
    BY <1>1 DEF CalmOf, Working, Inv, PathsType, OutcomeInv
  <1>3. Case(g)' = Case(g) /\ Metadata(g)' = Metadata(g)
    BY DEF Case, Snapshot, Metadata, world
  <1>4. /\ g \in Processes /\ g # Reader /\ Verified(g) = g /\ g # Nothing /\ ~Stopped(g)
        /\ Files(g) = dir[g]
    BY <1>2, NamesAssumption DEF Processes, Verified, Stopped, Files
  <1>5. BuildManifest(g) = Case(g) /\ dir[g].manifest = Case(g)
    BY <1>1, <1>2, ManifestOfCase DEF AsWritten
  <1>6. /\ dir[g].db = Case(g).db /\ dir[g].ledger = Case(g).ledger
        /\ dir[g].metadata = Case(g).metadata
        /\ dir[g].raw = IF ~option[g].raw THEN Nothing ELSE Case(g).raw
    BY <1>1, <1>2 DEF AsWritten
  <1>7. ASSUME NEW at, NEW holds, holds, NEW frame, VerifyStep(g, at, holds, frame)
        PROVE  /\ check[g].step = at /\ check' = [check EXCEPT ![g] = frame]
               /\ check'[g] = frame
               /\ pc'[g] = IF frame.step = "accepted" THEN "claim" ELSE "verify"
    <2>1. DOMAIN check = Processes /\ DOMAIN pc = Generators
      BY DEF Shape, Inv, PathsType
    <2> QED BY <1>1, <1>4, <1>7, <2>1 DEF VerifyStep
  <1>8. DOMAIN check[g] = FrameNames
    BY <1>4 DEF Shape
  <1>9. \/ pc'[g] = "verify" /\ Checking(g)'
        \/ pc'[g] = "claim" /\ check'[g].metadata = Metadata(g)
    <2>1. CASE VerifyManifestIntegrity(g)
      <3> DEFINE holds == /\ dir[g].manifest # Nothing
                          /\ dir[g].manifest = BuildManifest(g)
                          /\ \A f \in Required : dir[g].manifest[f] # Nothing
                 frame == [check[g] EXCEPT !.step = "metadata", !.manifest = Case(g)]
      <3>1. holds
        BY <1>5, CaseFilesOf DEF Required
      <3>2. VerifyStep(g, "integrity", holds, frame)
        BY <1>4, <1>5, <2>1 DEF VerifyManifestIntegrity
      <3>3. frame.step = "metadata" /\ frame.manifest = Case(g)
        BY <1>8 DEF FrameNames
      <3> HIDE DEF holds, frame
      <3> QED BY <1>3, <1>7, <3>1, <3>2, <3>3 DEF Checking
    <2>2. CASE ReadMetadata(g)
      <3> DEFINE holds == dir[g].metadata = check[g].manifest.metadata
                 frame == [check[g] EXCEPT !.metadata = dir[g].metadata,
                             !.step = IF check[g].manifest.metadata.contract = "v1"
                                      THEN "accepted" ELSE "database"]
      <3>1. VerifyStep(g, "metadata", holds, frame)
        BY <1>4, <2>2 DEF ReadMetadata
      <3>2. check[g].step = "metadata"
        BY <2>2 DEF ReadMetadata, VerifyStep
      <3>3. check[g].manifest = Case(g)
        BY <1>2, <3>2 DEF Checking
      <3>4. holds
        BY <1>6, <3>3
      <3>5. /\ frame.step \in {"accepted", "database"} /\ frame.manifest = Case(g)
            /\ frame.metadata = Metadata(g)
        BY <1>6, <1>8, <3>3, CaseFilesOf DEF FrameNames
      <3> HIDE DEF holds, frame
      <3> QED BY <1>3, <1>7, <3>1, <3>4, <3>5 DEF Checking
    <2>3. CASE VerifyDatabase(g)
      <3> DEFINE holds == dir[g].db # Nothing /\ DatabaseContract(dir[g].db, check[g].metadata)
                 frame == [check[g] EXCEPT !.step = "rehash"]
      <3>1. VerifyStep(g, "database", holds, frame)
        BY <1>4, <2>3 DEF VerifyDatabase
      <3>2. check[g].step = "database"
        BY <2>3 DEF VerifyDatabase, VerifyStep
      <3>3. check[g].manifest = Case(g) /\ check[g].metadata = Metadata(g)
        BY <1>2, <3>2 DEF Checking
      <3>4. holds
        <4>1. /\ WellFormed(Snapshot) /\ dir[g].db = PersistCase(Snapshot, case, option[g].raw)
              /\ dir[g].db # Nothing
          BY <1>6, CaseFilesOf
        <4>2. /\ Metadata(g).case = case /\ Metadata(g).raw = option[g].raw
              /\ Metadata(g).kind = CaseKind(Snapshot.sessions)
          BY DEF Metadata, MetadataOf
        <4> QED BY <3>3, <4>1, <4>2, WrittenIsAccepted
      <3>5. frame.step = "rehash" /\ frame.manifest = Case(g) /\ frame.metadata = Metadata(g)
        BY <1>8, <3>3 DEF FrameNames
      <3> HIDE DEF holds, frame
      <3> QED BY <1>3, <1>7, <3>1, <3>4, <3>5 DEF Checking
    <2>4. CASE RehashDatabase(g)
      <3> DEFINE holds == dir[g].db = check[g].manifest.db
                 frame == [check[g] EXCEPT !.step = "files"]
      <3>1. VerifyStep(g, "rehash", holds, frame)
        BY <1>4, <2>4 DEF RehashDatabase
      <3>2. check[g].step = "rehash"
        BY <2>4 DEF RehashDatabase, VerifyStep
      <3>3. check[g].manifest = Case(g) /\ check[g].metadata = Metadata(g)
        BY <1>2, <3>2 DEF Checking
      <3>4. holds
        BY <1>6, <3>3
      <3>5. frame.step = "files" /\ frame.manifest = Case(g) /\ frame.metadata = Metadata(g)
        BY <1>8, <3>3 DEF FrameNames
      <3> HIDE DEF holds, frame
      <3> QED BY <1>3, <1>7, <3>1, <3>4, <3>5 DEF Checking
    <2>5. CASE VerifyFiles(g)
      <3> DEFINE holds == /\ dir[g].ledger = check[g].manifest.ledger
                          /\ RawAgrees(dir[g], check[g].manifest, check[g].metadata)
                          /\ check[g].manifest.extra = Nothing
                 frame == [check[g] EXCEPT !.step = "accepted"]
      <3>1. VerifyStep(g, "files", holds, frame)
        BY <1>4, <2>5 DEF VerifyFiles
      <3>2. check[g].step = "files"
        BY <2>5 DEF VerifyFiles, VerifyStep
      <3>3. check[g].manifest = Case(g) /\ check[g].metadata = Metadata(g)
        BY <1>2, <3>2 DEF Checking
      <3>4. holds
        <4>1. Metadata(g).raw = option[g].raw
          BY DEF Metadata, MetadataOf
        <4>2. /\ Case(g).raw = (IF option[g].raw THEN RawDescriptors(Snapshot.evidence) ELSE {})
              /\ Case(g).ledger.evidence = Snapshot.evidence
              /\ Case(g).extra = Nothing /\ Case(g).raw # Nothing
          BY CaseFilesOf
        <4> QED BY <1>6, <3>3, <4>1, <4>2 DEF RawAgrees
      <3>5. frame.step = "accepted" /\ frame.metadata = Metadata(g)
        BY <1>8, <3>3 DEF FrameNames
      <3> HIDE DEF holds, frame
      <3> QED BY <1>7, <3>1, <3>4, <3>5
    <2> QED BY <2>1, <2>2, <2>3, <2>4, <2>5 DEF VerifyCase
  <1>10. AsWritten(g)'
    BY <1>1, <1>2, <1>3, <1>9 DEF AsWritten, world
  <1> QED BY <1>1, <1>2, <1>3, <1>9, <1>10, NamesAssumption DEF CalmOf, Working

\* The steps of the finalization fail only because a case is there.
LEMMA FinalizesCalm ==
  ASSUME Inv, Shape, Given, NEW g \in Generators, CalmOf(g), UNCHANGED <<world, cancelled>>,
         target # Nothing => target' # Nothing,
         BeginFinalize(g) \/ WriteManifest(g) \/ Claim(g) \/ LastLook(g) \/ Publish(g)
  PROVE  CalmOf(g)'
  <1>1. pc[g] \in {"finalize", "manifest", "claim", "publish", "rename"}
    BY DEF BeginFinalize, WriteManifest, Claim, LastLook, Publish
  <1>2. /\ staging[g] = g /\ AsWritten(g) /\ projected[g] \in {Nothing, Case(g).db}
        /\ g \notin cancelled /\ outcome[g] = Nothing
    BY <1>1 DEF CalmOf, Working, Inv, PathsType, OutcomeInv
  <1>3. Case(g)' = Case(g) /\ Metadata(g)' = Metadata(g)
    BY DEF Case, Snapshot, Metadata, world
  <1>4. /\ g # Nothing /\ ~Interrupted(g) /\ Staged(g) = dir[g]
        /\ DOMAIN pc = Generators /\ DOMAIN outcome = Generators /\ DOMAIN check = Processes
        /\ DOMAIN dir = Directories /\ DOMAIN dir[g] = FileNames /\ g \in Directories
        /\ g \in Processes /\ DOMAIN check[g] = FrameNames
    BY <1>2, NamesAssumption DEF Interrupted, Staged, Inv, PathsType, Shape, Directories, Processes
  <1>5. CASE BeginFinalize(g)
    <2>1. pc[g] = "finalize" /\ \A f \in Required : dir[g][f] # Nothing
      <3>1. pc[g] = "finalize"
        BY <1>5 DEF BeginFinalize
      <3> QED BY <1>2, <3>1, CaseFilesOf DEF AsWritten, Required
    <2>2. pc'[g] = "manifest" /\ UNCHANGED <<staging, dir, projected, outcome>>
      BY <1>2, <1>4, <1>5, <2>1 DEF BeginFinalize
    <2>3. AsWritten(g)'
      BY <1>2, <1>3, <2>1, <2>2 DEF AsWritten, world
    <2> QED BY <1>2, <1>3, <2>2, <2>3, NamesAssumption DEF CalmOf
  <1>6. CASE WriteManifest(g)
    <2>1. pc[g] = "manifest" /\ dir[g].manifest = Nothing
      <3>1. pc[g] = "manifest"
        BY <1>6 DEF WriteManifest
      <3> QED BY <1>2, <3>1 DEF AsWritten
    <2>2. BuildManifest(g) = Case(g)
      BY <1>2, <2>1, ManifestOfCase
    <2>3. /\ dir' = [dir EXCEPT ![g].manifest = Case(g)]
          /\ pc'[g] = "verify" /\ check' = [check EXCEPT ![g].step = "integrity"]
          /\ UNCHANGED <<staging, projected, outcome>>
      BY <1>2, <1>4, <1>6, <2>1, <2>2 DEF WriteManifest, CanCreate
    <2>4. \A f \in FileNames : dir'[g][f] = IF f = "manifest" THEN Case(g) ELSE dir[g][f]
      BY <1>4, <2>3
    <2>5. AsWritten(g)'
      BY <1>2, <1>3, <2>1, <2>3, <2>4 DEF AsWritten, FileNames, world
    <2>6. check'[g].step = "integrity"
      BY <1>4, <2>3 DEF FrameNames
    <2> QED BY <1>2, <1>3, <2>3, <2>5, <2>6, NamesAssumption DEF CalmOf, Checking
  <1>7. CASE Claim(g)
    <2>1. pc[g] = "claim" /\ check[g].metadata.contract = option[g].contract
      <3>1. pc[g] = "claim"
        BY <1>7 DEF Claim
      <3> QED BY <3>1 DEF CalmOf, Metadata, MetadataOf
    <2>2. \/ /\ pc'[g] = "publish" /\ UNCHANGED <<staging, dir, projected, outcome>>
          \/ pc'[g] = "abort" /\ target # Nothing /\ outcome' = outcome
      BY <1>4, <1>7, <2>1 DEF Claim, Refused, Failing
    <2>3. CASE pc'[g] = "publish" /\ UNCHANGED <<staging, dir, projected, outcome>>
      <3>1. AsWritten(g)'
        BY <1>2, <1>3, <2>1, <2>3 DEF AsWritten, world
      <3> QED BY <1>2, <1>3, <2>3, <3>1, NamesAssumption DEF CalmOf
    <2>4. CASE pc'[g] = "abort" /\ target # Nothing /\ outcome' = outcome
      BY <1>2, <2>4, NamesAssumption DEF CalmOf
    <2> QED BY <2>2, <2>3, <2>4
  <1>8. CASE LastLook(g)
    <2>1. /\ pc[g] = "publish" /\ pc'[g] = "rename"
          /\ UNCHANGED <<staging, dir, projected, outcome>>
      BY <1>2, <1>4, <1>8 DEF LastLook
    <2>2. AsWritten(g)'
      BY <1>2, <1>3, <2>1 DEF AsWritten, world
    <2> QED BY <1>2, <1>3, <2>1, <2>2, NamesAssumption DEF CalmOf
  <1>9. CASE Publish(g)
    <2>1. pc[g] = "rename"
      BY <1>9 DEF Publish
    <2>2. \/ pc'[g] = "done" /\ outcome'[g] = "case"
          \/ pc'[g] = "abort" /\ target # Nothing /\ outcome' = outcome
      BY <1>2, <1>4, <1>9 DEF Publish, Publishable, Refused, Failing
    <2> QED BY <1>2, <2>2, NamesAssumption DEF CalmOf, Working
  <1> QED BY <1>5, <1>6, <1>7, <1>8, <1>9

\* The cleanup ends with an error.
LEMMA AbortsCalm ==
  ASSUME Inv, NEW g \in Generators, CalmOf(g), UNCHANGED cancelled,
         AbortStagedCase(g) \/ RemoveAll(g)
  PROVE  CalmOf(g)'
  <1>1. /\ pc[g] \in {"abort", "remove"} /\ target' = target
        /\ \/ pc'[g] = "remove" /\ outcome' = outcome
           \/ pc'[g] = "done" /\ outcome'[g] = "error"
    BY DEF AbortStagedCase, RemoveAll, Fails, Inv, PathsType
  <1>2. target # Nothing
    BY <1>1 DEF CalmOf
  <1> QED BY <1>1, <1>2, NamesAssumption DEF CalmOf, Working

\* As long as nothing goes wrong and the database can be written, every command
\* is on its way with what it wrote, has its case, or met the case of another.
CalmInv ==
  calm /\ ~Conflicts(Snapshot) =>
    /\ target # Nothing => \E g \in Generators : outcome[g] = "case"
    /\ \A g \in Generators : CalmOf(g)

\* Nothing goes wrong in a calm step.
LEMMA CalmSteps ==
  ASSUME [Next]_vars, calm'
  PROVE  /\ calm /\ UNCHANGED cancelled
         /\ target # Nothing => target' # Nothing
         /\ \/ \E g \in Generators : Generate(g)
            \/ \E p \in Processes : VerifyCase(p)
            \/ StartReader \/ UNCHANGED vars
  <1>1. \A what : ~Spend(what)
    BY DEF Spend
  <1>2. ~(\E g \in Generators : Surroundings(g)) /\ ~Squat
    BY <1>1 DEF Surroundings, NewBuilderFails, Fault, CleanupFault, Drift, Cancel, Kill,
       Replace, Reap, Edit, Squat
  <1>3. ASSUME NEW g \in Generators, Generate(g)
        PROVE  calm' = calm /\ UNCHANGED cancelled /\ (target # Nothing => target' # Nothing)
    BY <1>1, <1>3 DEF Generate, NewBuilder, WriteRawEvidence, WriteCaseDatabase,
       ReprojectCaseDatabase, WriteEvidenceLedger, WriteReports, BeginFinalize, WriteManifest,
       Claim, LastLook, Publish, Publishable, AbortStagedCase, RemoveAll, Stage, Refused, Spared
  <1>4. ASSUME NEW p \in Processes, VerifyCase(p)
        PROVE  calm' = calm /\ UNCHANGED <<cancelled, target>>
    BY <1>4 DEF VerifyCase, VerifyManifestIntegrity, ReadMetadata, VerifyDatabase,
       RehashDatabase, VerifyFiles, VerifyStep, Spared
  <1>5. CASE StartReader \/ UNCHANGED vars
    BY <1>5 DEF StartReader, Spared, vars
  <1> QED BY <1>2, <1>3, <1>4, <1>5 DEF Next

\* Another command's steps are not its business.
LEMMA OthersCalm ==
  ASSUME NEW g \in Generators, CalmOf(g), UNCHANGED <<world, cancelled, Own(g)>>,
         target # Nothing => target' # Nothing
  PROVE  CalmOf(g)'
  <1>1. Case(g)' = Case(g) /\ Metadata(g)' = Metadata(g) /\ option' = option
    BY DEF Case, Snapshot, Metadata, world
  <1>2. AsWritten(g) => AsWritten(g)'
    BY <1>1 DEF AsWritten, Own
  <1>3. Checking(g) => Checking(g)'
    BY <1>1 DEF Checking, Own
  <1> QED BY <1>1, <1>2, <1>3 DEF CalmOf, Own

LEMMA CalmStep ==
  ASSUME Inv, Shape, archive \in Archives, option \in [Generators -> Contracts], CalmInv,
         [Next]_vars
  PROVE  CalmInv'
  <1> SUFFICES ASSUME calm', ~Conflicts(Snapshot)'
               PROVE  /\ target' # Nothing => \E g \in Generators : outcome'[g] = "case"
                      /\ \A g \in Generators : CalmOf(g)'
    BY DEF CalmInv
  <1>1. UNCHANGED world /\ Snapshot' = Snapshot
    BY WorldStands DEF world, Snapshot
  <1>2. /\ calm /\ UNCHANGED cancelled /\ (target # Nothing => target' # Nothing)
        /\ \/ \E g \in Generators : Generate(g)
           \/ \E p \in Processes : VerifyCase(p)
           \/ StartReader \/ UNCHANGED vars
    BY CalmSteps
  <1>3. /\ Given /\ Given'
        /\ target # Nothing => \E g \in Generators : outcome[g] = "case"
        /\ \A g \in Generators : CalmOf(g)
    BY <1>1, <1>2 DEF Given, CalmInv, world
  <1>4. CASE \E h \in Generators : Generate(h)
    <2> PICK h \in Generators : Generate(h)
      BY <1>4
    <2>1. ASSUME NEW g \in Generators PROVE CalmOf(g)'
      <3>1. CASE g # h
        <4>1. UNCHANGED Own(g)
          BY <3>1, OthersUntouched
        <4> QED BY <1>1, <1>2, <1>3, <4>1, OthersCalm
      <3>2. CASE g = h
        <4>1. CASE NewBuilder(g)
          BY <1>3, <4>1, BeginsCalm
        <4>2. CASE \/ WriteRawEvidence(g) \/ WriteCaseDatabase(g) \/ ReprojectCaseDatabase(g)
                   \/ WriteEvidenceLedger(g) \/ WriteReports(g)
          BY <1>1, <1>3, <4>2, WritesCalm
        <4>3. CASE BeginFinalize(g) \/ WriteManifest(g) \/ Claim(g) \/ LastLook(g) \/ Publish(g)
          BY <1>1, <1>2, <1>3, <4>3, FinalizesCalm
        <4>4. CASE AbortStagedCase(g) \/ RemoveAll(g)
          BY <1>2, <1>3, <4>4, AbortsCalm
        <4> QED BY <3>2, <4>1, <4>2, <4>3, <4>4 DEF Generate
      <3> QED BY <3>1, <3>2
    <2>2. target' # Nothing => \E g \in Generators : outcome'[g] = "case"
      <3>1. CASE UNCHANGED target
        <4>1. ASSUME NEW g \in Generators, outcome[g] = "case" PROVE outcome'[g] = "case"
          <5>1. pc[g] = "done"
            BY <4>1, NamesAssumption DEF Inv, OutcomeInv
          <5>2. CASE g # h
            BY <4>1, <5>2, OthersUntouched DEF Own
          <5>3. CASE g = h
            BY <5>1, <5>3 DEF Generate, NewBuilder, WriteRawEvidence, WriteCaseDatabase,
               ReprojectCaseDatabase, WriteEvidenceLedger, WriteReports, BeginFinalize,
               WriteManifest, Claim, LastLook, Publish, AbortStagedCase, RemoveAll
          <5> QED BY <5>2, <5>3
        <4> QED BY <1>3, <3>1, <4>1
      <3>2. CASE ~UNCHANGED target
        <4>1. Publish(h) /\ ~Refused(h)
          BY <3>2 DEF Generate, NewBuilder, WriteRawEvidence, WriteCaseDatabase,
             ReprojectCaseDatabase, WriteEvidenceLedger, WriteReports, BeginFinalize,
             WriteManifest, Claim, LastLook, Publish, AbortStagedCase, RemoveAll, Refused, Stage
        <4>2. outcome'[h] = "case"
          BY <4>1 DEF Publish, Inv, PathsType
        <4> QED BY <4>2
      <3> QED BY <3>1, <3>2
    <2> QED BY <2>1, <2>2
  <1>5. CASE \E p \in Processes : VerifyCase(p)
    <2> PICK p \in Processes : VerifyCase(p)
      BY <1>5
    <2>1. UNCHANGED <<target, outcome>> /\ \A h \in Generators \ {p} : UNCHANGED Own(h)
      BY VerifyUntouched
    <2>2. ASSUME NEW g \in Generators PROVE CalmOf(g)'
      <3>1. CASE g # p
        BY <1>1, <1>2, <1>3, <2>1, <3>1, OthersCalm
      <3>2. CASE g = p
        BY <1>1, <1>2, <1>3, <3>2, ChecksCalm
      <3> QED BY <3>1, <3>2
    <2> QED BY <1>3, <2>1, <2>2
  <1>6. CASE StartReader \/ UNCHANGED vars
    <2>1. UNCHANGED <<target, outcome>> /\ \A h \in Generators : UNCHANGED Own(h)
      <3>1. DOMAIN check = Processes /\ \A h \in Generators : h \in Processes /\ h # Reader
        BY NamesAssumption DEF Shape, Processes
      <3>2. CASE StartReader
        BY <3>1, <3>2 DEF StartReader, Own
      <3>3. CASE UNCHANGED vars
        BY <3>3 DEF vars, Own
      <3> QED BY <1>6, <3>2, <3>3
    <2> QED BY <1>1, <1>2, <1>3, <2>1, OthersCalm
  <1> QED BY <1>2, <1>4, <1>5, <1>6

\* What a command that returns a case left at the target stays there.  It is the
\* command's own directory, unless another program replaced that one between
\* the last look at it and the rename by path, which then publishes the other
\* program's.  And when nothing goes wrong and the database can be written, one
\* of the commands publishes (Finalize, publishDirectoryNoReplace).
THEOREM OneCaseTheorem ==
  ScenariosAreCounts /\ Generators # {} => (Spec => []OneCase)
  <1> SUFFICES ASSUME ScenariosAreCounts, Generators # {} PROVE Spec => []OneCase
    OBVIOUS
  <1> DEFINE WellGiven == archive \in Archives /\ option \in [Generators -> Contracts]
  <1>1. Init => WellGiven /\ CalmInv
    <2> SUFFICES ASSUME Init PROVE WellGiven /\ CalmInv
      OBVIOUS
    <2>1. target = Nothing /\ WellGiven
      BY DEF Init
    <2>2. ASSUME NEW g \in Generators PROVE CalmOf(g)
      <3>1. /\ g \notin cancelled /\ pc[g] = "begin" /\ dir[g] = NoFiles
            /\ projected[g] = Nothing /\ outcome[g] = Nothing
        BY DEF Init, Directories
      <3> QED BY <3>1, NamesAssumption DEF CalmOf, Working
    <2> QED BY <2>1, <2>2 DEF CalmInv
  <1>2. Inv /\ Shape /\ WellGiven /\ CalmInv /\ [Next]_vars => WellGiven' /\ CalmInv'
    <2>1. WellGiven /\ [Next]_vars => WellGiven'
      BY WorldStands DEF world
    <2> QED BY <2>1, CalmStep
  <1>3. Inv /\ CalmInv => OneCase
    <2> SUFFICES ASSUME Inv, CalmInv PROVE OneCase
      OBVIOUS
    <2>1. \A g \in Generators :
            outcome[g] = "case" => target = IF g \in swapped THEN Foreign ELSE g
      BY DEF Inv, OutcomeInv, Left
    <2>2. ASSUME calm, ~Conflicts(Snapshot), \A g \in Generators : pc[g] = "done"
          PROVE  \E g \in Generators : outcome[g] = "case"
      <3>1. PICK g \in Generators : TRUE
        OBVIOUS
      <3>2. outcome[g] \in {"error", "case"}
        BY <2>2 DEF CalmInv, CalmOf, Inv, PathsType
      <3> QED BY <2>2, <3>2 DEF CalmInv, CalmOf
    <2> QED BY <2>1, <2>2 DEF OneCase
  <1>4. Spec => [](Inv /\ Shape)
    BY ShapeInv
  <1> HIDE DEF WellGiven
  <1> QED BY <1>1, <1>2, <1>3, <1>4, PTL DEF Spec
=============================================================================
