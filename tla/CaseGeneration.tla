--------------------------- MODULE CaseGeneration ---------------------------
(***************************************************************************)
(* Generating a case: internal/casegen stages the files of a case in a     *)
(* private sibling of its target, reads its own database again before it   *)
(* writes a report, and internal/casefile freezes the files in a manifest, *)
(* verifies them and renames the directory to the target unless something  *)
(* is there.  Whatever fails, the staging directory is removed, if it      *)
(* still was the one that was made at the last look.  Rename and removal   *)
(* follow the path a moment after that look.                               *)
(*                                                                         *)
(* Several commands generate a case of one archive at one target.  Around  *)
(* them a disk fails, the operator interrupts, a process is killed, other  *)
(* programs replace or remove a staging directory, take the target, or     *)
(* change a file, and a reader verifies what it finds at the target.       *)
(*                                                                         *)
(* A path leads to a directory: "staging" and "target" are paths, and the  *)
(* directories are named after the generator that made them.               *)
(***************************************************************************)
EXTENDS CaseDatabase

CONSTANTS Generators,  \* the commands that generate the case
          Archives,    \* the sets of collections that an archive may hold
          Contracts,   \* the requests: [contract : {"v1", "v2"}, raw]
          Scenarios,   \* what may go wrong: [faults, meddles, edits, stops]
          Foreign,     \* a directory put in the place of a staging directory
          Squatter,    \* a directory that somebody else makes at the target
          Reader       \* a command that verifies the case

ASSUME NamesAssumption ==
  /\ Nothing \notin Generators \cup {"error", "case"}
  /\ {Foreign, Squatter} \cap (Generators \cup {Nothing}) = {}
  /\ Foreign # Squatter
  /\ Reader \notin Generators

ASSUME ArchivesAssumption == \A a \in Archives : WellFormed(Merged(a))

VARIABLES archive,     \* the collections of the archive
          option,      \* what each command was asked for
          budget,      \* what may still go wrong
          calm,        \* nothing went wrong so far
          pc,          \* the next step of each command
          cancelled,   \* the commands that were interrupted
          staging,     \* the directory at the staging path of each command
          target,      \* the directory at the target path
          dir,         \* the files of each directory
          exists,      \* the directories that exist
          projected,   \* the database that each command projected
          check,       \* the verification under way in each process
          outcome,     \* what each command returned
          leftover,    \* the commands that reported a failed cleanup
          swapped      \* the commands whose directory was replaced after the
                       \* last look at it and before its rename or removal

world == <<archive, option>>
fixed == <<world, swapped>>  \* what no step of a command changes
case  == "case"

vars == <<archive, option, budget, calm, pc, cancelled, staging, target, dir,
          exists, projected, check, outcome, leftover, swapped>>

Directories == Generators \cup {Foreign, Squatter}
Processes   == Generators \cup {Reader}

NoFiles == [db |-> Nothing, ledger |-> Nothing, metadata |-> Nothing, reports |-> Nothing,
            raw |-> Nothing, extra |-> Nothing, manifest |-> Nothing]

NoCheck == [step |-> "idle", manifest |-> Nothing, metadata |-> Nothing]

Snapshot == Merged(archive)

\* The graphs that the analysis made of the archive.
Expected == GraphOf(Snapshot.sessions, Snapshot.facts, Snapshot.findings)

MetadataOf(snapshot, opt) ==
  [contract |-> opt.contract, raw |-> opt.raw, case |-> case,
   kind |-> CaseKind(snapshot.sessions)]

Metadata(g) == MetadataOf(Snapshot, option[g])

\* What a command writes that nothing befalls, as its manifest lists it.
CaseFiles(snapshot, opt) ==
  [db       |-> PersistCase(snapshot, case, opt.raw),
   ledger   |-> [evidence |-> snapshot.evidence, findings |-> snapshot.findings],
   metadata |-> MetadataOf(snapshot, opt),
   reports  |-> GraphOf(snapshot.sessions, snapshot.facts, snapshot.findings),
   raw      |-> IF opt.raw THEN RawDescriptors(snapshot.evidence) ELSE {},
   extra    |-> Nothing]

\* A file that is there is not Nothing.
ASSUME FilesAssumption ==
  /\ {} # Nothing
  /\ \A a \in Archives : \A opt \in Contracts :
       LET files == CaseFiles(Merged(a), opt) IN
       /\ files # Nothing
       /\ \A f \in {"db", "ledger", "metadata", "reports", "raw"} : files[f] # Nothing

Staged(g) == dir[staging[g]]

-----------------------------------------------------------------------------
(* Failing.  A step that looks at its context fails once it is cancelled;  *)
(* every step fails when its path leads nowhere or a file is there already *)
(* and may fail because of the disk.                                       *)

Heeds(g) ==
  /\ pc[g] # "ledger"
  /\ pc[g] = "raw" => option[g].raw

Interrupted(g) == g \in cancelled /\ Heeds(g)

\* The staging path leads to a directory where these files are missing.
CanCreate(g, files) == staging[g] # Nothing /\ \A f \in files : Staged(g)[f] = Nothing

Failing(g) == pc' = [pc EXCEPT ![g] = "abort"]

Spend(what) ==
  /\ budget[what] > 0
  /\ budget' = [budget EXCEPT ![what] = @ - 1]
  /\ calm' = FALSE

Spared == UNCHANGED <<budget, calm>>

\* A step that cannot be done.
Refused(g) == Failing(g) /\ Spared /\ UNCHANGED <<fixed, cancelled, staging, target, dir,
                                     exists, projected, check, outcome, leftover>>

-----------------------------------------------------------------------------
(* The files of the case.                                                  *)

NewBuilder(g) ==
  /\ pc[g] = "begin"
  /\ IF target = Nothing
     THEN /\ pc' = [pc EXCEPT ![g] = "raw"]
          /\ staging' = [staging EXCEPT ![g] = g]
          /\ dir' = [dir EXCEPT ![g].raw = IF option[g].raw THEN {} ELSE Nothing]
          /\ exists' = exists \cup {g}
          /\ UNCHANGED outcome
     ELSE /\ pc' = [pc EXCEPT ![g] = "done"]
          /\ outcome' = [outcome EXCEPT ![g] = "error"]
          /\ UNCHANGED <<staging, dir, exists>>
  /\ Spared /\ UNCHANGED <<fixed, cancelled, target, projected, check, leftover>>

\* The directory cannot be made, protected or looked at.  What was made is
\* removed again, and nobody is told when that fails too.
NewBuilderFails(g) ==
  /\ pc[g] = "begin" /\ target = Nothing
  /\ Spend("faults")
  /\ pc' = [pc EXCEPT ![g] = "unbuilt"]
  /\ outcome' = [outcome EXCEPT ![g] = "error"]
  /\ \/ UNCHANGED <<staging, exists>>
     \/ staging' = [staging EXCEPT ![g] = g] /\ exists' = exists \cup {g}
  /\ UNCHANGED <<fixed, cancelled, target, dir, projected, check, leftover>>

\* Puts files where the staging path leads and goes on.
Stage(g, files, next) ==
  /\ dir' = [dir EXCEPT ![staging[g]] = Over(files, @)]
  /\ pc' = [pc EXCEPT ![g] = next]
  /\ Spared /\ UNCHANGED <<fixed, cancelled, staging, target, exists, check, outcome, leftover>>

WriteRawEvidence(g) ==
  /\ pc[g] = "raw"
  /\ LET digests == RawDescriptors(Snapshot.evidence)
         held    == Staged(g).raw
     IN  IF ~option[g].raw
         THEN /\ pc' = [pc EXCEPT ![g] = "database"]
              /\ Spared /\ UNCHANGED <<fixed, cancelled, staging, target, dir, exists,
                                       projected, check, outcome, leftover>>
         ELSE IF Interrupted(g) \/ staging[g] = Nothing \/ (held = Nothing /\ digests # {})
         THEN Refused(g)
         ELSE Stage(g, [raw |-> IF held = Nothing THEN held ELSE held \cup digests], "database")
              /\ UNCHANGED projected

WriteCaseDatabase(g) ==
  /\ pc[g] = "database"
  /\ IF Interrupted(g) \/ ~CanCreate(g, {"db"}) \/ Conflicts(Snapshot)
     THEN Refused(g)
     ELSE /\ Stage(g, [db |-> PersistCase(Snapshot, case, option[g].raw)],
                   IF option[g].contract = "v2" THEN "project" ELSE "ledger")
          /\ UNCHANGED projected

ReprojectCaseDatabase(g) ==
  /\ pc[g] = "project"
  /\ IF Interrupted(g) \/ staging[g] = Nothing \/ Staged(g).db = Nothing
     THEN Refused(g)
     ELSE IF ~Reprojects(Staged(g).db, case, Expected)
     THEN Refused(g)
     ELSE /\ projected' = [projected EXCEPT ![g] = Staged(g).db]
          /\ pc' = [pc EXCEPT ![g] = "ledger"]
          /\ Spared /\ UNCHANGED <<fixed, cancelled, staging, target, dir, exists, check,
                                   outcome, leftover>>

\* The ledger takes the findings of the projection, if there is one.
Rehydrated(g) ==
  IF projected[g] = Nothing THEN Expected ELSE ReprojectedGraph(projected[g])

WriteEvidenceLedger(g) ==
  /\ pc[g] = "ledger"
  /\ IF ~CanCreate(g, {"ledger"}) THEN Refused(g)
     ELSE /\ Stage(g, [ledger |-> [evidence |-> Snapshot.evidence,
                                   findings |-> Rehydrated(g).findings]], "reports")
          /\ UNCHANGED projected

\* The metadata and the reports, in the order of their names.
WriteReports(g) ==
  /\ pc[g] = "reports"
  /\ IF Interrupted(g) \/ ~CanCreate(g, {"metadata", "reports"}) THEN Refused(g)
     ELSE /\ Stage(g, [metadata |-> Metadata(g), reports |-> Rehydrated(g)], "finalize")
          /\ UNCHANGED projected

-----------------------------------------------------------------------------
(* Finalizing: the manifest, the verification and the publication.         *)

Required == {"db", "ledger", "metadata", "reports"}

BeginFinalize(g) ==
  /\ pc[g] = "finalize"
  /\ IF Interrupted(g) \/ staging[g] # g \/ \E f \in Required : dir[g][f] = Nothing
     THEN Refused(g)
     ELSE /\ pc' = [pc EXCEPT ![g] = "manifest"]
          /\ Spared /\ UNCHANGED <<fixed, cancelled, staging, target, dir, exists,
                                   projected, check, outcome, leftover>>

\* A manifest lists files: an empty directory leaves no trace in it.
BuildManifest(d) ==
  LET files == dir[d] IN
  [db |-> files.db, ledger |-> files.ledger, metadata |-> files.metadata,
   reports |-> files.reports, extra |-> files.extra,
   raw |-> IF files.raw = Nothing THEN {} ELSE files.raw]

WriteManifest(g) ==
  /\ pc[g] = "manifest"
  /\ IF Interrupted(g) \/ ~CanCreate(g, {"manifest"}) THEN Refused(g)
     ELSE /\ dir' = [dir EXCEPT ![staging[g]].manifest = BuildManifest(staging[g])]
          /\ pc' = [pc EXCEPT ![g] = "verify"]
          /\ check' = [check EXCEPT ![g].step = "integrity"]
          /\ Spared /\ UNCHANGED <<fixed, cancelled, staging, target, exists, projected,
                                   outcome, leftover>>

\* The directory that a verification reads.
Verified(p) == IF p = Reader THEN target ELSE staging[p]

Stopped(p) == p # Reader /\ p \in cancelled

\* One step of VerifyCase, with what must hold and what it leaves behind.
VerifyStep(p, at, holds, frame) ==
  /\ check[p].step = at
  /\ p # Reader => pc[p] = "verify"
  /\ IF Verified(p) # Nothing /\ ~Stopped(p) /\ holds
     THEN /\ check' = [check EXCEPT ![p] = frame]
          /\ pc' = IF p # Reader /\ frame.step = "accepted"
                   THEN [pc EXCEPT ![p] = "claim"] ELSE pc
     ELSE /\ check' = [check EXCEPT ![p] = [NoCheck EXCEPT !.step = "rejected"]]
          /\ pc' = IF p # Reader THEN [pc EXCEPT ![p] = "abort"] ELSE pc
  /\ Spared /\ UNCHANGED <<fixed, cancelled, staging, target, dir, exists, projected,
                           outcome, leftover>>

\* The files under the verification, if there are any.
Files(p) == IF Verified(p) = Nothing THEN NoFiles ELSE dir[Verified(p)]

VerifyManifestIntegrity(p) ==
  LET manifest == Files(p).manifest IN
  VerifyStep(p, "integrity",
             /\ manifest # Nothing
             /\ manifest = BuildManifest(Verified(p))
             /\ \A f \in Required : manifest[f] # Nothing,
             [check[p] EXCEPT !.step = "metadata", !.manifest = manifest])

\* The metadata select the contract, and the older one asks for no more.
ReadMetadata(p) ==
  LET metadata == Files(p).metadata IN
  VerifyStep(p, "metadata",
             metadata = check[p].manifest.metadata,
             [check[p] EXCEPT !.metadata = metadata,
                              !.step = IF check[p].manifest.metadata.contract = "v1"
                                       THEN "accepted" ELSE "database"])

VerifyDatabase(p) ==
  VerifyStep(p, "database",
             /\ Files(p).db # Nothing
             /\ DatabaseContract(Files(p).db, check[p].metadata),
             [check[p] EXCEPT !.step = "rehash"])

\* A plausible mistake: the database was hashed with everything else.
TrustDatabase(p) ==
  VerifyStep(p, "rehash", TRUE, [check[p] EXCEPT !.step = "files"])

RehashDatabase(p) ==
  VerifyStep(p, "rehash",
             Files(p).db = check[p].manifest.db,
             [check[p] EXCEPT !.step = "files"])

\* The ledger is hashed as it is read, and names the raw files.
RawAgrees(files, manifest, metadata) ==
  IF metadata.raw
  THEN /\ files.raw # Nothing
       /\ manifest.raw = RawDescriptors(files.ledger.evidence)
       /\ manifest.raw \subseteq files.raw
  ELSE files.raw = Nothing /\ manifest.raw = {}

VerifyFiles(p) ==
  VerifyStep(p, "files",
             /\ Files(p).ledger = check[p].manifest.ledger
             /\ RawAgrees(Files(p), check[p].manifest, check[p].metadata)
             /\ check[p].manifest.extra = Nothing,
             [check[p] EXCEPT !.step = "accepted"])

VerifyCase(p) ==
  \/ VerifyManifestIntegrity(p)
  \/ ReadMetadata(p)
  \/ VerifyDatabase(p)
  \/ RehashDatabase(p)
  \/ VerifyFiles(p)

Claim(g) ==
  /\ pc[g] = "claim"
  /\ IF check[g].metadata.contract # option[g].contract \/ Interrupted(g) \/ target # Nothing
     THEN Refused(g)
     ELSE /\ pc' = [pc EXCEPT ![g] = "publish"]
          /\ Spared /\ UNCHANGED <<fixed, cancelled, staging, target, dir, exists,
                                   projected, check, outcome, leftover>>

\* The last look at the staging directory.
LastLook(g) ==
  /\ pc[g] = "publish"
  /\ IF Interrupted(g) \/ staging[g] # g THEN Refused(g)
     ELSE /\ pc' = [pc EXCEPT ![g] = "rename"]
          /\ Spared /\ UNCHANGED <<fixed, cancelled, staging, target, dir, exists,
                                   projected, check, outcome, leftover>>

\* A plausible mistake: a rename that replaces.
PublishableOver(g) == staging[g] # Nothing

\* A rename without replacement takes whatever the path leads to.
Publishable(g) == staging[g] # Nothing /\ target = Nothing

Publish(g) ==
  /\ pc[g] = "rename"
  /\ IF ~Publishable(g) THEN Refused(g)
     ELSE /\ target' = staging[g]
          /\ staging' = [staging EXCEPT ![g] = Nothing]
          /\ pc' = [pc EXCEPT ![g] = "done"]
          /\ outcome' = [outcome EXCEPT ![g] = "case"]
          /\ Spared /\ UNCHANGED <<fixed, cancelled, dir, exists, projected, check, leftover>>

-----------------------------------------------------------------------------
(* Cleaning up.                                                            *)

\* A plausible mistake: the path is removed, whatever it leads to.
RemovablePath(g) == staging[g] # Nothing

\* The directory that a cleanup may remove.
Removable(g) == staging[g] = g

\* The command returns its error.
Fails(g) ==
  /\ pc' = [pc EXCEPT ![g] = "done"]
  /\ outcome' = [outcome EXCEPT ![g] = "error"]

\* A directory that is gone needs no cleanup, and one that is not the
\* command's own is left and reported.
AbortStagedCase(g) ==
  /\ pc[g] = "abort"
  /\ IF Removable(g)
     THEN pc' = [pc EXCEPT ![g] = "remove"] /\ UNCHANGED <<outcome, leftover>>
     ELSE /\ Fails(g)
          /\ leftover' = IF staging[g] = Nothing THEN leftover ELSE leftover \cup {g}
  /\ Spared /\ UNCHANGED <<fixed, cancelled, staging, target, dir, exists, projected, check>>

\* Removes whatever the path leads to.
RemoveAll(g) ==
  /\ pc[g] = "remove"
  /\ Fails(g)
  /\ exists' = exists \ {staging[g]}
  /\ dir' = [d \in Directories |-> IF d = staging[g] THEN NoFiles ELSE dir[d]]
  /\ staging' = [staging EXCEPT ![g] = Nothing]
  /\ Spared /\ UNCHANGED <<fixed, cancelled, target, projected, check, leftover>>

\* The directory cannot be looked at or removed, and this is reported.
CleanupFault(g) ==
  /\ pc[g] \in {"abort", "remove"} /\ staging[g] # Nothing
  /\ Spend("faults")
  /\ Fails(g)
  /\ leftover' = leftover \cup {g}
  /\ UNCHANGED <<fixed, cancelled, staging, target, dir, exists, projected, check>>

-----------------------------------------------------------------------------
(* What happens around the commands.                                       *)

Underway(g) == pc[g] \notin {"begin", "unbuilt", "done", "dead"}

\* A full disk, a damaged raw object, a rename that is not supported.
Fault(g) ==
  /\ Underway(g) /\ pc[g] \notin {"abort", "remove"}
  /\ Spend("faults")
  /\ Failing(g)
  /\ UNCHANGED <<fixed, cancelled, staging, target, dir, exists, projected, check,
                 outcome, leftover>>

\* The database is not what was written when it is opened again.
Drift(g) ==
  /\ pc[g] = "project" /\ staging[g] = g /\ dir[g].db # Nothing
  /\ Spend("faults")
  /\ \E db \in Drifts(dir[g].db) : dir' = [dir EXCEPT ![g].db = db]
  /\ UNCHANGED <<fixed, pc, cancelled, staging, target, exists, projected, check,
                 outcome, leftover>>

Cancel(g) ==
  /\ Underway(g) /\ g \notin cancelled
  /\ Spend("stops")
  /\ cancelled' = cancelled \cup {g}
  /\ UNCHANGED <<fixed, pc, staging, target, dir, exists, projected, check, outcome, leftover>>

Kill(g) ==
  /\ Underway(g)
  /\ Spend("stops")
  /\ pc' = [pc EXCEPT ![g] = "dead"]
  /\ check' = [check EXCEPT ![g] = NoCheck]
  /\ UNCHANGED <<fixed, cancelled, staging, target, dir, exists, projected, outcome, leftover>>

\* Another program moves a staging directory away and leaves its own.
Replace(g) ==
  /\ staging[g] = g
  /\ Foreign \in exists /\ target # Foreign /\ \A h \in Generators : staging[h] # Foreign
  /\ Spend("meddles")
  /\ staging' = [staging EXCEPT ![g] = Foreign]
  /\ swapped' = IF pc[g] \in {"rename", "remove"} THEN swapped \cup {g} ELSE swapped
  /\ UNCHANGED <<world, pc, cancelled, target, dir, exists, projected, check, outcome, leftover>>

\* A cleaner of temporary files removes one.
Reap(g) ==
  /\ staging[g] = g
  /\ Spend("meddles")
  /\ staging' = [staging EXCEPT ![g] = Nothing]
  /\ exists' = exists \ {g}
  /\ dir' = [dir EXCEPT ![g] = NoFiles]
  /\ UNCHANGED <<fixed, pc, cancelled, target, projected, check, outcome, leftover>>

Squat ==
  /\ target = Nothing
  /\ Spend("meddles")
  /\ target' = Squatter
  /\ UNCHANGED <<fixed, pc, cancelled, staging, dir, exists, projected, check, outcome, leftover>>

\* One file as an editor leaves it; doing it again undoes it.
Edited(files) ==
  {[files EXCEPT !.extra = IF @ = Nothing THEN "note" ELSE Nothing]}
  \cup (IF files.db = Nothing THEN {}
        ELSE {[files EXCEPT !.db.metadata =
                 {<<row[1], IF row[2] = "true" THEN "false"
                            ELSE IF row[2] = "false" THEN "true" ELSE row[2]>> : row \in @}]})
  \cup (IF files.metadata = Nothing THEN {}
        ELSE {[files EXCEPT !.metadata.raw = ~@]})
  \cup (IF files.ledger = Nothing THEN {}
        ELSE {[files EXCEPT !.ledger.evidence = IF @ = {} THEN Snapshot.evidence ELSE {}]})
  \cup (IF files.raw = Nothing THEN {}
        ELSE {[files EXCEPT !.raw = IF "junk" \in @ THEN @ \ {"junk"} ELSE @ \cup {"junk"}]})

Edit(g) ==
  /\ g \in exists
  /\ Spend("edits")
  /\ \E files \in Edited(dir[g]) : dir' = [dir EXCEPT ![g] = files]
  /\ UNCHANGED <<fixed, pc, cancelled, staging, target, exists, projected, check,
                 outcome, leftover>>

StartReader ==
  /\ target # Nothing /\ check[Reader].step = "idle"
  /\ check' = [check EXCEPT ![Reader].step = "integrity"]
  /\ Spared /\ UNCHANGED <<fixed, pc, cancelled, staging, target, dir, exists, projected,
                           outcome, leftover>>

-----------------------------------------------------------------------------
Init ==
  /\ archive \in Archives
  /\ option \in [Generators -> Contracts]
  /\ budget \in Scenarios
  /\ calm = TRUE
  /\ pc = [g \in Generators |-> "begin"]
  /\ cancelled = {}
  /\ staging = [g \in Generators |-> Nothing]
  /\ target = Nothing
  /\ dir = [d \in Directories |-> NoFiles]
  /\ exists = {Foreign, Squatter}
  /\ projected = [g \in Generators |-> Nothing]
  /\ check = [p \in Processes |-> NoCheck]
  /\ outcome = [g \in Generators |-> Nothing]
  /\ leftover = {}
  /\ swapped = {}

Generate(g) ==
  \/ NewBuilder(g)
  \/ WriteRawEvidence(g)
  \/ WriteCaseDatabase(g)
  \/ ReprojectCaseDatabase(g)
  \/ WriteEvidenceLedger(g)
  \/ WriteReports(g)
  \/ BeginFinalize(g)
  \/ WriteManifest(g)
  \/ Claim(g)
  \/ LastLook(g)
  \/ Publish(g)
  \/ AbortStagedCase(g)
  \/ RemoveAll(g)

Surroundings(g) ==
  \/ NewBuilderFails(g)
  \/ Fault(g)
  \/ CleanupFault(g)
  \/ Drift(g)
  \/ Cancel(g)
  \/ Kill(g)
  \/ Replace(g)
  \/ Reap(g)
  \/ Edit(g)

Next ==
  \/ \E g \in Generators : Generate(g) \/ Surroundings(g)
  \/ \E p \in Processes : VerifyCase(p)
  \/ Squat
  \/ StartReader

Spec == Init /\ [][Next]_vars

-----------------------------------------------------------------------------
(* Properties.                                                             *)

\* What a command that returns a case left at the target stays there, replaced
\* by nobody.  It is its own directory, but for the one hole that the rename by
\* path leaves: another program put its directory in the place after the last
\* look, and that one is published.  And when nothing goes wrong and the
\* database can be written, competing commands do not all fail: one of them
\* publishes (Finalize, publishDirectoryNoReplace).
OneCase ==
  /\ \A g \in Generators :
       outcome[g] = "case" => target = IF g \in swapped THEN Foreign ELSE g
  /\ (calm /\ ~Conflicts(Snapshot) /\ \A g \in Generators : pc[g] = "done") =>
        \E g \in Generators : outcome[g] = "case"

\* A command that fails leaves no staging directory of its own without saying
\* so, and no command removes a directory that it did not make (Abort and the
\* deferred cleanup of generate).  Two cases are left out: a directory that
\* another program replaces between the look at it and its removal by path, and
\* a failure of newBuilder, which discards the error of its own cleanup.
CleansUp ==
  /\ \A g \in Generators :
       outcome[g] = "error" /\ pc[g] # "unbuilt" /\ g \notin swapped =>
         g \notin exists \/ g \in leftover
  /\ Squatter \in exists
  /\ swapped = {} => Foreign \in exists

\* The tables whose rows the projection answers for: all but the sessions,
\* of which it only knows the kind, the repositories and the metadata.
Projected == {"batches", "batchSessions", "batchFacts", "facts", "links", "coverage", "packs",
              "analyses", "revisions", "selected", "support", "covered", "edges"}

\* The reports of a published strict case are drawn from a database whose rows
\* were exactly those of the archive when it was read again, and say what the
\* archive says (reprojectCaseDatabase), unless the directory was replaced
\* after the last look at it.
ReportsRestOnFacts ==
  \A g \in Generators :
    outcome[g] = "case" /\ g \notin swapped /\ option[g].contract = "v2" =>
      /\ \A t \in Projected : projected[g][t] = PersistCase(Snapshot, case, option[g].raw)[t]
      /\ dir[g].reports = Expected

\* What a verification accepts fits together as the manifest has it: for a
\* strict case the frozen metadata agree with the frozen database, and the
\* raw files are those that the frozen ledger names, although every file is
\* read at another moment (VerifyCase).
AcceptedAgrees ==
  \A p \in Processes :
    LET manifest == check[p].manifest IN
    check[p].step = "accepted" =>
      /\ check[p].metadata = manifest.metadata
      /\ manifest.metadata.contract = "v2" =>
           /\ DatabaseContract(manifest.db, manifest.metadata)
           /\ manifest.raw = IF manifest.metadata.raw
                             THEN RawDescriptors(manifest.ledger.evidence) ELSE {}
           /\ manifest.extra = Nothing

\* A calm command fails only because another case is there: any archive that
\* can be collected can be turned into a case (docs/PLAN.md:308, "Overlapping
\* incremental collections are idempotent; mutable observations remain
\* bitemporal rather than overwritten; replay succeeds with network access
\* disabled").
ReplaySucceeds ==
  \A g \in Generators : calm /\ outcome[g] = "error" => target # Nothing
=============================================================================
