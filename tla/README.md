# Cirewind: a TLA+ model of the collection, the archive, the replay and the case

Cirewind (Go) collects read-only evidence about GitHub Actions runs, stores it in
a SQLite archive with a sidecar directory of raw logs, replays an incident pack
against the archive offline, derives findings and writes a case directory. It
never changes anything at the repositories it reads; what it must get right is what it *claims*: a
collection that reports no gap must have missed nothing, a committed batch must be
there as a whole, and the watermark from which the next collection resumes must
not pass over runs that nobody collected. Most of this project is about those
claims; the rest is about the two things the code does change: the directory of
a case, which is published once and whole, and the tag of its public laboratory,
the one reference it moves at GitHub.

File references are relative to `src/`. `PROJECT.json` maps every definition that
models code to the lines it models, and lists the runs, the mutants that show
each property can fail, the hazards and the theorems.

* [The system](#the-system)
* [Modules](#modules)
* [Runs, bounds and fairness](#runs-bounds-and-fairness)
* [What the violation runs show](#what-the-violation-runs-show)
* [TwoWriters](#twowriters)
* [Proofs](#proofs)
* [What is not modelled](#what-is-not-modelled)
* [Plan](#plan)

## The system

### How the parts interact

    cli (archive, investigate, replay)
      |  schedule of an invocation            collect.PlanIncrementalArchive
      v
    livecollect.Collector.CollectInto         worker goroutines, one channel
      |  per repository, sequentially:
      |    collect.Partitioner.Enumerate      windows of run creation times
      |    collect.AttemptCollector.Snapshot  attempts and jobs of one run
      |    githubapi logs  -> logparse        logs of each job and of the attempt
      |    setup and lifecycle correlation    what the runners resolved
      |    resolve.Resolver                   workflow and action files
      v
    one archive.Batch  --RetainRaw, Append-->  archive (SQLite + sidecar)
                                                   |  Snapshot
                                                   v
    analyze + match (findings)  ->  casegen/casefile (case directory)
                                            ^
    publiclab (tag move, records) ---> an incident pack

Processes share only the archive (its database file and its sidecar directory)
and the file system; goroutines of one process share the collector's `results`,
`firstErr` and the clock; everything else is sequential. GitHub changes while it
is read.

### Components

| component | state it keeps | operations | what is hard | what makes it correct |
|---|---|---|---|---|
| `archive` append | tables of the archive, sidecar files | `RetainRaw`, `Append` (`prepareBatch`, `commitBatch`) | two processes, death between transactions, a write after a read in a deferred transaction, order of commits | a batch is committed as a whole or not at all; the checkpoint is the latest offer; committed claims to raw bytes are true |
| `archive` snapshot | none (reads) | `Snapshot`, `normalizeSnapshot` | its queries share no read transaction | an accepted snapshot loses nothing that was committed before it began, and its checkpoint is backed by its facts |
| `collect` attempts | the passes of one run's snapshot | `AttemptCollector.Snapshot` | the run is re-run or completes between two requests | no attempt is lost in silence |
| `collect` partitioner | windows to be searched, runs assigned | `Enumerate`, probe and pages | search ceiling, pages shifting, boundaries, failures half way | windows tile the interval; no gap means no run is missing |
| incremental schedule | checkpoint: watermark and watched runs | plan, collect, write checkpoint | sequences of overlapping, explicit, failed invocations; reruns for 65 days | no attempt before the watermark is missing |
| collector pool | results, first error, channel, transient files | `collect`, `CollectInto` | worker failure against the feeding `select`, cancellation at any moment | nothing of a cancelled collection is committed; a collection ends |
| `match`, `analyze` | none | derive candidates and findings, merge them | precedence of ten states; order of facts; material gaps | a negative finding needs closed coverage; the order of facts decides nothing |
| `githubapi` client | attempts and redirects of one request | `get` | retries, redirects, exhaustion | every request ends; an exhausted retry is reported for what it is |
| `githubapi` logs | attempt, relocations and renewals of one download, the caller's writer | `acquireLogRedirect`, `fetchLogObject`, `copyBounded` | a location that expires, an object that breaks off, two limits | what is reported whole is one object; every download ends |
| setup correlation and historical definitions | per job what its runner resolved; for the attempt its workflows, object formats and content | `downloadAndParseAttempt`, `prepareLifecycleBindings`, `historicalAttempt.resolve` | logs lost at any step, tags that move between jobs, withheld formats, deleted content | without a gap every definition a job used is there; a job is told only what its own runner took |
| `resolve` | nodes, edges and diagnostics of one resolution | `ResolveWorkflow`, `ResolveAction` | recursion, depth, cycles, ambiguous identities | no identity is guessed; what is not followed has a gap |
| log correlation of steps | candidate views of a log | consolidated and per-step entries joined to steps | duplicate and renamed jobs | a join never guesses |
| `casegen` | staged files, a case database | write, project again, report, verify | rows that change between writing and reading | reports rest on the facts of the database; a re-read database agrees with what was written |
| `casefile` | staging directory, manifest | build, finalize, publish, verify, clean up | concurrent publisher, replaced staging directory, failing disk | a case directory is complete and never replaces another; nothing is left behind in silence |
| `publiclab` tag move | one public tag, record files | plan, move, read back, recover, record, derive a pack | another writer between lease and push, a push that arrives late, clocks | the record says what happened; a marker that is left behind comes with guidance |
| `packreview` | approval records and their hashes | assert, promote | records changed after a review | a promotion rests on the bytes that were reviewed |
| `ledger` | sequence and file | append, close | error half way | sequence numbers have no holes |

The remaining packages (parsers, rendering, packaging, demo data) are pure
functions or file production; `PROJECT.json` lists each with its reason.

## Modules

**`AtomicArchive`** is what an archive promises to those who use it: a set of
committed batches that grows by one batch per step, everything a replay sees
being a function of it, and a frontier (row and watch set) per repository that
only moves on. A batch is refused unless what it refers to is there.

**`ArchiveStore`** is `internal/archive` in detail. A `Writer` is a process with
the archive open. Its program counter walks through `RetainRaw` (`retain`,
`copy`, `sync`, `describe`), `verifyBatchRawPayloads` (`verify`), the first
transaction (`prepare`) and the second, which is split into its first read
(`read`) and the rest (`write`), because SQLite takes a deferred transaction's
snapshot at the first read and refuses its first write if another connection
has committed in between: `current` holds the writers whose snapshot is still
good. `Interrupt` is an error or the death of the process at any step; the
database variables and `object` (the files) survive. Batches, facts and evidence
are named by content hashes, so name and content are the same thing; a collection
session is not (its ID leaves out the end time), so its rows carry a body and
the conflict is modelled. The foreign keys are those of the schema: a link needs its
evidence, derived evidence its parents (`evidence_derivations`, `store/migrations.go:171`),
a checkpoint its repository, a watched parent its run.

**`ArchiveReplay`** adds a reader: one action per query of `Snapshot`, and
`normalizeSnapshot`'s decision. The queries share no read transaction, so a
snapshot that is accepted may mix moments (`docs/ARCHITECTURE.md:391` says
"readers may use a stable snapshot"); `ReplayBetween` and `CheckpointBacked`
state what holds nevertheless. What a dependency fact contradicts is the one reference
that no append and no foreign key looks at (`archive/normalize.go:240`); a view where
it is missing is `Unresolved`.

**`JobQuarantine`** is the pure part of `collect/attempts.go`: which job objects
of a response are kept, and when a log may still be joined to a kept job by its
name. **`AttemptSnapshot`** is the rest of that file: parent, attempts, job
lists, stabilization passes, with GitHub as an actor that lets the latest
attempt progress or complete and re-runs a completed run. An attempt is asked
for once (`collected`). Every change at GitHub moves `updated_at`; every gap is
material.

**`RunPartition`** is `collect/window.go`'s `Enumerate` with the probe and the
page walk of `githubapi/endpoints.go`, while runs appear in the listing and are
deleted. `todo` is the recursion's stack of windows. A repeated `next` link and
the page limit are cases of `PageFails`; a request that runs into its own deadline
stops the walk with a gap but keeps what was assigned (`AfterError`).

**`IncrementalArchive`** is one repository's archive command over many
invocations: the choice between an initial, explicit, fallback and resumed
schedule, the listing, new and watched runs, the checkpoint. An attempt at
GitHub starts strictly before `created + Horizon` (the constant the code calls
provisional). A run is collected in two steps, and GitHub goes on between them:
`ReadRun` reads which attempts there are, `CollectRun` takes the time of the refresh
when their jobs and logs have been fetched. `start`, `clipped` and `overtaken` are ghosts. A run
that is read with a gap leaves nothing behind, a watched run whose refresh fails blocks the watermark
as long as it fails, and the watch set has no overlap at its end
(`collect/window.go:364`).

**`CollectorPool`** is `livecollect/collector.go`: `Send` is the unbuffered
hand-over of a position, `Finish` the return of `collectRepository`,
`Interrupted` a request that failed because the work context was cancelled.
Gaps for other reasons are not distinguished. The sink is reduced to
`RetainRaw`, `Append` and their failure; `ArchiveStore` is its inside.

**`FindingDerivation`** is `match.Derive` and `analyze.deriveIndicator`: from the
facts of an archive to one state per indicator and subject. A candidate is the
set of the flags of `match.Candidate` that are true of it. `AppendBatch` lets the
archive grow, `Replay` derives everything anew from the facts in one of the
orders that the snapshot may list them in (facts are ordered by their hashes, so
any order is possible, but it is the same for the same facts). It has one run of
one repository and one component; provenance levels, the time filter of an
investigation, exposures, literal indicators, facts of a run without an attempt
and `appendUnique` (which drops a finding that is equal to an earlier one) are left
out. The findings of an indicator are a function from subject to state, coalesced by a
fold over the candidates. `WellFormed` says what the collectors guarantee of a batch
(`BatchesAssumption`): an Action that was started has its step and no other observation has
one, and a preparation that failed is written with its announcement. Package digests of references and the step key of a reference
without a contradiction do not occur: the collectors do not write them. With such step
keys (the demo data has them) two findings of one identity could show different steps, and
`mergeFindingRevisions` would end the replay with an error (`analyze/analyze.go:557`); that path is left out. The live
collector writes no expected counts, so a clean conclusion comes only from an archive
that has them; the model's coverage rows are of that kind.

**`CaseDatabase`** is the relational half of a case: what `casegen/generate.go`
writes from the snapshot, what `projection.go` accepts when it reads the database
again before a report is written, and what `casefile/verify.go` asks of a finished
case. `Projected` lists the tables the projection answers for; a lost session row
that leaves the kind of the case alone, rows of repositories and the tables of
evidence are not among them. **`CaseGeneration`** is the procedure around it: the
builder with its private staging directory, the files in the order they are written,
the manifest, the verification under both contracts, the rename that refuses to
replace, and the cleanup, which removes a staging directory only if it is the one
that was made. Paths lead to directories, and a step looks its files up by path, as the
code does. Rename and removal follow the path a step after the last look at it
(`LastLook` and `Publish`, `AbortStagedCase` and `RemoveAll`); `swapped` holds the
commands whose directory was replaced in between. `NewBuilderFails` is a builder that is
never made, whose own cleanup error the code discards. `Kill`, `Replace`, `Squat` and
`Edit` come from outside; `Reader` is `cirewind verify`.

**`TagMove`** is one invocation of the laboratory's `move-v1` per process: reserve the
record file, verify the worktree, read the remote, push with a lease, read back,
judge, write the record; then the pack input derived from a pair of records, and the
pack rendered from a committed one. The remote, other writers, an impatient
operator and a network that loses an answer or delivers a push late are actors.

**`LogDownload`** is one download: attempts, relocations and the one renewal of its
location, and the copy under two limits. **`DefinitionResolver`** is
`resolve/resolver.go` as operators on definitions (a place at a commit): the result of a
resolution with the visits still to be made, and one step that makes all of them
(`Advance`). The code goes depth first. A visit knows only what led to it (its depth and
the definitions on its way), so the order decides nothing about what is found.
**`AttemptEvidence`** composes both into what is collected of one attempt once its jobs
are known: every log in turn, the bindings its setup entries and the recorded calls
give, and the definitions that follow: first those of the Actions that setup entries show,
with the bindings of their job, then those of the workflows, with the bindings of all. What
the jobs really ran is a *world*, chosen after the logs; the invariants compare what was
collected with it, where what a job used is the least set of definitions that holds its
workflow and whatever a definition in it uses (`Reached`). `Candidate`, `Peeled`
and `Fetch` are answers of GitHub, whose derivation is abstracted.

Definitions whose names are followed by what they get wrong and whose comment
starts with "Fault:" are not part of any specification: each is the mutant by
which one property is shown to be falsifiable.

## Runs, bounds and fairness

| run | module | what it asks |
|---|---|---|
| `archive_two_writers` | `MC_ArchiveStore` | two processes append four batches in any order, fail and die anywhere: whole batches only, nothing of an uncommitted one visible, frontier latest, references closed, `AtomicArchive` refined, every append ends |
| `replay_while_appending` | `MC_ArchiveReplay` | a reader starts at any time while one process appends three batches and dies anywhere |
| `attempt_snapshot` | `MC_AttemptSnapshot` | no attempt is lost in silence, whatever changes and fails; for every job list up to a length, order decides nothing and refused names block joins |
| `incremental` | `MC_IncrementalArchive` | no silent hole over any sequence of invocations, but for the two losses `NoSilentHole` names; the watermark is never taken back, and a quiet collection that continues it brings it to its cutoff |
| `run_partition` | `MC_RunPartition` | silence is complete while runs only go or only appear; a quiet listing is exact |
| `collector_pool` | `MC_CollectorPool` | nothing cancelled is committed, causes are reported, files removed, it ends |
| `finding_derivation` | `MC_FindingDerivation` | what was prepared or started is reported, a clean conclusion is earned (but for a gap of the attempt without a job, which only gets a finding beside it), nothing is carried between attempts, the order of facts decides nothing, more facts withdraw nothing confirmed |
| `tag_move` | `MC_TagMove` | every record is one the tool accepts; a confirmed move was made by the move that says so; a marker left behind is told to the operator; a pack input rests on an install and a later restore that happened |
| `case_generate` | `MC_CaseGeneration` | a case is published once, and it is the command's own unless its directory is replaced between the last look and the rename; a staging directory is removed or reported, but for the removal's window and a builder that fails; reports rest on the database; what is accepted agrees with what was projected |
| `case_reobserved` | `MC_CaseGeneration` | finding: an archive with a changed repository or a re-read log cannot become a case |
| `attempt_evidence` | `MC_AttemptEvidence` | a whole log is one object; without a gap every definition a job used is collected; bindings stay with their job; every attempt is done with |
| `attempt_evidence_misnamed` | `MC_AttemptEvidence` | finding: a workflow file named like Action metadata ends the collection |

**Archive.** Four batches: two with different watermarks (so that an older one
commits last), one with an equal watermark and another watch set that refers to
rows only another batch writes (so foreign keys fail or not depending on order),
and one that clashes with another's session name. One raw object is shared by
two of them. Two writers are enough: every conflict in the code is between one
open transaction and one commit, or one file and one other user of it; the proofs
hold for any number. A batch may be appended any number of times, so resumption
and repetition happen.

**Replay.** One writer (with two, `RawBehindCommit` fails, see [TwoWriters](#twowriters),
and the reader adds nothing to it), three batches: one that starts the
repository, one that links new facts to old evidence, derives evidence from it and moves
the checkpoint, one without a checkpoint that worsens a capability and contradicts a
fact of the second: appended first, it leaves an archive that no replay accepts until
the second is there.

**Attempts.** Three passes (the default of the code) and four changes: enough for
a re-run that completes between two passes and for a spent budget. The quarantine is
evaluated on every job list of up to three objects.

**Partition.** Ceiling 4 and pages of 2 for 1000 and 100, four runs, seconds of
two instants, an interval of four seconds, a work limit of five windows: splits happen twice, a second can be
saturated, and a run can be created exactly on a midpoint, on the end of the
interval and in the last second of the cover. Three changes of the listing: the
totals of the pages and the probe detect any number of deletions, and any number of
late runs. A deletion and a late run can mask each other (without `OneKindOfChange`,
`SilenceIsComplete` is violated by two changes under a ceiling of six, with pages of one and
five runs): they leave the totals as they were, a listed run that moved across the page
boundary is in neither page, and the leaf is called complete. `OneKindOfChange` sets
that aside. Requests also start and end within a second.

**Incremental.** One run suffices because the code treats runs independently
of each other except for the watermark, which one failing collection
(`ReadRunPartly`, `ListRunsPartly`) holds back for all. Time is counted in
halves of the overlap; the horizon is two overlaps, a run may be missing from
listings for as long as the overlap (so that only the overlap finds it), `--since` is once shorter and once longer than the overlap,
`--to` may lie in the past (`Behind`) but not in the future (`Ahead = 0`). The code
allows it to lie in the future; the cutoff becomes the watermark all the same, so
runs created between the listing and that instant are behind the watermark and
not collected, and no property of the watermark holds then. Any number of instants
may pass, and an attempt may start, between the reading of a run and its refresh. `MaxTime` lets three invocations follow each
other past the horizon of the run.

**Pool.** Two workers, three repositories and one log each: a position is left
when both workers are busy or gone, which is what a deadlock of the feeding
`select` would need.

**Findings.** Two attempts, the first with two jobs, since evidence is matched by
attempt and job; four indicators, one per rule of the second loop, with one
affected commit and one affected package digest; two known-good identities. An
archive holds up to four facts (`MaxFacts`, coverage not counted): a prepared and
a started observation, a known-good one beside them and a gap or a reference are
what the rules compare. One batch announces a third commit in the affected package, so that
one observation is shadowed by another that is shadowed itself. Every order of the facts is
replayed.

**Tag move.** Two moves on one host (an install and a restore in either order, the
same twice), interchangeable and therefore symmetric; the targets A, B and any other;
one change by somebody else, one move interrupted or killed, four readings of the
clock, which two records of a pack input need if it moves on between each. Two gaps
of guidance are set aside in `NothingLeftBehind`: an install whose push fails without an
interruption while it is still under way, when A is read back, is recorded as
`FAILED_UNCHANGED` without guidance although the push may arrive later; and a
restore interrupted between its first reading (B) and the push is recorded as
`INTERRUPTED` without a recovery plan (`docs/PUBLIC_LAB_SPEC.md:293-295` asks for one).

**Case.** Two commands, symmetric, both contracts: v1 without and v2 with raw logs (the
program itself asks for v2, `analyze/analyze.go:1251`). The archives hold one
collection, the same listing read again in an archive or in the demo data, or a
renamed repository. A scenario has either one failing disk operation, one meddler and
one interruption, or two edits of files, at any step: three edits in the right order
(change the database, repair it while it is read, change it back) defeat the second
hash of the verification, two do not. The hash of all files is one step; so are
making the staging directory and the first look at it (`casefile.go:129-138`). The run has
about 1.1 million states. An edit after the last verification is found by the reader
only. A killed process leaves its staging directory, and nothing collects it.

**Attempt evidence.** Two jobs and a tag that may move between them; caller workflows
that use an Action by tag or commit, a local or opaque Action, a composite Action, a
called workflow or one of their own repository; in each world at most one thing is
withheld or broken, and a lost log is not combined with another fault. `MaxDepth` is
4 (10 in the code), so that the child of a nested Action below a called workflow is at
the limit. Downloads: two attempts, one relocation, three URLs, limits of two units and
objects of up to three. A resolution has its commit in every world: the parser accepts no
announcement without one (`logparse/parser.go:451`), and one that is dropped for another
reason leaves a gap. One limit of the code shows in this model: a withheld object format is
a gap in the scope of the first that asked for it, as the answer is kept.

**Fairness.** `ArchiveStore!FairSpec`: a process that appends keeps taking steps
until its append ends; nothing obliges it to start, and it may die. SQLite's
busy timeout bounds each wait for the write lock, so a step of another writer is
never waited for indefinitely. `CollectorPool!FairSpec`: a worker finishes the
repository it works on (the HTTP client has a timeout of two minutes, and
retries, redirects and pages are bounded), the runtime schedules goroutines
fairly, and a sink call returns. `AttemptEvidence!FairEvidenceSpec`: the collection of an
attempt goes on, since every request is answered or times out; that it comes to an
end is what its bounded retries, relocations, renewals and depth must show. No run
assumes that a request succeeds, that a run at GitHub completes, or that anyone starts
an invocation. Runs without fairness check safety only. Deadlock checking is off where
the program ends (attempt snapshot, partition, pool, tag move, case, attempt evidence)
and where the bounded time ends (incremental).

## What the violation runs show

* **`case_reobserved`** (code): a case database has one row per repository, per derived
  piece of evidence and per evidence error, and `persistCase` inserts them without the
  `ON CONFLICT` with which the archive stores the same rows. An archive in which a later
  collection found a repository renamed or made private, or interpreted the same log
  again, is a good archive that no case can be generated from.
* **`attempt_evidence_misnamed`** (code): the resolver names the node of a definition by
  what it is and the origin of its edges by how its path ends. A workflow file whose
  name ends in `action.yml` and that uses an Action gets edges from a node that is not
  there, which is an error and not a gap: it ends the collection of every repository,
  and nothing is archived.

`PROJECT.json` quotes the line of the documentation each of them disagrees with.

Known limits, seen while modelling and set aside in the properties rather than run:

* `RetainRaw` creates an object under its final name; a process that dies while copying
  leaves a partial file, which later collections of the same bytes refuse to use until
  somebody deletes it by hand.
* Attempts of a run are read once. When the run moves between two passes, a stable
  snapshot without gaps may hold its latest attempt as it was while in progress
  (`docs/GITHUB_DATA_SOURCES.md` asks for a revisit).
* `strongerRuntimeObservationExists` (`analyze/analyze.go:845`) takes two observations of
  the same commit for the same identity although only one has the package digest: a
  prepared package with an affected digest is hidden by a started Action of that commit
  (`docs/EVIDENCE_MODEL.md:175` calls it CONFIRMED_DOWNLOADED). The same holds through a
  chain: an affected announcement gives way to an affected preparation, and that one to a
  start that is not affected. `AffectedIsReported`, `NegativeIsEarned` and
  `ConfirmedStands` set such observations aside (`Shadowed`).
* A clean conclusion about a job survives a material gap of its attempt that names no job:
  `hasMaterialGap` (`analyze/analyze.go:875`) compares the job, so a log or a definition
  that is missing for the whole attempt gets a finding of the attempt, and the job keeps
  `NO_MATCH_CONFIRMED`. A gap of the repository, without an attempt, is dropped once
  anything was found (`:466`). `docs/EVIDENCE_MODEL.md:181` says "Any material missing
  attempt/source/parser coverage produces a gap instead", `docs/ARCHITECTURE.md:680` that
  any gap that can change the match becomes `UNKNOWN_EVIDENCE_GAP`. `NegativeIsEarned`
  says what the code does: no material gap of the job, and one of its attempt has a finding beside it
  that is not clean. The run `finding_derivation` reaches such a pair.
* `prepareLifecycleBindings` is given the evidence ID of the attempt's *log*, so facts about
  called workflows cite the log instead of the attempt resource they were read from
  (`docs/EVIDENCE_MODEL.md:176`).
* `collectParentRun` counts the attempts of a run, downloads all their logs and takes the
  time of the refresh after that (`livecollect/repository.go:239`, `:260`). An attempt that
  starts in between and before the watch horizon is missed, and when the time taken is past
  the horizon the refresh counts as final: the next plan drops the parent
  (`collect/window.go:364`) and the watermark passes the attempt without a gap.
  `docs/ARCHITECTURE.md:396` asks for "a successful final refresh, and boundary overlap";
  the code has no overlap there. `NoSilentHole` sets such attempts aside (`overtaken`); without
  that, `incremental` fails after fifteen states.
* `normalizeBatch` does not ask for the facts that a dependency fact contradicts, and no
  foreign key does; `normalizeSnapshot` does. An append that brings such a fact alone is
  committed, and no replay is accepted until the other fact is appended. The collector
  puts both in one batch (`persistResolutionEdge`, `livecollect/historical_facts.go:93`), and
  for such batches nothing of this happens (`CollectedReplayTheorem`).
* `Finalize` looks at the staging directory by handle and renames it by path
  (`casefile.go:293`, `:296`): a directory that another program puts there in between is
  published, and the command returns success. `Abort` looks and removes by path too (`:316`,
  `:326`): such a directory is removed, and the command's own, moved elsewhere, is left without a
  word. `OneCase`, `CleansUp` and `ReportsRestOnFacts` name these two windows (`swapped`).
  A `newBuilder` that fails after it made the directory discards the error of its own
  `os.Remove` (`:134`, `:139`, `:144`), so that directory may be left in silence
  (`pc` is `"unbuilt"`).
* A log that breaks off at exactly its limit is reported as too long.

## TwoWriters

`RetainRaw` treats a file whose bytes verify as retained. With two processes on
one archive that is too early: process A has copied the last byte of an object
and not yet decided to keep it; process B finds the file, verifies it, records its
descriptor and commits a batch that claims it; A is cancelled and removes the
file (`archive/raw.go:350`). B's batch is committed, its bytes are gone, and every later
replay reports the raw log as a gap. With one process the property holds, and is
proved (`RawTheorem`, from the assumption `OneWriter`), which is the use the
documentation names: `docs/ARCHITECTURE.md:391` asks to lock one archive for one
writer. No lock is in the code.

## Proofs

All proofs hold for every value of the constants that satisfies the named
assumptions of the modules.

**`ArchiveStore_proofs`** (any number of writers, batches, digests).
`TypeCorrect`. `WholeTheorem`: `CommittedWhole` is not inductive, since the
second transaction does not write the sessions that it is to be whole with; the
invariant adds that a batch that is at least PREPARED has its sessions
(`PreparedSessions`) and that a writer past the first transaction works on such
a batch (`PastPrepare`). `UncommittedInvisible` (`NothingUncommitted`),
`FrontierTheorem` (from `AdvancesIsOrder`: what may replace a checkpoint is not
earlier) and `ReferencesTheorem`. `RawTheorem`: `RawBehindCommit` under
`OneWriter`; the invariant says that a descriptor has its bytes unless the one
writer is copying them. `Implements`: `Spec => AtomicArchive`, each step a step
of the abstract archive or a stutter. It rests on `CurrentInv`: a writer whose
snapshot is still current works on a batch nobody has committed meanwhile, so a
batch is committed once. The module also has the theorems about `ArchiveReplay`, which
extends the store. `ReplayTheorem` (`ReplayBetween`, any writers and moments of reading):
what a query read was committed when it was asked, and what was committed when the reader
started is in every later answer. A refusal means that the sets the queries read
differ, hence that the archive changed, or that a fact of the archive contradicts one that it
does not hold. `CollectedReplayTheorem` removes the second: if each batch holds what its facts
contradict (`ContradictedTogether`, which holds for what the collector writes), a replay is
refused only when the archive changed while it was read. `CheckpointTheorem` (`CheckpointBacked`) needs
`OneBatchPerSession`, that no two batches bring a collection session of one name: with two
of them a snapshot may find the session of one and the checkpoint of the other.

**`AttemptCollection_proofs`** (any number of passes, changes and job lists; for the logs any
limits, relocations and attempts, from `LogDownloadAssumption`).
The inductive `Inv` adds to the type that the parent the collector works from
is one GitHub had and is no newer than the present (`CurrentInv`), that the
attempt numbers dealt with are bundled or have their gap (`CollectedInv`), that
what was read in this pass is what GitHub holds as long as the run has not
changed (`FreshInv`), and what a finished snapshot holds (`FinalInv`).
`CoverTheorem`, `SilenceTheorem` and `LastPassTheorem` follow. For the quarantine, no
induction is needed: a permutation of a list carries each reason to refuse a job
to the position the job came from (`PermutedPositions`), so the kept jobs, the gaps and
the refused names are the same sets (`OrderIsNothing`); and the kept jobs, which have
different IDs, do have an order by ID that contains all of them (`SortExists`, by the
rank of each job), so that a job missing from it was refused (`RefusedNames`). Both
hold for every job list of any length; `OrderTheorem` and `JoinTheorem` restate them
for the run's properties. `ResponsesAssumption` says only that IDs and runs are
numbers. About a download, `DownloadInvariance`: the writer is empty until the location
that will be read is opened (`EmptyBefore`), and then holds a prefix of that object
(`OwnPrefix`), all of it at the end (`WholeIsAll`). `OneBodyTheorem` follows, and
`EveryLogTheorem` for the downloads that follow each other in the collection of an attempt.

For the definitions of an attempt (any jobs, definitions, cycles among them, depth limit and
number of worlds) `WorldsAssumption` says of the worlds what the model means by one: what is
told may be missing, but does not contradict what happened (`Consistent`). About the resolver
three facts are proved of any inputs. A declaration that leaves no gap has a target with
content, which becomes a node and is visited (`FollowLeads`). A resolution that
has no gap so far has for each node either a visit to make or a node for each of its
declarations (`Complete`; `RootComplete`, `AdvanceComplete`), which is why it is closed when
no visit is left. An edge that is bound to what runners took is bound to the only thing
they took (`Bindable`; `FollowBinds`, `AdvanceBinds`). What the jobs ran enters in
`TargetIsTrue`: if every setup entry of a started job was read to its end and every recorded
call is known, what the resolver takes a declaration for is what it stood for. A closed set
with the caller in it therefore covers what a job used (`UsedIsCovered`), as that is the
least such set; no induction over the definitions is needed. The inductive invariant
`EvidenceInv` carries these facts to the last step: what an attempt without a gap knows
(`SetupSound`, `CallsSound`), that nothing is bound before its time (`InTime`), that the
lost log of the attempt, without which there are no setup entries, is a gap (`AttemptLogTold`), and
the state of each resolution (`ResultsSound`, `WorkflowsSound`) and edge (`EdgesSound`).
`DefinitionSilenceTheorem` and `BoundToItsJobTheorem` follow. `DefinitionSilence` is not
inductive as it stands, as it speaks of the end only.

**`RunPartition_proofs`** (any finite set of runs, any ceiling that is a multiple of the page
length, as 1000 is of 100, any interval and number of changes). `InvHolds`: the windows still
to be searched lie end to end up to the end of the cover (`Tiled`, from `SplitTiles`: the halves meet on a
full second). While a window is listed (`PagesInv`), it holds no fewer runs than the probe
counted if runs only appear and no more if they only go; so equal totals mean that it holds the
very runs it held, and since a page is a range of ranks, the pages read so far are the newest runs
(`PageFacts`). A listing that is neither short nor of another total than the probe's therefore has all of
its window (`LastPageFacts`). `SilenceInv` and `QuietInv` say the same of the windows before
`Frontier`; in a quiet listing each gap is one crowded second, counted once. `SilenceTheorem`
(`SilenceIsComplete`) and `QuietTheorem` (`QuietIsExact`) follow, as every run of the request lies in
the cover (`RequestedIsCovered`).

**`CollectorPool_proofs`** (any number of repositories, workers and logs).
The inductive `Inv`: every position that was sent is with a worker or has its
result, at its own place (`SentInv`, `PlaceInv`); feeding stops early only for a
cancellation or an error (`FedInv`); the batch is assembled after all workers have
left (`LeftInv`); a request is interrupted by nothing but a cancellation or an
error (`InterruptedInv`); the first error is a cancellation only if the caller
cancelled (`CauseInv`); what is delivered is whole (`DeliveredInv`).
`WholeTheorem` and `CauseTheorem` follow. `TransientTheorem` (`TransientRemoved`): a
position is with at most one worker and is sent once, so no result is overwritten, and a
transient file belongs to a result or to a repository that is still collected; when all
workers have left, the results name every file there is to remove.

**`IncrementalArchive_proofs`** (any runs, attempts, invocations, overlap and horizon).
`NoSilentHoleTheorem` under `Timely`: listings lag no longer than the overlap, and no
cutoff lies after the present. Neither is checked by the code; `Timely` names what it relies
on; and but for what `NoSilentHole` itself sets aside: runs where an explicit start cut the
overlap off (`clipped`), and attempts that started while their run was collected for
what counts as its last refresh (`overtaken`). `NoSilentHole` is not inductive, as it says nothing of the invocation
that is going to write the next checkpoint. `CheckpointInv` adds what the watch set is for: a run is watched, or is
out of its horizon and all of it archived or overtaken. `ScheduleInv` says that an invocation that may move the watermark
begins at least an overlap before it and takes over the parents, and `CollectInv` that what it has seen so far
is all there was to see. `NoSilentStallTheorem` (an invocation that is not complete has
a gap, `GapsInv`) and `WatermarkTheorem` (an action property) need no assumption.

**`CaseGeneration_proofs`** (any number of commands, any archive, any number of the modelled
failures and interferences; from `NamesAssumption`). The inductive `Inv`: what the paths hold
(`PathsType`), what other programs made is not removed unless it was put in the place of a
directory after the last look (`OthersStand`), a working command's staging path leads to
its own directory, to the one somebody put there, or nowhere, and then its directory is
gone; between a look and the rename or removal only a swap leads it elsewhere
(`StagingInv`); and what a returned command leaves (`OutcomeInv`). `CleanupTheorem`:
`CleansUp`. `PublishedTheorem`: the case a command reported stays at the target, but for
`swapped`. The next two count what may
go wrong (`ScenariosAreCounts`) and fail beyond their bounds, as TLC shows.
`ReportsTheorem` (`ReportsRestOnFacts`) under `OneFault`, at most one lost or altered row
or failing file in a command's life: two faults may take a collection session and the reference of its
batch together, which the projection cannot see. `ReportsInv` follows the database from
`Written` (as persisted but for one row) over the projection, which accepts it only as written
(`ReprojectsRows`), to the reports. `AcceptedTheorem` (`AcceptedAgrees`) under `TwoEdits`: a third edit may
put back what the first changed. `AgreesInv` says what a verification may find
before it opens the database (`BeforeOpening`) and after (`AfterOpening`), in terms of the edits
that are left; `ForeignInv` and `TargetInv` say whose files it may be reading.
`OneCaseTheorem` (`OneCase`): while nothing goes wrong, each command is on its way with exactly
what it wrote (`AsWritten`, `Checking`), or has met the case of another (`CalmInv`). It rests on
`WrittenIsAccepted`: the projection and the verification accept a database as it is
written, for every snapshot that is `WellFormed` (`ArchivesAssumption`: a collection, findings
with names of their own, a repository for them to refer to), and on `FilesAssumption`, by which a
file can be told from none.

**`TagMove_proofs`** (any number of moves, interruptions and foreign changes; from
`TagMoveAssumption`). `Inv`: the histories lie in the past (`PastInv`), a push that was
applied was sent (`WireInv`), a result says what was read (`ResultInv`).
`ConfirmedTheorem` follows: who reports a verified move made it. `DerivationTheorem`:
the readings of a move enclose the moment of its push (`DatesInv`) and the moves were
applied in the order of those moments (`OrderInv`), so the pair a pack input is
derived from (`DerivedInv`) is an install and a later restore. `RecordTheorem`: every record that is
encoded passes the tool's own validation (`ShapeInv`). `LeftBehindTheorem` (with the two
endings of `Unguarded` set aside): the move that changed the tag last had its push applied (`WriterInv`), and what a move knows at
each of its steps decides the guidance it ends with (`Left`).

**`FindingDerivation_proofs`** (any facts, indicators and known-good identities). Rules,
not invariants: a clean conclusion of `match.Derive` rests on closed coverage and not
on an affected identity (`NegativeIsClosed`); a confirmed one on the exact identity,
never a known-good one (`ConfirmedIsExact`); a considered affected observation is
reported as what the log proves (`AffectedDerivation`); the merge of two findings
ranks no lower than either (`MergeClimbs`), never makes one clean
(`MergeNeverClears`) and commutes but for two states that share no subject
(`MergeCommutes`). About whole replays, all five properties of the run are theorems: `AffectedTheorem`
(`AffectedIsReported`), `NegativeTheorem` (`NegativeIsEarned`), `ConfirmedTheorem`
(`ConfirmedStands`), `StableTheorem` (`ReplayIsStable`) and `CarryTheorem` (`NoCarryForward`).
They rest on `BatchesAssumption` and one invariant: the archive is well formed, and the findings are derived
from facts that are still in it, from all of them when the replay is fresh.
`StepByStep` is the induction over the steps of the merge, stated for the set of subjects
and states that are reached, and `Outranked` what it gives: no finding is
lost but to one that ranks as high. For the order of the facts that is not enough, as
the merge is not associative. `EveryOrderSettles` shows that the states a subject
can get are unambiguous (observations of one subject share their coverage, announcements give way to what
was prepared, mutable references do not count beside an exact identity), so that at
most one outcome of the merge is possible (`SettledOnce`, `OrderDecidesNothing`). For
`NoCarryForward`, the states of a subject depend on the facts of its own attempt
(`StatesOfAttempt`), and what the gaps add concludes nothing (`GapsConcludeNothing`).

Only model-checked: liveness (`AppendEnds`, `CollectionEnds`, `AttemptEnds`), since the
provers used here do not reason about fairness. Every
invariant and every action property of a passing run is stated by a theorem.

## What is not modelled

* Of the archive: budgets, export and import, metadata, `Finalize`, the immutable
  connection of a replay, errors of a collision between contents of equal hashes,
  and the loss of power (a process may die; what it wrote is there). I/O errors
  and constraint errors other than the listed ones are an `Interrupt`.
* Of a repository's collection: the grammar of logs and the correlation of log regions
  with steps and composite Actions; the bindings of steps; the projection of exposures;
  enrichment; the retention of raw logs while an attempt is collected (`CollectorPool`
  has its removal); facts that repeat what was recorded; the peel of an object, the
  caller's derivation from the event and the fetch of a file, which are answers.
* Of a case: the rows of evidence, payloads, indicators and propositions, the
  field-by-field validation of its metadata and size budgets.
* Of the HTTP client: the attempts and redirects of a typed request, which other
  modules take for one request that succeeds or fails (`LogDownload` has its own loop
  in the code, and that loop is modelled).
* Pack review, promotion, the release tools, the public lab's recorded runs and its
  bundle: each a sequential check of files, without state between its steps.
* Rendering, packaging, parsing of packs and workflows; hashes are taken as
  injective.

## Plan

Done: `AtomicArchive`, `ArchiveStore`, `ArchiveReplay`; `JobQuarantine`,
`AttemptSnapshot`; `RunPartition`, `IncrementalArchive`; `CollectorPool`;
`FindingDerivation`; `TagMove`; `CaseDatabase`, `CaseGeneration`; `LogDownload`,
`DefinitionResolver`, `AttemptEvidence`.

Worth adding, in this order:

1. the join of log regions to steps and composite Actions (`livecollect/lifecycle.go`,
   `composite_lifecycle.go`) as a continuation of `AttemptEvidence`;
2. the typed requests of the HTTP client: attempts, redirects (whose targets are
   remembered from one retry to the next) and the class of the last error;
3. the windows of an investigation and provenance levels in `FindingDerivation`;
4. the composition of pool, archive and schedule, with an abstract schedule as a
   property.
