---------------------- MODULE AttemptCollection_proofs ----------------------
(***************************************************************************)
(* Proofs about what is read of one run: its attempts and their jobs, for  *)
(* every number of passes, every number of changes at GitHub and every set *)
(* of job lists; and a log of it, for every limit, every set of            *)
(* relocations and every number of attempts to get it.                     *)
(***************************************************************************)
EXTENDS AttemptSnapshot, AttemptEvidence, FiniteSetTheorems, TLAPS

\* GitHub changes only the latest attempt, at the time of the change.
LatestInv ==
  github.attempts[Latest].at = github.updated

\* The parent a pass works from is not ahead of GitHub.
CurrentInv ==
  pc \in {"pass", "attempt", "jobs"} =>
    /\ current.attempt <= Latest
    /\ current.updated <= github.updated
    /\ collected \subseteq 1 .. current.attempt
    /\ ~snapshot.stable

\* Nothing is known before the parent has been read.
BeginInv ==
  pc = "begin" => /\ collected = {} /\ snapshot.attempts = {}
                  /\ ~snapshot.stable

\* The attempt in hand is one the parent has and that is not collected.
BundleInv ==
  pc = "jobs" => bundle.attempt \in Pending /\ bundle.pass = pass

\* The attempts dealt with are those in the snapshot and those with a gap.
CollectedInv ==
  /\ \A a \in collected :
       a \in Bundled \/ Gap("workflow_run_attempt", a) \in snapshot.gaps
  /\ Bundled \subseteq collected
  /\ \A b \in snapshot.attempts : b.pass <= pass

\* While the run stands still, what this pass read of an attempt is current.
FreshInv ==
  (pc \in {"pass", "attempt", "jobs"} /\ github.updated = current.updated) =>
    /\ \A b \in snapshot.attempts :
         b.pass = pass => b.version = github.attempts[b.attempt]
    /\ pc = "jobs" => bundle.version = github.attempts[bundle.attempt]

\* A stable snapshot ends with a parent that GitHub has had.
FinalInv ==
  (Done /\ snapshot.stable) =>
    /\ snapshot.final \in ParentRecord
    /\ snapshot.final.attempt <= Latest
    /\ collected \subseteq 1 .. snapshot.final.attempt

Inv ==
  /\ TypeOK /\ LatestInv /\ BeginInv /\ CurrentInv /\ BundleInv
  /\ CollectedInv /\ FreshInv
  /\ FinalInv /\ StableCoversAttempts /\ SilenceIsComplete /\ StableLastPass

\* The invariant holds before the first request.
LEMMA InitInv == Init => Inv
  <1> SUFFICES ASSUME Init PROVE Inv
    OBVIOUS
  <1> USE BoundsAssumption DEF Init
  <1>1. TypeOK /\ LatestInv
    BY DEF TypeOK, LatestInv, Latest, Version
  <1>2. /\ BeginInv /\ CurrentInv /\ BundleInv /\ CollectedInv /\ FreshInv /\ FinalInv
        /\ StableCoversAttempts /\ SilenceIsComplete /\ StableLastPass
    BY DEF BeginInv, CurrentInv, BundleInv, CollectedInv, FreshInv, FinalInv, Bundled, Done,
           StableCoversAttempts, SilenceIsComplete, StableLastPass
  <1> QED BY <1>1, <1>2 DEF Inv

\* The parent record GitHub answers with.
LEMMA ParentType ==
  ASSUME TypeOK
  PROVE  /\ Parent \in ParentRecord
         /\ Latest \in Nat \ {0}
         /\ Parent.attempt = Latest /\ Parent.updated = github.updated
         /\ Parent.done = github.attempts[Latest].done
         /\ github.attempts[Latest] \in Version
         /\ \A a \in 1 .. Latest : github.attempts[a] \in Version
         /\ github.updated \in Nat
  <1>1. github.attempts \in Seq(Version) /\ github.attempts # <<>> /\ github.updated \in Nat
    BY DEF TypeOK
  <1>2. Latest \in Nat \ {0} /\ \A a \in 1 .. Latest : github.attempts[a] \in Version
    BY <1>1 DEF Latest
  <1>3. github.attempts[Latest] \in Version
    BY <1>2
  <1>4. Parent \in ParentRecord /\ Parent.attempt = Latest
        /\ Parent.updated = github.updated /\ Parent.done = github.attempts[Latest].done
    BY <1>1, <1>2, <1>3 DEF Parent, ParentRecord, Version
  <1> QED BY <1>1, <1>2, <1>3, <1>4

\* GitHub moves under the collector: the latest attempt alone changes.
LEMMA GitHubStep ==
  ASSUME Inv, GitHub
  PROVE  Inv'
  <1>0. TypeOK BY DEF Inv
  <1>1. /\ github' \in [updated : Nat, attempts : Seq(Version)] /\ github.attempts' # <<>>
        /\ LatestInv' /\ UNCHANGED collector
        /\ github.updated' = github.updated + 1
        /\ Latest' \in Nat /\ Latest' >= Latest
        /\ \A a \in 1 .. (Latest - 1) : github.attempts'[a] = github.attempts[a]
        /\ Latest' = Latest \/ github.attempts'[Latest] = github.attempts[Latest]
    <2>1. CASE RunProgress
      <3>1. PICK done \in BOOLEAN : github' =
              [updated |-> github.updated + 1,
               attempts |-> [github.attempts EXCEPT ![Latest] =
                              [done |-> done, at |-> github.updated + 1]]]
        BY <2>1 DEF RunProgress, Change
      <3>2. [done |-> done, at |-> github.updated + 1] \in Version
        BY <1>0, ParentType DEF Version
      <3>3. github.attempts \in Seq(Version) /\ Latest = Len(github.attempts)
        BY <1>0 DEF TypeOK, Latest
      <3>4. /\ github.attempts' \in Seq(Version) /\ Len(github.attempts') = Latest
            /\ github.attempts'[Latest] = [done |-> done, at |-> github.updated + 1]
            /\ \A a \in 1 .. (Latest - 1) : github.attempts'[a] = github.attempts[a]
        BY <3>1, <3>2, <3>3, <1>0, ParentType
      <3> QED
        BY <2>1, <3>1, <3>4, <1>0, ParentType DEF RunProgress, LatestInv, Latest
    <2>2. CASE Rerun
      <3> DEFINE new == [done |-> FALSE, at |-> github.updated + 1]
      <3>1. github' = [updated |-> github.updated + 1, attempts |-> Append(github.attempts, new)]
        BY <2>2 DEF Rerun, Change
      <3>2. new \in Version
        BY <1>0, ParentType DEF Version
      <3>3. github.attempts \in Seq(Version) /\ Latest = Len(github.attempts)
        BY <1>0 DEF TypeOK, Latest
      <3>4. /\ github.attempts' \in Seq(Version) /\ Len(github.attempts') = Latest + 1
            /\ github.attempts'[Latest + 1] = new
            /\ \A a \in 1 .. Latest : github.attempts'[a] = github.attempts[a]
        BY <3>1, <3>2, <3>3
      <3>5. Latest' = Latest + 1 /\ new.at = github.updated + 1
        BY <3>4 DEF Latest
      <3>6. github.updated' = github.updated + 1 /\ github.attempts' # <<>>
            /\ github' \in [updated : Nat, attempts : Seq(Version)]
        BY <1>0, <3>1, <3>4, ParentType
      <3>7. LatestInv'
        BY <3>4, <3>5, <3>6 DEF LatestInv
      <3> HIDE DEF new
      <3> QED
        BY <2>2, <3>4, <3>5, <3>6, <3>7, <1>0, ParentType DEF Rerun
    <2> QED BY <2>1, <2>2 DEF GitHub
  <1>2. UNCHANGED <<Pending, Bundled, Done>>
    BY <1>1 DEF collector, Pending, Bundled, Done
  <1>3. TypeOK'
    BY <1>0, <1>1 DEF TypeOK, collector
  <1>4. CurrentInv'
    <2>1. CurrentInv BY DEF Inv
    <2>2. ASSUME pc \in {"pass", "attempt", "jobs"}
          PROVE  current.attempt <= Latest' /\ current.updated <= github.updated'
      <3>1. current.attempt \in Nat /\ current.updated \in Nat
        BY <1>0, <2>2 DEF TypeOK, ParentRecord
      <3> QED BY <1>0, <1>1, <2>1, <2>2, <3>1, ParentType DEF CurrentInv
    <2> QED BY <1>1, <2>1, <2>2 DEF CurrentInv, collector
  <1>5. BeginInv' /\ BundleInv' /\ CollectedInv'
    BY <1>1, <1>2 DEF Inv, BeginInv, BundleInv, CollectedInv, collector
  <1>6. FreshInv'
    \* The parent in hand is now out of date.
    <2>1. ASSUME pc \in {"pass", "attempt", "jobs"}
          PROVE  github.updated' # current.updated
      <3>1. current.updated \in Nat
        BY <1>0, <2>1 DEF TypeOK, ParentRecord
      <3> QED BY <1>0, <1>1, <2>1, <3>1, ParentType DEF Inv, CurrentInv
    <2> QED BY <1>1, <2>1 DEF FreshInv, collector
  <1>7. FinalInv'
    <2>1. ASSUME Done, snapshot.stable
          PROVE  snapshot.final.attempt <= Latest'
      <3>1. snapshot.final.attempt \in Nat /\ snapshot.final.attempt <= Latest
        BY <2>1 DEF Inv, FinalInv, ParentRecord
      <3> QED BY <1>0, <1>1, <3>1, ParentType
    <2> QED BY <1>1, <1>2, <2>1 DEF Inv, FinalInv, collector
  <1>8. StableCoversAttempts' /\ SilenceIsComplete'
    BY <1>1, <1>2 DEF Inv, StableCoversAttempts, SilenceIsComplete, collector
  <1>9. StableLastPass'
    \* Attempts before the final one had been over for good.
    <2>1. ASSUME Done, snapshot.stable, NEW b \in snapshot.attempts,
                 b.pass = pass, b.attempt # snapshot.final.attempt
          PROVE  b.version = github.attempts'[b.attempt]
      <3>1. b.version = github.attempts[b.attempt]
        BY <2>1 DEF Inv, StableLastPass
      <3>2. b.attempt \in 1 .. snapshot.final.attempt
        BY <2>1 DEF Inv, FinalInv, CollectedInv, Bundled
      <3>3. b.attempt \in 1 .. (Latest - 1)
        BY <1>0, <2>1, <3>2, ParentType DEF Inv, FinalInv, ParentRecord
      <3> QED BY <1>1, <3>1, <3>3
    <2> QED BY <1>1, <1>2, <2>1 DEF Inv, StableLastPass, collector
  <1> QED BY <1>1, <1>3, <1>4, <1>5, <1>6, <1>7, <1>8, <1>9 DEF Inv

\* Adding gaps keeps the rest of the snapshot.
LEMMA AddGapsType ==
  ASSUME TypeOK, NEW more \in SUBSET [scope : Scope, attempt : Nat]
  PROVE  /\ AddGaps(more).gaps = snapshot.gaps \union more
         /\ AddGaps(more).attempts = snapshot.attempts
         /\ AddGaps(more).stable = snapshot.stable
         /\ AddGaps(more).final = snapshot.final
         /\ AddGaps(more) \in [initial : ParentRecord \union {Nothing},
                               final : ParentRecord \union {Nothing},
                               attempts : SUBSET Bundle,
                               gaps : SUBSET [scope : Scope, attempt : Nat],
                               stable : BOOLEAN]
  BY DEF TypeOK, AddGaps

\* A snapshot that ends without having stabilised, for which it left a gap.
LEMMA FinishStep ==
  ASSUME Inv, pc \in {"begin", "pass", "attempt"},
         NEW g \in [scope : Scope, attempt : Nat],
         NEW end \in ParentRecord \union {Nothing},
         Finish([AddGaps({g}) EXCEPT !.final = end])
  PROVE  Inv'
  <1>0. TypeOK BY DEF Inv
  <1>1. ~snapshot.stable
    BY DEF Inv, CurrentInv, BeginInv
  <1>2. /\ snapshot'.gaps = snapshot.gaps \union {g}
        /\ snapshot'.attempts = snapshot.attempts
        /\ ~snapshot'.stable
        /\ snapshot' \in [initial : ParentRecord \union {Nothing},
                          final : ParentRecord \union {Nothing},
                          attempts : SUBSET Bundle,
                          gaps : SUBSET [scope : Scope, attempt : Nat],
                          stable : BOOLEAN]
    BY <1>0, <1>1, AddGapsType DEF Finish
  <1>3. pc' = "done" /\ UNCHANGED <<github, pass, current, collected, bundle>>
    BY DEF Finish
  <1>4. TypeOK'
    BY <1>0, <1>2, <1>3 DEF TypeOK
  <1>5. LatestInv' /\ CurrentInv' /\ BundleInv' /\ FreshInv' /\ BeginInv'
    BY <1>3 DEF Inv, LatestInv, Latest, CurrentInv, BundleInv, FreshInv, BeginInv
  <1>6. CollectedInv'
    BY <1>2, <1>3 DEF Inv, CollectedInv, Bundled
  <1>7. FinalInv' /\ StableCoversAttempts' /\ SilenceIsComplete' /\ StableLastPass'
    BY <1>2, <1>3 DEF FinalInv, StableCoversAttempts, SilenceIsComplete, StableLastPass
  <1> QED BY <1>4, <1>5, <1>6, <1>7 DEF Inv

LEMMA GetParentStep ==
  ASSUME Inv, GetParent
  PROVE  Inv'
  <1>0. TypeOK BY DEF Inv
  <1>1. /\ pc' = "pass" /\ current' = Parent /\ collected = {} /\ snapshot.attempts = {}
        /\ UNCHANGED <<github, pass, collected, bundle>>
        /\ ~snapshot.stable
    BY DEF GetParent, Inv, BeginInv
  <1>2. /\ snapshot'.gaps = snapshot.gaps /\ snapshot'.attempts = {} /\ ~snapshot'.stable
        /\ TypeOK'
    BY <1>0, <1>1, ParentType DEF GetParent, TypeOK
  <1>3. LatestInv' /\ CurrentInv' /\ BundleInv' /\ BeginInv'
    BY <1>0, <1>1, <1>2, ParentType
       DEF Inv, LatestInv, Latest, CurrentInv, BundleInv, BeginInv, ParentRecord
  <1>4. CollectedInv' /\ FreshInv'
    BY <1>1, <1>2 DEF CollectedInv, FreshInv, Bundled
  <1>5. FinalInv' /\ StableCoversAttempts' /\ SilenceIsComplete' /\ StableLastPass'
    BY <1>1 DEF FinalInv, StableCoversAttempts, SilenceIsComplete, StableLastPass, Done
  <1> QED BY <1>2, <1>3, <1>4, <1>5 DEF Inv

LEMMA StartPassStep ==
  ASSUME Inv, StartPass
  PROVE  Inv'
  <1>1. pc = "pass" /\ pc' = "attempt"
        /\ UNCHANGED <<github, pass, current, collected, bundle, snapshot>>
    BY DEF StartPass
  <1>2. TypeOK' /\ LatestInv' /\ CurrentInv' /\ BundleInv' /\ BeginInv'
    BY <1>1 DEF Inv, TypeOK, LatestInv, Latest, CurrentInv, BundleInv, BeginInv
  <1>3. CollectedInv' /\ FreshInv'
    BY <1>1 DEF Inv, CollectedInv, FreshInv, Bundled
  <1>4. FinalInv' /\ StableCoversAttempts' /\ SilenceIsComplete' /\ StableLastPass'
    BY <1>1 DEF FinalInv, StableCoversAttempts, SilenceIsComplete, StableLastPass, Done
  <1> QED BY <1>2, <1>3, <1>4 DEF Inv
LEMMA GetAttemptFailsStep ==
  ASSUME Inv, NEW a, GetAttemptFails(a)
  PROVE  Inv'
  <1> DEFINE g == Gap("workflow_run_attempt", a)
  <1>0. TypeOK BY DEF Inv
  <1>1. /\ pc = "attempt" /\ a \in Pending
        /\ collected' = collected \union {a} /\ snapshot' = AddGaps({g})
        /\ UNCHANGED <<github, pc, pass, current, bundle>>
    BY DEF GetAttemptFails, IsNext
  <1>2. current.attempt \in Nat /\ a \in Nat \ {0} /\ a \in 1 .. current.attempt
    BY <1>0, <1>1 DEF TypeOK, ParentRecord, Pending
  <1>3. g \in [scope : Scope, attempt : Nat]
    BY <1>2 DEF Gap, Scope
  <1> HIDE DEF g
  <1>4. /\ snapshot'.gaps = snapshot.gaps \union {g}
        /\ snapshot'.attempts = snapshot.attempts
        /\ snapshot'.stable = snapshot.stable
        /\ TypeOK'
    BY <1>0, <1>1, <1>2, <1>3, AddGapsType DEF TypeOK
  <1>5. LatestInv' /\ CurrentInv' /\ BundleInv' /\ BeginInv'
    BY <1>1, <1>2, <1>4
       DEF Inv, LatestInv, Latest, CurrentInv, BundleInv, BeginInv
  <1>6. CollectedInv' /\ FreshInv'
    BY <1>1, <1>4 DEF Inv, CollectedInv, FreshInv, Bundled, g
  <1>7. FinalInv' /\ StableCoversAttempts' /\ SilenceIsComplete' /\ StableLastPass'
    BY <1>1 DEF FinalInv, StableCoversAttempts, SilenceIsComplete, StableLastPass, Done
  <1> QED BY <1>4, <1>5, <1>6, <1>7 DEF Inv

LEMMA GetAttemptStep ==
  ASSUME Inv, NEW a, GetAttempt(a)
  PROVE  Inv'
  <1>0. TypeOK BY DEF Inv
  <1>1. /\ pc = "attempt" /\ a \in Pending /\ pc' = "jobs"
        /\ bundle' = [attempt |-> a, version |-> github.attempts[a], pass |-> pass]
        /\ UNCHANGED <<github, pass, current, collected, snapshot>>
    BY DEF GetAttempt, IsNext
  <1>2. current.attempt \in Nat /\ a \in Nat \ {0} /\ a \in 1 .. current.attempt
        /\ pass \in Nat
    BY <1>0, <1>1, BoundsAssumption DEF TypeOK, ParentRecord, Pending
  <1>3. github.attempts[a] \in Version
    BY <1>0, <1>1, <1>2, ParentType DEF Inv, CurrentInv
  <1>4. TypeOK'
    BY <1>0, <1>1, <1>2, <1>3 DEF TypeOK
  <1>5. LatestInv' /\ CurrentInv' /\ BundleInv' /\ BeginInv'
    BY <1>1 DEF Inv, LatestInv, Latest, CurrentInv, BundleInv, BeginInv, Pending
  <1>6. CollectedInv' /\ FreshInv'
    BY <1>1 DEF Inv, CollectedInv, FreshInv, Bundled
  <1>7. FinalInv' /\ StableCoversAttempts' /\ SilenceIsComplete' /\ StableLastPass'
    BY <1>1 DEF FinalInv, StableCoversAttempts, SilenceIsComplete, StableLastPass, Done
  <1> QED BY <1>4, <1>5, <1>6, <1>7 DEF Inv

\* The attempt in hand joins the snapshot, whatever became of its job list.
LEMMA KeepBundleStep ==
  ASSUME Inv, pc = "jobs", NEW jobs \in KeptLists,
         NEW more \in SUBSET [scope : Scope, attempt : Nat],
         KeepBundle(jobs, more)
  PROVE  Inv'
  <1> DEFINE new == [attempt |-> bundle.attempt, version |-> bundle.version,
                     pass |-> bundle.pass, jobs |-> jobs]
  <1>0. TypeOK BY DEF Inv
  <1>1. /\ pc' = "attempt" /\ collected' = collected \union {bundle.attempt}
        /\ UNCHANGED <<github, pass, current>>
    BY DEF KeepBundle
  <1>2. snapshot' = [AddGaps(more) EXCEPT !.attempts = @ \union {new}]
    BY DEF KeepBundle
  <1>3. new \in Bundle /\ bundle.attempt \in Nat \ {0}
    BY <1>0 DEF TypeOK, Bundle
  <1>4. /\ new.attempt = bundle.attempt /\ new.version = bundle.version
        /\ new.pass = pass /\ bundle.attempt \in Pending
    BY DEF Inv, BundleInv
  <1> HIDE DEF new
  <1>5. /\ snapshot'.gaps = snapshot.gaps \union more
        /\ snapshot'.attempts = snapshot.attempts \union {new}
        /\ snapshot'.stable = snapshot.stable
        /\ snapshot' \in [initial : ParentRecord \union {Nothing},
                          final : ParentRecord \union {Nothing},
                          attempts : SUBSET Bundle,
                          gaps : SUBSET [scope : Scope, attempt : Nat],
                          stable : BOOLEAN]
    BY <1>0, <1>2, <1>3, AddGapsType
  <1>6. TypeOK'
    BY <1>0, <1>1, <1>3, <1>5 DEF TypeOK
  <1>7. LatestInv' /\ CurrentInv' /\ BundleInv' /\ BeginInv'
    BY <1>1, <1>4, <1>5
       DEF Inv, LatestInv, Latest, CurrentInv, BundleInv, BeginInv, Pending
  <1>8. Bundled' = Bundled \union {bundle.attempt}
    BY <1>4, <1>5 DEF Bundled
  <1>9. CollectedInv'
    <2>1. pass \in Nat
      BY <1>0, BoundsAssumption DEF TypeOK
    <2> QED BY <1>1, <1>4, <1>5, <1>8, <2>1 DEF Inv, CollectedInv
  <1>10. FreshInv'
    BY <1>1, <1>4, <1>5 DEF Inv, FreshInv
  <1>11. FinalInv' /\ StableCoversAttempts' /\ SilenceIsComplete' /\ StableLastPass'
    BY <1>1 DEF FinalInv, StableCoversAttempts, SilenceIsComplete, StableLastPass, Done
  <1> QED BY <1>6, <1>7, <1>9, <1>10, <1>11 DEF Inv

LEMMA ListJobsStep ==
  ASSUME Inv, ListJobs \/ ListJobsFails
  PROVE  Inv'
  <1>1. bundle.attempt \in Nat /\ pc = "jobs"
    BY DEF Inv, TypeOK, ListJobs, ListJobsFails
  <1>2. CASE ListJobsFails
    <2>1. {Gap("attempt_jobs", bundle.attempt)} \in SUBSET [scope : Scope, attempt : Nat]
      BY <1>1 DEF Gap, Scope
    <2> QED BY <1>1, <1>2, <2>1, KeepBundleStep DEF ListJobsFails, KeptLists
  <1>3. CASE ListJobs
    <2>1. PICK jobs \in JobLists :
            KeepBundle(KeptJobs(jobs), {Gap(scope, bundle.attempt) : scope \in JobGaps(jobs)})
      BY <1>3 DEF ListJobs
    <2>2. JobGaps(jobs) \subseteq Scope
      BY DEF JobGaps, Scope
    <2>3. {Gap(scope, bundle.attempt) : scope \in JobGaps(jobs)}
            \in SUBSET [scope : Scope, attempt : Nat]
      BY <1>1, <2>2 DEF Gap
    <2> QED BY <1>1, <2>1, <2>3, KeepBundleStep DEF KeptLists
  <1> QED BY <1>2, <1>3
\* The pass ends with the parent it began with: nothing has moved since.
LEMMA RereadStableStep ==
  ASSUME Inv, RereadStable
  PROVE  Inv'
  <1>0. TypeOK BY DEF Inv
  <1>1. /\ pc = "attempt" /\ Pending = {} /\ pc' = "done"
        /\ current.attempt = Latest /\ current.updated = github.updated
        /\ UNCHANGED <<github, pass, current, collected, bundle>>
        /\ snapshot' = [snapshot EXCEPT !.final = Parent, !.stable = TRUE]
    BY <1>0, ParentType DEF RereadStable, sameRunSnapshot, Finish
  <1>2. /\ snapshot'.final = Parent /\ snapshot'.stable = TRUE
        /\ snapshot'.gaps = snapshot.gaps /\ snapshot'.attempts = snapshot.attempts
        /\ TypeOK'
    BY <1>0, <1>1, ParentType DEF TypeOK
  <1>3. /\ Parent \in ParentRecord /\ Parent.attempt = Latest
        /\ collected = 1 .. Latest
    BY <1>0, <1>1, ParentType DEF Inv, CurrentInv, Pending
  <1>4. LatestInv' /\ CurrentInv' /\ BundleInv' /\ BeginInv' /\ FreshInv'
    BY <1>1 DEF Inv, LatestInv, Latest, CurrentInv, BundleInv, BeginInv, FreshInv
  <1>5. CollectedInv'
    BY <1>1, <1>2 DEF Inv, CollectedInv, Bundled
  <1>6. FinalInv'
    BY <1>0, <1>1, <1>2, <1>3, ParentType DEF FinalInv, Latest
  <1>7. StableCoversAttempts'
    BY <1>2, <1>3, <1>5, <1>1 DEF StableCoversAttempts, CollectedInv
  <1>8. SilenceIsComplete'
    BY <1>1, <1>2, <1>3 DEF Inv, CollectedInv, SilenceIsComplete, Bundled
  <1>9. StableLastPass'
    <2>1. ASSUME NEW b \in snapshot.attempts, b.pass = pass
          PROVE  b.version = github.attempts[b.attempt]
      BY <1>1, <2>1 DEF Inv, FreshInv
    <2>2. github.attempts[Latest] = [done |-> Parent.done, at |-> Parent.updated]
      BY <1>0, ParentType DEF Inv, LatestInv, Version
    <2>3. ASSUME NEW b \in snapshot.attempts, b.pass = pass
          PROVE  IF b.attempt = Parent.attempt
                   THEN b.version = [done |-> Parent.done, at |-> Parent.updated]
                   ELSE b.version = github.attempts[b.attempt]
      BY <1>3, <2>1, <2>2, <2>3
    <2>4. snapshot'.attempts = snapshot.attempts /\ pass' = pass
          /\ github'.attempts = github.attempts
      BY <1>1, <1>2
    <2>5. ASSUME NEW b \in snapshot'.attempts, b.pass = pass'
          PROVE  IF b.attempt = snapshot'.final.attempt
                   THEN b.version = [done |-> snapshot'.final.done,
                                     at |-> snapshot'.final.updated]
                   ELSE b.version = github'.attempts[b.attempt]
      BY <1>2, <2>3, <2>4, <2>5
    <2> QED BY <2>5 DEF StableLastPass
  <1> QED BY <1>2, <1>4, <1>5, <1>6, <1>7, <1>8, <1>9 DEF Inv

\* The run moved during the pass: another pass, or a gap when none is left.
LEMMA RereadChangedStep ==
  ASSUME Inv, RereadChanged
  PROVE  Inv'
  <1> DEFINE race == Gap("live_state_race", 0)
  <1>0. TypeOK BY DEF Inv
  <1>1. pc = "attempt" /\ Pending = {} /\ current' = Parent /\ ~snapshot.stable
        /\ UNCHANGED <<github, collected, bundle>>
    BY DEF RereadChanged, Inv, CurrentInv
  <1>2. pass \in Nat /\ race \in [scope : Scope, attempt : Nat]
        /\ current.attempt \in Nat /\ Latest \in Nat /\ current.attempt <= Latest
    BY <1>0, <1>1, ParentType, BoundsAssumption
       DEF TypeOK, Gap, Scope, Inv, CurrentInv, ParentRecord
  <1>3. CASE pass + 1 < MaxPasses
    <2>1. /\ pass' = pass + 1 /\ pc' = "pass"
          /\ snapshot' = [snapshot EXCEPT !.final = Parent]
      BY <1>3 DEF RereadChanged
    <2>2. /\ snapshot'.gaps = snapshot.gaps /\ snapshot'.attempts = snapshot.attempts
          /\ snapshot'.stable = snapshot.stable
          /\ TypeOK'
      <3>1. pass' \in 0 .. (MaxPasses - 1)
        BY <1>2, <1>3, <2>1, BoundsAssumption
      <3>2. Parent \in ParentRecord
        BY <1>0, ParentType
      <3> HIDE DEF race
      <3>3. snapshot' \in [initial : ParentRecord \union {Nothing},
                          final : ParentRecord \union {Nothing},
                          attempts : SUBSET Bundle,
                          gaps : SUBSET [scope : Scope, attempt : Nat],
                          stable : BOOLEAN]
        BY <1>0, <2>1, <3>2 DEF TypeOK
      <3> QED BY <1>0, <1>1, <2>1, <3>1, <3>2, <3>3 DEF TypeOK
    <2>3. LatestInv' /\ BundleInv' /\ BeginInv'
      BY <1>1, <2>1 DEF Inv, LatestInv, Latest, BundleInv, BeginInv
    <2>4. CurrentInv'
      <3>1. collected \subseteq 1 .. Latest
        BY <1>1, <1>2 DEF Inv, CurrentInv
      <3> QED BY <1>0, <1>1, <2>1, <2>2, <3>1, ParentType DEF CurrentInv, Latest
    <2>5. CollectedInv'
      BY <1>0, <1>1, <1>2, <2>1, <2>2 DEF Inv, CollectedInv, Bundled, TypeOK, Bundle
    <2>6. FreshInv'
      \* Nothing was read in the pass that starts.
      <3>1. \A b \in snapshot.attempts : b.pass \in Nat /\ b.pass <= pass
        BY <1>0 DEF TypeOK, Bundle, Inv, CollectedInv
      <3>2. \A b \in snapshot.attempts : b.pass # pass'
        BY <1>2, <2>1, <3>1
      <3> QED BY <2>1, <2>2, <3>2 DEF FreshInv
    <2>7. FinalInv' /\ StableCoversAttempts' /\ SilenceIsComplete' /\ StableLastPass'
      BY <2>1 DEF FinalInv, StableCoversAttempts, SilenceIsComplete, StableLastPass, Done
    <2> QED BY <2>2, <2>3, <2>4, <2>5, <2>6, <2>7 DEF Inv
  <1>4. CASE ~(pass + 1 < MaxPasses)
    <2>1. /\ pass' = pass /\ pc' = "done"
          /\ snapshot' = [AddGaps({race}) EXCEPT !.final = Parent]
      BY <1>4 DEF RereadChanged
    <2> HIDE DEF race
    <2>2. /\ snapshot'.gaps = snapshot.gaps \union {race}
          /\ snapshot'.attempts = snapshot.attempts
          /\ ~snapshot'.stable
          /\ snapshot' \in [initial : ParentRecord \union {Nothing},
                            final : ParentRecord \union {Nothing},
                            attempts : SUBSET Bundle,
                            gaps : SUBSET [scope : Scope, attempt : Nat],
                            stable : BOOLEAN]
      BY <1>0, <1>1, <1>2, <2>1, AddGapsType, ParentType
    <2>3. TypeOK'
      BY <1>0, <1>1, <2>1, <2>2 DEF TypeOK
    <2>4. LatestInv' /\ CurrentInv' /\ BundleInv' /\ FreshInv' /\ BeginInv'
      BY <1>1, <2>1 DEF Inv, LatestInv, Latest, CurrentInv, BundleInv, FreshInv, BeginInv
    <2>5. CollectedInv'
      BY <1>1, <2>1, <2>2 DEF Inv, CollectedInv, Bundled
    <2>6. FinalInv' /\ StableCoversAttempts' /\ SilenceIsComplete' /\ StableLastPass'
      BY <2>1, <2>2 DEF FinalInv, StableCoversAttempts, SilenceIsComplete, StableLastPass
    <2> QED BY <2>3, <2>4, <2>5, <2>6 DEF Inv
  <1> QED BY <1>3, <1>4

LEMMA CollectorStep ==
  ASSUME Inv, Collector
  PROVE  Inv'
  <1>0. TypeOK BY DEF Inv
  <1>1. ASSUME NEW scope \in {"workflow_run", "workflow_run_stabilization"},
               pc \in {"begin", "pass", "attempt"},
               Finish(AddGaps({Gap(scope, 0)}))
        PROVE  Inv'
    <2>1. Gap(scope, 0) \in [scope : Scope, attempt : Nat]
      BY DEF Gap, Scope
    <2>2. AddGaps({Gap(scope, 0)}) = [AddGaps({Gap(scope, 0)}) EXCEPT !.final = snapshot.final]
      <3>1. {Gap(scope, 0)} \in SUBSET [scope : Scope, attempt : Nat]
        BY <2>1
      <3> DEFINE added == AddGaps({Gap(scope, 0)})
      <3>2. /\ added.final = snapshot.final
            /\ added \in [initial : ParentRecord \union {Nothing},
                          final : ParentRecord \union {Nothing},
                          attempts : SUBSET Bundle,
                          gaps : SUBSET [scope : Scope, attempt : Nat],
                          stable : BOOLEAN]
        BY <1>0, <3>1, AddGapsType
      <3> HIDE DEF added
      <3>3. added = [added EXCEPT !.final = snapshot.final]
        BY <3>2
      <3> QED BY <3>3 DEF added
    <2>3. snapshot.final \in ParentRecord \union {Nothing}
      BY <1>0 DEF TypeOK
    <2> QED BY <1>1, <2>1, <2>2, <2>3, FinishStep
  <1>2. CASE GetParentFails \/ Cancelled \/ RereadFails
    BY <1>1, <1>2 DEF GetParentFails, Cancelled, RereadFails
  <1>3. CASE RereadContradicted
    <2>1. Gap("workflow_run_stabilization", 0) \in [scope : Scope, attempt : Nat]
      BY DEF Gap, Scope
    <2> QED BY <1>3, <2>1, FinishStep DEF RereadContradicted
  <1>4. CASE \E a \in 1 .. Latest : GetAttemptFails(a) \/ GetAttempt(a)
    BY <1>4, GetAttemptFailsStep, GetAttemptStep
  <1> QED
    BY <1>2, <1>3, <1>4, GetParentStep, StartPassStep, ListJobsStep,
       RereadStableStep, RereadChangedStep DEF Collector

LEMMA StutterStep ==
  ASSUME Inv, UNCHANGED vars
  PROVE  Inv'
  BY DEF Inv, vars, TypeOK, LatestInv, Latest, BeginInv, CurrentInv, BundleInv, Pending,
         CollectedInv, Bundled, FreshInv, FinalInv, Done, StableCoversAttempts,
         SilenceIsComplete, StableLastPass

LEMMA InvHolds == Spec => []Inv
  <1>1. Inv /\ [Next]_vars => Inv'
    BY GitHubStep, CollectorStep, StutterStep DEF Next
  <1> QED BY InitInv, <1>1, PTL DEF Spec

\* AttemptCollector.Snapshot keeps every variable in its type.
THEOREM TypeCorrect == Spec => []TypeOK
  <1>1. Inv => TypeOK BY DEF Inv
  <1> QED BY InvHolds, <1>1, PTL

\* A stable snapshot accounts for every attempt of the final parent, however
\* the run changed and whatever requests failed.
THEOREM CoverTheorem == Spec => []StableCoversAttempts
  <1>1. Inv => StableCoversAttempts BY DEF Inv
  <1> QED BY InvHolds, <1>1, PTL

\* A snapshot without a gap is stable and complete.
THEOREM SilenceTheorem == Spec => []SilenceIsComplete
  <1>1. Inv => SilenceIsComplete BY DEF Inv
  <1> QED BY InvHolds, <1>1, PTL

\* What the last pass of a stable snapshot read was current at its end.
THEOREM LastPassTheorem == Spec => []StableLastPass
  <1>1. Inv => StableLastPass BY DEF Inv
  <1> QED BY InvHolds, <1>1, PTL

-----------------------------------------------------------------------------
(* What is kept of a job list, whatever the list holds.                     *)

JobRecord == [id : Int, run : Int, name : STRING]
KeptSet(jobs) == {jobs[i] : i \in {j \in Listed(jobs) : ~Quarantined(jobs, j)}}

\* The positions of a list are finitely many.
LEMMA ListedFinite ==
  ASSUME NEW jobs \in Seq(JobRecord)
  PROVE  /\ Len(jobs) \in Nat
         /\ IsFiniteSet(Listed(jobs))
         /\ \A i \in Listed(jobs) : jobs[i] \in JobRecord
  <1>1. Len(jobs) \in Nat /\ \A i \in Listed(jobs) : jobs[i] \in JobRecord
    BY DEF Listed
  <1>2. IsFiniteSet(1 .. Len(jobs))
    BY <1>1, FS_Interval
  <1> QED BY <1>1, <1>2 DEF Listed

\* A finite set of jobs with different IDs has the order SortedByID chooses:
\* the place of a job is the number of jobs with an ID no greater than its own.
LEMMA SortExists ==
  ASSUME NEW S \in SUBSET JobRecord, IsFiniteSet(S),
         \A x, y \in S : x.id = y.id => x = y
  PROVE  /\ Cardinality(S) \in Nat
         /\ SortedByID(S) \in [1 .. Cardinality(S) -> S]
         /\ \A x \in S : \E k \in 1 .. Cardinality(S) : SortedByID(S)[k] = x
  <1> DEFINE n == Cardinality(S)
             UpTo(x) == {y \in S : y.id <= x.id}
             rank == [x \in S |-> Cardinality(UpTo(x))]
             sorted == [k \in 1 .. n |-> CHOOSE x \in S : rank[x] = k]
             Ordered(f) == \A i, j \in 1 .. n : i < j => f[i].id < f[j].id
  <1>1. n \in Nat /\ IsFiniteSet(1 .. n) /\ Cardinality(1 .. n) = n
    <2>1. n \in Nat
      BY FS_CardinalityType
    <2> QED BY <2>1, FS_Interval
  <1>2. \A x \in S : x.id \in Int
    BY DEF JobRecord
  <1>3. \A x \in S : /\ IsFiniteSet(UpTo(x)) /\ Cardinality(UpTo(x)) \in 1 .. n
                     /\ Cardinality(UpTo(x)) \in Nat
    <2> SUFFICES ASSUME NEW x \in S
                 PROVE  /\ IsFiniteSet(UpTo(x)) /\ Cardinality(UpTo(x)) \in 1 .. n
                        /\ Cardinality(UpTo(x)) \in Nat
      OBVIOUS
    <2>1. UpTo(x) \in SUBSET S /\ x \in UpTo(x)
      BY <1>2
    <2>2. IsFiniteSet(UpTo(x)) /\ Cardinality(UpTo(x)) <= n
      BY <2>1, FS_Subset
    <2>3. Cardinality(UpTo(x)) \in Nat
      BY <2>2, FS_CardinalityType
    <2>4. Cardinality(UpTo(x)) # 0
      BY <2>1, <2>2, FS_EmptySet
    <2> QED BY <1>1, <2>2, <2>3, <2>4
  <1>4. \A x, y \in S : x.id < y.id => rank[x] < rank[y]
    <2> SUFFICES ASSUME NEW x \in S, NEW y \in S, x.id < y.id
                 PROVE  Cardinality(UpTo(x)) < Cardinality(UpTo(y))
      OBVIOUS
    <2>1. UpTo(x) \in SUBSET UpTo(y) /\ y \in UpTo(y) /\ y \notin UpTo(x)
      BY <1>2
    <2>2. /\ Cardinality(UpTo(x)) <= Cardinality(UpTo(y))
          /\ Cardinality(UpTo(y)) = Cardinality(UpTo(x)) => UpTo(y) = UpTo(x)
      BY <1>3, <2>1, FS_Subset
    <2>3. Cardinality(UpTo(y)) # Cardinality(UpTo(x))
      BY <2>1, <2>2
    <2>4. Cardinality(UpTo(x)) \in Nat /\ Cardinality(UpTo(y)) \in Nat
      BY <1>3, Zenon
    <2> HIDE DEF UpTo
    <2> QED BY <2>2, <2>3, <2>4
  <1>5. rank \in [S -> 1 .. n]
    BY <1>3
  <1>6. \A x, y \in S : rank[x] = rank[y] => x = y
    <2> SUFFICES ASSUME NEW x \in S, NEW y \in S, rank[x] = rank[y], x.id # y.id
                 PROVE  FALSE
      OBVIOUS
    <2>1. x.id < y.id \/ y.id < x.id
      BY <1>2
    <2>2. rank[x] \in Int /\ rank[y] \in Int
      BY <1>5
    <2> HIDE DEF rank
    <2> QED BY <1>4, <2>1, <2>2
  <1>7. rank \in Surjection(S, 1 .. n)
    <2> HIDE DEF rank
    <2>1. rank \in Injection(S, 1 .. n)
      BY <1>5, <1>6 DEF Injection, IsInjective
    <2> QED BY <1>1, <2>1, FS_Injection
  <1>8. \A k \in 1 .. n : \E x \in S : rank[x] = k
    <2> HIDE DEF rank
    <2> QED BY <1>7 DEF Surjection
  <1>9. \A k \in 1 .. n : sorted[k] \in S /\ rank[sorted[k]] = k
    <2> HIDE DEF rank
    <2> QED BY <1>8
  <1>10. sorted \in [1 .. n -> S]
    <2> HIDE DEF rank
    <2> QED BY <1>9
  <1>11. Ordered(sorted)
    <2> HIDE DEF rank, sorted
    <2> SUFFICES ASSUME NEW i \in 1 .. n, NEW j \in 1 .. n, i < j
                 PROVE  sorted[i].id < sorted[j].id
      OBVIOUS
    <2>1. /\ sorted[i] \in S /\ rank[sorted[i]] = i
          /\ sorted[j] \in S /\ rank[sorted[j]] = j
      BY <1>9
    <2>2. sorted[i].id \in Int /\ sorted[j].id \in Int
      BY <1>2, <2>1
    <2>3. CASE sorted[j].id < sorted[i].id
      <3>1. j < i
        BY <1>4, <2>1, <2>3
      <3> QED BY <1>1, <3>1
    <2>4. CASE sorted[j].id = sorted[i].id
      <3>1. sorted[j] = sorted[i]
        BY <2>1, <2>4
      <3> QED BY <1>1, <2>1, <3>1
    <2> QED BY <2>2, <2>3, <2>4
  <1>12. SortedByID(S) \in [1 .. n -> S] /\ Ordered(SortedByID(S))
    <2> HIDE DEF sorted
    <2> QED BY <1>10, <1>11 DEF SortedByID
  <1> DEFINE result == SortedByID(S)
  <1>13. \A i, j \in 1 .. n : result[i] = result[j] => i = j
    <2> SUFFICES ASSUME NEW i \in 1 .. n, NEW j \in 1 .. n, result[i] = result[j], i # j
                 PROVE  FALSE
      OBVIOUS
    <2> HIDE DEF result
    <2>1. result[i] \in S /\ result[i].id \in Int
      BY <1>2, <1>12 DEF result
    <2>2. i < j \/ j < i
      BY <1>1
    <2> QED BY <1>12, <2>1, <2>2 DEF result
  <1>14. result \in Surjection(1 .. n, S)
    <2> HIDE DEF result
    <2>1. result \in Injection(1 .. n, S)
      BY <1>12, <1>13 DEF Injection, IsInjective, result
    <2> QED BY <1>1, <2>1, FS_Injection
  <1>15. \A x \in S : \E k \in 1 .. n : result[k] = x
    <2> HIDE DEF result
    <2> QED BY <1>14 DEF Surjection
  <1> QED BY <1>1, <1>12, <1>15

\* The jobs that are kept have different IDs.
LEMMA KeptDistinct ==
  ASSUME NEW jobs \in Seq(JobRecord)
  PROVE  /\ KeptSet(jobs) \in SUBSET JobRecord
         /\ IsFiniteSet(KeptSet(jobs))
         /\ \A x, y \in KeptSet(jobs) : x.id = y.id => x = y
  <1>1. KeptSet(jobs) \in SUBSET JobRecord
    BY ListedFinite DEF KeptSet
  <1>2. IsFiniteSet(KeptSet(jobs))
    <2> DEFINE D == {j \in Listed(jobs) : ~Quarantined(jobs, j)}
               f == [i \in D |-> jobs[i]]
    <2>1. IsFiniteSet(D)
      BY ListedFinite, FS_Subset
    <2>2. f \in Surjection(D, KeptSet(jobs))
      BY DEF Surjection, KeptSet
    <2> QED BY <2>1, <2>2, FS_Surjection
  <1>3. ASSUME NEW x \in KeptSet(jobs), NEW y \in KeptSet(jobs), x.id = y.id
        PROVE  x = y
    <2>1. PICK i \in Listed(jobs) : ~Quarantined(jobs, i) /\ x = jobs[i]
      BY DEF KeptSet
    <2>2. PICK j \in Listed(jobs) : ~Quarantined(jobs, j) /\ y = jobs[j]
      BY DEF KeptSet
    <2> QED BY <1>3, <2>1, <2>2 DEF Quarantined, DuplicateID
  <1> QED BY <1>1, <1>2, <1>3

\* Every job that is not refused is one of the jobs kept.
LEMMA KeptAreListed ==
  ASSUME NEW jobs \in Seq(JobRecord), NEW i \in Listed(jobs), ~Quarantined(jobs, i)
  PROVE  \E k \in Listed(KeptJobs(jobs)) : KeptJobs(jobs)[k] = jobs[i]
  <1> DEFINE S == KeptSet(jobs)
             n == Cardinality(S)
  <1>1. KeptJobs(jobs) = SortedByID(S)
    BY DEF KeptJobs, KeptSet
  <1>2. /\ n \in Nat /\ SortedByID(S) \in [1 .. n -> S]
        /\ \A x \in S : \E k \in 1 .. n : SortedByID(S)[k] = x
    BY KeptDistinct, SortExists
  <1>3. jobs[i] \in S
    BY DEF KeptSet
  <1>4. Len(SortedByID(S)) = n
    <2> HIDE DEF S, n
    <2> QED BY <1>2
  <1> QED BY <1>1, <1>2, <1>3, <1>4 DEF Listed

\* A refused job leaves a gap of one of the three kinds.
LEMMA RefusedLeavesGap ==
  ASSUME NEW jobs, NEW i \in Listed(jobs), Quarantined(jobs, i)
  PROVE  JobGaps(jobs) # {}
  BY DEF Quarantined, JobGaps

\* No log is joined through a name a refused job bears, for every job list.
THEOREM RefusedNames == \A jobs \in Seq(JobRecord) : RefusedNamesBlockJoins(jobs)
  <1> SUFFICES ASSUME NEW jobs \in Seq(JobRecord), NEW i \in Listed(jobs),
                      \A k \in Listed(KeptJobs(jobs)) : KeptJobs(jobs)[k] # jobs[i]
               PROVE  /\ JobGaps(jobs) # {}
                      /\ ~LogJobNameCorrelationSafe(jobs, jobs[i].name)
    BY DEF RefusedNamesBlockJoins
  <1>1. Quarantined(jobs, i)
    BY KeptAreListed
  <1>2. JobGaps(jobs) # {}
    BY <1>1, RefusedLeavesGap
  <1>3. jobs[i].name \in QuarantinedNames(jobs)
    BY <1>1 DEF QuarantinedNames
  <1> QED BY <1>2, <1>3 DEF LogJobNameCorrelationSafe

\* A list in another order: each position answers for the one it came from.
LEMMA PermutedPositions ==
  ASSUME NEW jobs \in Seq(JobRecord), NEW p \in Bijection(Listed(jobs), Listed(jobs)),
         NEW permuted, permuted = [i \in Listed(jobs) |-> jobs[p[i]]]
  PROVE  /\ Listed(permuted) = Listed(jobs)
         /\ \A i \in Listed(jobs) :
              /\ p[i] \in Listed(jobs) /\ permuted[i] = jobs[p[i]]
              /\ MissingIdentity(permuted, i) <=> MissingIdentity(jobs, p[i])
              /\ DuplicateID(permuted, i) <=> DuplicateID(jobs, p[i])
              /\ ContradictedRun(permuted, i) <=> ContradictedRun(jobs, p[i])
              /\ Quarantined(permuted, i) <=> Quarantined(jobs, p[i])
         /\ \A j \in Listed(jobs) : \E i \in Listed(jobs) : p[i] = j
  <1>1. /\ p \in [Listed(jobs) -> Listed(jobs)]
        /\ \A a, b \in Listed(jobs) : p[a] = p[b] => a = b
        /\ \A j \in Listed(jobs) : \E i \in Listed(jobs) : p[i] = j
    BY DEF Bijection, Injection, Surjection, IsInjective
  <1>2. Listed(permuted) = Listed(jobs)
    <2>1. Len(jobs) \in Nat
      OBVIOUS
    <2> QED BY <2>1 DEF Listed
  <1>3. ASSUME NEW i \in Listed(jobs)
        PROVE  /\ p[i] \in Listed(jobs) /\ permuted[i] = jobs[p[i]]
               /\ MissingIdentity(permuted, i) <=> MissingIdentity(jobs, p[i])
               /\ DuplicateID(permuted, i) <=> DuplicateID(jobs, p[i])
               /\ ContradictedRun(permuted, i) <=> ContradictedRun(jobs, p[i])
               /\ Quarantined(permuted, i) <=> Quarantined(jobs, p[i])
    <2>1. p[i] \in Listed(jobs) /\ permuted[i] = jobs[p[i]]
      BY <1>1
    <2>2. MissingIdentity(permuted, i) <=> MissingIdentity(jobs, p[i])
      BY <2>1 DEF MissingIdentity
    <2>3. DuplicateID(permuted, i) => DuplicateID(jobs, p[i])
      <3> SUFFICES ASSUME DuplicateID(permuted, i)
                   PROVE  DuplicateID(jobs, p[i])
        OBVIOUS
      <3>1. PICK j \in Listed(jobs) \ {i} : permuted[j].id = permuted[i].id
        BY <1>2 DEF DuplicateID
      <3>2. p[j] \in Listed(jobs) \ {p[i]} /\ jobs[p[j]].id = jobs[p[i]].id
        BY <1>1, <2>1, <3>1
      <3> QED BY <2>2, <3>2 DEF DuplicateID
    <2>4. DuplicateID(jobs, p[i]) => DuplicateID(permuted, i)
      <3> SUFFICES ASSUME DuplicateID(jobs, p[i])
                   PROVE  DuplicateID(permuted, i)
        OBVIOUS
      <3>1. PICK k \in Listed(jobs) \ {p[i]} : jobs[k].id = jobs[p[i]].id
        BY DEF DuplicateID
      <3>2. PICK j \in Listed(jobs) : p[j] = k
        BY <1>1, <3>1
      <3>3. j # i /\ permuted[j].id = permuted[i].id
        BY <2>1, <3>1, <3>2
      <3> QED BY <1>2, <2>2, <3>3 DEF DuplicateID
    <2>5. ContradictedRun(permuted, i) <=> ContradictedRun(jobs, p[i])
      BY <2>1, <2>2, <2>3, <2>4 DEF ContradictedRun
    <2>6. Quarantined(permuted, i) <=> Quarantined(jobs, p[i])
      BY <2>2, <2>3, <2>4, <2>5 DEF Quarantined
    <2> QED BY <2>1, <2>2, <2>3, <2>4, <2>5, <2>6
  <1> QED BY <1>1, <1>2, <1>3

\* The order of the answer decides nothing, for every job list.
THEOREM OrderIsNothing == \A jobs \in Seq(JobRecord) : OrderDecidesNothing(jobs)
  <1> SUFFICES ASSUME NEW jobs \in Seq(JobRecord),
                      NEW p \in Bijection(Listed(jobs), Listed(jobs)),
                      NEW permuted, permuted = [i \in Listed(jobs) |-> jobs[p[i]]]
               PROVE  /\ KeptJobs(permuted) = KeptJobs(jobs)
                      /\ JobGaps(permuted) = JobGaps(jobs)
                      /\ QuarantinedNames(permuted) = QuarantinedNames(jobs)
    BY Zenon DEF OrderDecidesNothing
  <1>1. /\ Listed(permuted) = Listed(jobs)
        /\ \A i \in Listed(jobs) :
             /\ p[i] \in Listed(jobs) /\ permuted[i] = jobs[p[i]]
             /\ MissingIdentity(permuted, i) <=> MissingIdentity(jobs, p[i])
             /\ DuplicateID(permuted, i) <=> DuplicateID(jobs, p[i])
             /\ ContradictedRun(permuted, i) <=> ContradictedRun(jobs, p[i])
             /\ Quarantined(permuted, i) <=> Quarantined(jobs, p[i])
        /\ \A j \in Listed(jobs) : \E i \in Listed(jobs) : p[i] = j
    BY PermutedPositions
  <1>2. KeptSet(permuted) = KeptSet(jobs)
    <2>1. ASSUME NEW x \in KeptSet(permuted) PROVE x \in KeptSet(jobs)
      <3>1. PICK i \in Listed(permuted) : ~Quarantined(permuted, i) /\ x = permuted[i]
        BY DEF KeptSet
      <3>2. /\ p[i] \in Listed(jobs) /\ x = jobs[p[i]] /\ ~Quarantined(jobs, p[i])
        BY <1>1, <3>1, Zenon
      <3> QED BY <3>2 DEF KeptSet
    <2>2. ASSUME NEW x \in KeptSet(jobs) PROVE x \in KeptSet(permuted)
      <3>1. PICK j \in Listed(jobs) : ~Quarantined(jobs, j) /\ x = jobs[j]
        BY DEF KeptSet
      <3>2. PICK i \in Listed(jobs) : p[i] = j
        BY <1>1, Zenon
      <3>3. i \in Listed(permuted) /\ x = permuted[i] /\ ~Quarantined(permuted, i)
        BY <1>1, <3>1, <3>2, Zenon
      <3> QED BY <3>3 DEF KeptSet
    <2> QED BY <2>1, <2>2
  <1>3. KeptJobs(permuted) = KeptJobs(jobs)
    BY <1>2 DEF KeptJobs, KeptSet
  <1>4. /\ (\E i \in Listed(permuted) : MissingIdentity(permuted, i))
           <=> (\E i \in Listed(jobs) : MissingIdentity(jobs, i))
        /\ (\E i \in Listed(permuted) : ContradictedRun(permuted, i))
           <=> (\E i \in Listed(jobs) : ContradictedRun(jobs, i))
        /\ (\E i \in Listed(permuted) : DuplicateID(permuted, i))
           <=> (\E i \in Listed(jobs) : DuplicateID(jobs, i))
    <2>1. ASSUME NEW i \in Listed(jobs)
          PROVE  \E j \in Listed(jobs) :
                   /\ MissingIdentity(permuted, i) <=> MissingIdentity(jobs, j)
                   /\ ContradictedRun(permuted, i) <=> ContradictedRun(jobs, j)
                   /\ DuplicateID(permuted, i) <=> DuplicateID(jobs, j)
      BY <1>1
    <2>2. ASSUME NEW j \in Listed(jobs)
          PROVE  \E i \in Listed(jobs) :
                   /\ MissingIdentity(permuted, i) <=> MissingIdentity(jobs, j)
                   /\ ContradictedRun(permuted, i) <=> ContradictedRun(jobs, j)
                   /\ DuplicateID(permuted, i) <=> DuplicateID(jobs, j)
      <3>1. PICK i \in Listed(jobs) : p[i] = j
        BY ONLY <1>1
      <3> QED BY <1>1, <3>1
    <2>3. Listed(permuted) = Listed(jobs)
      BY <1>1
    <2> QED BY <2>1, <2>2, <2>3
  <1>5. JobGaps(permuted) = JobGaps(jobs)
    <2> DEFINE Left(g, list) == \E i \in Listed(list) :
                 CASE g = "missing_identity" -> MissingIdentity(list, i)
                   [] g = "contradicted_run" -> ContradictedRun(list, i)
                   [] g = "duplicate_id"     -> DuplicateID(list, i)
               Scopes == {"missing_identity", "contradicted_run", "duplicate_id"}
    <2>1. \A g \in Scopes : Left(g, permuted) <=> Left(g, jobs)
      <3>1. Left("missing_identity", permuted) <=> Left("missing_identity", jobs)
        BY <1>4
      <3>2. Left("contradicted_run", permuted) <=> Left("contradicted_run", jobs)
        BY <1>4
      <3>3. Left("duplicate_id", permuted) <=> Left("duplicate_id", jobs)
        BY <1>4
      <3> HIDE DEF Left
      <3> QED BY <3>1, <3>2, <3>3
    <2>2. /\ JobGaps(permuted) = {g \in Scopes : Left(g, permuted)}
          /\ JobGaps(jobs) = {g \in Scopes : Left(g, jobs)}
      BY Zenon DEF JobGaps
    <2> HIDE DEF Left, Scopes
    <2> QED BY <2>1, <2>2
  <1>6. QuarantinedNames(permuted) = QuarantinedNames(jobs)
    <2>1. ASSUME NEW x PROVE x \in QuarantinedNames(permuted)
                             <=> \E i \in Listed(jobs) :
                                   Quarantined(jobs, p[i]) /\ x = jobs[p[i]].name
      BY <1>1 DEF QuarantinedNames
    <2>2. ASSUME NEW x PROVE x \in QuarantinedNames(jobs)
                             <=> \E j \in Listed(jobs) :
                                   Quarantined(jobs, j) /\ x = jobs[j].name
      BY DEF QuarantinedNames
    <2>3. ASSUME NEW x PROVE x \in QuarantinedNames(permuted) <=> x \in QuarantinedNames(jobs)
      <3>1. ASSUME NEW i \in Listed(jobs), Quarantined(jobs, p[i]), x = jobs[p[i]].name
            PROVE  \E j \in Listed(jobs) : Quarantined(jobs, j) /\ x = jobs[j].name
        BY <1>1, <3>1
      <3>2. ASSUME NEW j \in Listed(jobs), Quarantined(jobs, j), x = jobs[j].name
            PROVE  \E i \in Listed(jobs) : Quarantined(jobs, p[i]) /\ x = jobs[p[i]].name
        <4>1. PICK i \in Listed(jobs) : p[i] = j
          BY ONLY <1>1
        <4> QED BY <3>2, <4>1
      <3> QED BY <2>1, <2>2, <3>1, <3>2
    <2> QED BY <2>3 DEF QuarantinedNames
  <1> QED BY <1>3, <1>5, <1>6

\* Before the first request: no response can make the order of its jobs matter.
THEOREM OrderTheorem == Spec => []OrderFree
  <1>1. OrderFree
    BY OrderIsNothing, ResponsesAssumption DEF OrderFree, JobRecord
  <1> QED BY <1>1, PTL

\* Before the first request: no response makes a refused name join a log.
THEOREM JoinTheorem == Spec => []JoinSafe
  <1>1. JoinSafe
    BY RefusedNames, ResponsesAssumption DEF JoinSafe, JobRecord
  <1> QED BY <1>1, PTL

-----------------------------------------------------------------------------
(* What is in the writer when a download is reported as whole.              *)

DownloadType ==
  /\ phase \in Phase
  /\ acquisition \in {0, 1}
  /\ size \in Nat
  /\ sink \in Seq({0, 1} \X Nat)

\* The writer is empty until an object is opened, whatever location is asked for.
EmptyBefore == phase \in {"idle", "token", "ask", "fetch"} => sink = <<>>

\* While the object arrives the writer has a prefix of it and nothing else.
OwnPrefix ==
  phase \in {"copy", "whole"} =>
    /\ \A position \in 1..Len(sink) : sink[position] = <<acquisition, position>>
    /\ Len(sink) <= size /\ Len(sink) <= ClientLimit /\ Len(sink) <= AdapterLimit

WholeIsAll == phase = "whole" => Len(sink) = size

DownloadInv == DownloadType /\ EmptyBefore /\ OwnPrefix /\ WholeIsAll

-----------------------------------------------------------------------------
\* copyBounded's own count is what the caller's writer holds: no earlier
\* location left a unit in it.
LEMMA WrittenIsAll ==
  ASSUME DownloadInv, phase = "copy"
  PROVE  Written = Len(sink)
<1>1. Len(sink) \in Nat
  BY DEF DownloadInv, DownloadType
<1>2. {position \in 1..Len(sink) : sink[position][1] = acquisition} = 1..Len(sink)
  BY DEF DownloadInv, OwnPrefix
<1>3. Cardinality(1..Len(sink)) = Len(sink)
  <2>1. Cardinality(1..Len(sink)) = IF 1 > Len(sink) THEN 0 ELSE Len(sink) - 1 + 1
    BY <1>1, FS_Interval, SMTT(15)
  <2> QED BY <1>1, <2>1
<1> QED BY <1>2, <1>3 DEF Written

\* Whatever ends the download without success leaves nothing to be shown.
LEMMA BrokenKeepsInv ==
  ASSUME DownloadInv, End("broken")
  PROVE  DownloadInv'
BY DEF DownloadInv, DownloadType, EmptyBefore, OwnPrefix, WholeIsAll, End, Phase

\* A new acquisition starts only while the writer is empty.
LEMMA AcquireKeepsInv ==
  ASSUME NEW number \in {0, 1}, sink' = <<>>, size' \in Nat, Acquire(number)
  PROVE  DownloadInv'
BY DEF DownloadInv, DownloadType, EmptyBefore, OwnPrefix, WholeIsAll, Acquire, Phase

\* The steps of acquireLogRedirect do not reach the writer.
LEMMA RouteKeepsInv ==
  ASSUME DownloadInv, Token \/ Retry \/ Refused \/ (\E url \in Url : Relocated(url)) \/ Located
  PROVE  DownloadInv'
<1>1. CASE End("broken")
  BY <1>1, BrokenKeepsInv
<1>2. CASE /\ phase \in {"token", "ask"} /\ phase' \in {"token", "ask", "fetch"}
           /\ acquisition' = acquisition /\ size' = size /\ sink' = sink
  BY <1>2 DEF DownloadInv, DownloadType, EmptyBefore, OwnPrefix, WholeIsAll, Phase
<1> QED BY <1>1, <1>2 DEF Token, Retry, Refused, Relocated, Located

LEMMA FetchKeepsInv ==
  ASSUME LogDownloadAssumption, DownloadInv, Expired \/ FetchRefused \/ Opened
  PROVE  DownloadInv'
<1>1. phase = "fetch" /\ sink = <<>> /\ size \in Nat
  BY DEF Expired, FetchRefused, Opened, DownloadInv, DownloadType, EmptyBefore
<1>2. CASE End("broken")
  BY <1>2, BrokenKeepsInv
<1>3. CASE Acquire(1) /\ UNCHANGED <<size, sink>>
  BY <1>1, <1>3, AcquireKeepsInv
<1>4. CASE Opened
  <2>1. /\ phase' = "copy" /\ sink' = <<>> /\ size' \in Nat
        /\ acquisition' = acquisition
    BY <1>1, <1>4 DEF Opened, LogDownloadAssumption
  <2> QED BY <2>1 DEF DownloadInv, DownloadType, EmptyBefore, OwnPrefix, WholeIsAll, Phase,
                      LogDownloadAssumption
<1> QED BY <1>2, <1>3, <1>4 DEF Expired, FetchRefused

LEMMA ReceiveKeepsInv ==
  ASSUME LogDownloadAssumption, DownloadInv, Receive
  PROVE  DownloadInv'
<1>1. CASE End("broken")
  BY <1>1, BrokenKeepsInv
<1>2. CASE ~(Written = ClientLimit \/ Len(sink) = AdapterLimit)
  <2>1. Written = Len(sink) /\ Len(sink) \in Nat /\ Len(sink) < size
    BY WrittenIsAll DEF Receive, DownloadInv, DownloadType
  <2>2. /\ sink' = Append(sink, <<acquisition, Len(sink) + 1>>)
        /\ phase' = "copy" /\ acquisition' = acquisition /\ size' = size
    BY <1>2, <2>1 DEF Receive
  <2>3. Len(sink') = Len(sink) + 1 /\ sink' \in Seq({0, 1} \X Nat)
    BY <2>1, <2>2 DEF DownloadInv, DownloadType
  <2>4. \A position \in 1..Len(sink') : sink'[position] = <<acquisition', position>>
    <3>1. \A position \in 1..Len(sink) : sink[position] = <<acquisition, position>>
      BY DEF Receive, DownloadInv, OwnPrefix
    <3> QED BY <2>1, <2>2, <2>3, <3>1 DEF DownloadInv, DownloadType
  <2>5. Len(sink') <= size' /\ Len(sink') <= ClientLimit /\ Len(sink') <= AdapterLimit
    BY <1>2, <2>1, <2>2, <2>3 DEF Receive, DownloadInv, DownloadType, OwnPrefix, LogDownloadAssumption
  <2> QED BY <2>2, <2>3, <2>4, <2>5
          DEF DownloadInv, DownloadType, EmptyBefore, OwnPrefix, WholeIsAll, Phase
<1> QED BY <1>1, <1>2 DEF Receive

LEMMA EndOfObjectKeepsInv ==
  ASSUME DownloadInv, EndOfObject
  PROVE  DownloadInv'
<1>1. Written = Len(sink) /\ Written = size
  BY WrittenIsAll DEF EndOfObject
<1> QED BY <1>1 DEF EndOfObject, End, DownloadInv, DownloadType, EmptyBefore, OwnPrefix,
                    WholeIsAll, Phase

LEMMA DownloadStepKeepsInv ==
  ASSUME DownloadInv, DownloadStep \/ UNCHANGED download
  PROVE  DownloadInv'
<1> USE LogDownloadAssumption
<1>1. CASE Begin
  BY <1>1, AcquireKeepsInv DEF Begin
<1>2. CASE Token \/ Retry \/ Refused \/ (\E url \in Url : Relocated(url)) \/ Located
  BY <1>2, RouteKeepsInv
<1>3. CASE Expired \/ FetchRefused \/ Opened
  BY <1>3, FetchKeepsInv
<1>4. CASE Receive
  BY <1>4, ReceiveKeepsInv
<1>5. CASE Cut
  BY <1>5, BrokenKeepsInv DEF Cut
<1>6. CASE EndOfObject
  BY <1>6, EndOfObjectKeepsInv
<1>7. CASE UNCHANGED download
  BY <1>7 DEF download, DownloadInv, DownloadType, EmptyBefore, OwnPrefix, WholeIsAll
<1> QED BY <1>1, <1>2, <1>3, <1>4, <1>5, <1>6, <1>7 DEF DownloadStep

LEMMA OneBodyOfInv == DownloadInv => OneBody
  <1> SUFFICES ASSUME DownloadInv, phase = "whole"
               PROVE  /\ sink = [position \in 1..size |-> <<acquisition, position>>]
                      /\ size <= ClientLimit /\ size <= AdapterLimit
    BY DEF OneBody
  <1>1. Len(sink) = size /\ sink \in Seq({0, 1} \X Nat)
    BY DEF DownloadInv, DownloadType, WholeIsAll
  <1>2. \A position \in 1..size : sink[position] = <<acquisition, position>>
    BY <1>1 DEF DownloadInv, OwnPrefix
  <1> QED BY <1>1, <1>2 DEF DownloadInv, OwnPrefix

\* DownloadInv holds throughout: it is what keeps two locations apart.
THEOREM DownloadInvariance == DownloadSpec => []DownloadInv
  <1>1. DownloadInit => DownloadInv
    BY DEF DownloadInit, DownloadInv, DownloadType, EmptyBefore, OwnPrefix, WholeIsAll, Phase
  <1>2. DownloadInv /\ [(DownloadStep /\ UNCHANGED cancelled) \/ Cancel]_<<download, cancelled>>
          => DownloadInv'
    BY DownloadStepKeepsInv DEF Cancel
  <1> QED BY <1>1, <1>2, PTL DEF DownloadSpec

\* The bytes that are kept of a log are one object of the storage, complete and
\* in order, within both limits (fetchLogObject, copyBounded and the writers of
\* downloadJobLog and downloadAndParseAttempt).
THEOREM OneBodyTheorem == DownloadSpec => []OneBody
  BY OneBodyOfInv, DownloadInvariance, PTL

\* So are those of every log of an attempt: each is downloaded with a new writer
\* and a new count of attempts (collectAttempt, downloadJobLog).
THEOREM EveryLogTheorem == EvidenceSpec => []OneBody
  <1>1. EvidenceInit => DownloadInv
    BY DEF EvidenceInit, DownloadInit, DownloadInv, DownloadType, EmptyBefore, OwnPrefix,
           WholeIsAll, Phase
  <1>2. DownloadInv /\ [EvidenceNext]_evidenceVars => DownloadInv'
    <2> SUFFICES ASSUME DownloadInv, [EvidenceNext]_evidenceVars PROVE DownloadInv'
      OBVIOUS
    <2>1. CASE StepDownload
      BY <2>1, DownloadStepKeepsInv DEF StepDownload
    <2>2. CASE KeepLog \/ LoseLog
      <3>1. phase' = "idle" /\ acquisition' = 0 /\ size' = 0 /\ sink' = <<>>
        BY <2>2 DEF KeepLog, LoseLog, NextLog
      <3> QED BY <3>1 DEF DownloadInv, DownloadType, EmptyBefore, OwnPrefix, WholeIsAll, Phase
    <2>3. CASE UNCHANGED download
      BY <2>3, DownloadStepKeepsInv
    <2> QED BY <2>1, <2>2, <2>3
          DEF EvidenceNext, Collect, Happened, Told, Bind, ReadSetup, Prepare, FollowDefinitions,
              PersistActions, PersistWorkflows, Persist, Abort, CancelAttempt, Cancel, evidenceVars
  <1> QED BY <1>1, <1>2, OneBodyOfInv, PTL DEF EvidenceSpec

-----------------------------------------------------------------------------
(* What a resolution finds.  Nothing is assumed of the definitions here.    *)

\* What a declaration of a definition stands for, None when that is unknown.
Target(def, use, in) ==
  IF use.kind \in {"reusable", "sibling"} THEN WorkflowTarget(def, use, in)
  ELSE ActionTarget(def, use, in)

Clean(result) == ResolutionGaps(result) = {}

\* Every declaration of a definition led to a node.
Followed(def, nodesOf, in) ==
  \A use \in in.source[def].uses :
    Target(def, use, in) # None /\ \E n \in nodesOf : n[2] = Target(def, use, in)

\* Without a gap every node has content, and its declarations were followed or
\* are still to be.
Complete(result, in) ==
  Clean(result) =>
    \A n \in result.nodes :
      /\ in.source[n[2]].status = "ok"
      /\ (\E v \in result.visits : v.def = n[2]) \/ Followed(n[2], result.nodes, in)

\* An edge bound to what a runner took says the one thing that was observed.
Bindable(actions, edge) ==
  edge.bound /\ edge.use.kind = "repository" => Bound(actions, edge.use) = {edge.to}

\* Whatever gap a result has, one edge or one diagnostic tells it.
LEMMA CleanMeans ==
  ASSUME NEW result
  PROVE  Clean(result) <=> /\ result.diagnostics = {}
                           /\ \A e \in result.edges :
                                e.gap \in {"", "HISTORICAL_CONTENT_MISSING", "CONTENT_FETCH_FAILED"}
  BY DEF Clean, ResolutionGaps

LEMMA ResultFields ==
  ASSUME NEW N, NEW E, NEW D, NEW V
  PROVE  /\ Result(N, E, D, V).nodes = N /\ Result(N, E, D, V).edges = E
         /\ Result(N, E, D, V).diagnostics = D /\ Result(N, E, D, V).visits = V
  BY DEF Result

\* The gaps that come with a diagnostic, and no gap.
ToldElsewhere == {"", "HISTORICAL_CONTENT_MISSING", "CONTENT_FETCH_FAILED"}

LEMMA UnknownIsGap ==
  ASSUME NEW from, NEW use, NEW gap, gap \notin ToldElsewhere
  PROVE  ~Clean(OnlyEdge(Edge(from, use, None, FALSE, gap)))
  <1> DEFINE edge == Edge(from, use, None, FALSE, gap)
             result == OnlyEdge(edge)
  <1>1. edge.gap = gap
    BY DEF Edge
  <1> HIDE DEF edge
  <1>2. result.edges = {edge}
    BY DEF OnlyEdge, Result
  <1> HIDE DEF result
  <1>3. ~Clean(result)
    BY <1>1, <1>2, CleanMeans DEF ToldElsewhere
  <1> QED BY <1>3 DEF result, edge

LEMMA DiagnosticIsGap ==
  ASSUME NEW N, NEW E, NEW d, NEW V
  PROVE  ~Clean(Result(N, E, {d}, V))
  <1> DEFINE result == Result(N, E, {d}, V)
  <1>1. result.diagnostics = {d}
    BY DEF Result
  <1> HIDE DEF result
  <1>2. ~Clean(result)
    BY <1>1, CleanMeans
  <1> QED BY <1>2 DEF result

\* A declaration that leaves no gap has a target with content, which is the one
\* node it adds and is visited next (resolveAction, resolveReusable).
Leads(found, to, in) ==
  /\ to # None /\ in.source[to].status = "ok"
  /\ \A n \in found.nodes : n[2] = to
  /\ \E n \in found.nodes : n[2] = to
  /\ \E v \in found.visits : v.def = to

LEMMA FollowActionLeads ==
  ASSUME NEW v, NEW use, NEW in, Clean(FollowAction(v, use, in))
  PROVE  Leads(FollowAction(v, use, in), ActionTarget(v.def, use, in), in)
  <1> DEFINE found == FollowAction(v, use, in)
             to == ActionTarget(v.def, use, in)
             from == <<DefinitionNodeKind(v.def[1]), v.def>>
             unknown(gap) == OnlyEdge(Edge(from, use, None, FALSE, gap))
             identity == UnknownIdentity(in.actions, use)
             edge(gap) == Edge(from, use, to, use.kind = "repository" /\ Bound(in.actions, use) # {}, gap)
             status == in.source[to].status
             code == FetchDiagnostic(status)
             visit == Visit(to, v.depth + 1, v.stack \union {to})
             leads == Result({<<"action", to>>}, {edge("")}, {}, {visit})
             absent == Result({}, {edge(code)}, {code}, {})
             unread == Result({}, {edge("")}, {code}, {})
             cycle == Result({}, {edge("")}, {"RESOLUTION_CYCLE"}, {})
  <1>1. found = IF use.kind = "opaque" THEN unknown("DYNAMIC_OR_OPAQUE_ACTION")
                ELSE IF v.depth >= MaxDepth THEN unknown("RESOLUTION_DEPTH_LIMIT")
                ELSE IF use.kind = "local" THEN unknown("LOCAL_WORKSPACE_BYTES_UNPROVEN")
                ELSE IF to = None THEN unknown(identity)
                ELSE IF status \in {"missing", "failed"} THEN absent
                ELSE IF status # "ok" THEN unread
                ELSE IF to \in v.stack THEN cycle
                ELSE leads
    BY DEF FollowAction
  <1>2. /\ ~Clean(unknown("DYNAMIC_OR_OPAQUE_ACTION")) /\ ~Clean(unknown("RESOLUTION_DEPTH_LIMIT"))
        /\ ~Clean(unknown("LOCAL_WORKSPACE_BYTES_UNPROVEN"))
    BY UnknownIsGap DEF ToldElsewhere
  <1>3. ~Clean(unknown(identity))
    <2>1. identity \notin ToldElsewhere
      BY DEF UnknownIdentity, ToldElsewhere
    <2> HIDE DEF identity
    <2> QED BY <2>1, UnknownIsGap
  <1>4. ~Clean(absent) /\ ~Clean(unread) /\ ~Clean(cycle)
    BY DiagnosticIsGap
  <1>5. leads.nodes = {<<"action", to>>} /\ leads.visits = {visit} /\ visit.def = to
    BY DEF Result, Visit
  <1>6. Clean(found)
    BY DEF found
  <1> HIDE DEF found, to, unknown, identity, status, leads, absent, unread, cycle, visit
  <1>7. to # None /\ status = "ok" /\ found = leads
    <2>1. /\ found # unknown("DYNAMIC_OR_OPAQUE_ACTION") /\ found # unknown("RESOLUTION_DEPTH_LIMIT")
          /\ found # unknown("LOCAL_WORKSPACE_BYTES_UNPROVEN") /\ found # unknown(identity)
      BY <1>2, <1>3, <1>6, Zenon
    <2>2. found # absent /\ found # unread /\ found # cycle
      BY <1>4, <1>6, Zenon
    <2> QED BY <1>1, <2>1, <2>2
  <1>8. Leads(found, to, in)
    <2>1. \A n \in found.nodes : n[2] = to
      BY <1>5, <1>7
    <2>2. \E n \in found.nodes : n[2] = to
      <3> DEFINE only == <<"action", to>>
      <3>1. only \in found.nodes /\ only[2] = to
        BY <1>5, <1>7
      <3> QED BY <3>1, Zenon
    <2>3. \E w \in found.visits : w.def = to
      BY <1>5, <1>7
    <2>4. to # None /\ in.source[to].status = "ok"
      BY <1>7 DEF status
    <2> QED BY <2>1, <2>2, <2>3, <2>4, Zenon DEF Leads
  <1> QED BY <1>8 DEF found, to

LEMMA FollowReusableLeads ==
  ASSUME NEW v, NEW use, NEW in, Clean(FollowReusable(v, use, in))
  PROVE  Leads(FollowReusable(v, use, in), WorkflowTarget(v.def, use, in), in)
  <1> DEFINE found == FollowReusable(v, use, in)
             to == WorkflowTarget(v.def, use, in)
             from == <<"workflow", v.def>>
             unknown(gap) == OnlyEdge(Edge(from, use, None, FALSE, gap))
             identity == UnknownIdentity(in.workflows, use)
             edge == Edge(from, use, to, use.kind = "reusable" /\ Bound(in.workflows, use) # {}, "")
             node == <<"workflow", to>>
             status == in.source[to].status
             visit == Visit(to, v.depth + 1, v.stack \union {to})
             leads == Result({node}, {edge}, {}, {visit})
             absent == Result({}, {edge}, {FetchDiagnostic(status)}, {})
             unread == Result({node}, {edge}, {"MALFORMED"}, {})
             cycle == Result({}, {edge}, {"RESOLUTION_CYCLE"}, {})
  <1>1. found = IF v.depth >= MaxDepth THEN unknown("RESOLUTION_DEPTH_LIMIT")
                ELSE IF to = None THEN unknown(identity)
                ELSE IF to \in v.stack THEN cycle
                ELSE IF status \in {"missing", "failed"} THEN absent
                ELSE IF status # "ok" THEN unread
                ELSE leads
    BY DEF FollowReusable
  <1>2. ~Clean(unknown("RESOLUTION_DEPTH_LIMIT"))
    BY UnknownIsGap DEF ToldElsewhere
  <1>3. ~Clean(unknown(identity))
    <2>1. identity \notin ToldElsewhere
      BY DEF UnknownIdentity, ToldElsewhere
    <2> HIDE DEF identity
    <2> QED BY <2>1, UnknownIsGap
  <1>4. ~Clean(absent) /\ ~Clean(unread) /\ ~Clean(cycle)
    BY DiagnosticIsGap
  <1>5. leads.nodes = {node} /\ leads.visits = {visit} /\ visit.def = to
    BY DEF Result, Visit
  <1>6. Clean(found)
    BY DEF found
  <1> HIDE DEF found, to, unknown, identity, status, leads, absent, unread, cycle, visit
  <1>7. to # None /\ status = "ok" /\ found = leads
    <2>1. found # unknown("RESOLUTION_DEPTH_LIMIT") /\ found # unknown(identity)
      BY <1>2, <1>3, <1>6, Zenon
    <2>2. found # absent /\ found # unread /\ found # cycle
      BY <1>4, <1>6, Zenon
    <2> QED BY <1>1, <2>1, <2>2
  <1>8. Leads(found, to, in)
    <2>1. \A n \in found.nodes : n[2] = to
      BY <1>5, <1>7
    <2>2. \E n \in found.nodes : n[2] = to
      <3> DEFINE only == <<"workflow", to>>
      <3>1. only \in found.nodes /\ only[2] = to
        BY <1>5, <1>7
      <3> QED BY <3>1, Zenon
    <2>3. \E w \in found.visits : w.def = to
      BY <1>5, <1>7
    <2>4. to # None /\ in.source[to].status = "ok"
      BY <1>7 DEF status
    <2> QED BY <2>1, <2>2, <2>3, <2>4, Zenon DEF Leads
  <1> QED BY <1>8 DEF found, to

LEMMA FollowLeads ==
  ASSUME NEW v, NEW use, NEW in, Clean(Follow(v, use, in))
  PROVE  Leads(Follow(v, use, in), Target(v.def, use, in), in)
  BY FollowActionLeads, FollowReusableLeads DEF Follow, Target

\* A declaration that runners resolved has an identity only when they all took
\* one thing (uniqueRuntimeAction).
LEMMA IdentityIsUnique ==
  ASSUME NEW bindings, NEW use, NEW in,
         Bound(bindings, use) # {}, Identity(bindings, use, in) # None
  PROVE  Bound(bindings, use) = {Identity(bindings, use, in)}
  <1> DEFINE taken == Bound(bindings, use)
  <1>1. Unique(taken)
    BY DEF Identity
  <1>2. Identity(bindings, use, in) = CHOOSE d \in taken : TRUE
    BY <1>1 DEF Identity
  <1>3. PICK d \in taken : taken = {d}
    BY <1>1 DEF Unique
  <1> HIDE DEF taken
  <1>4. (CHOOSE c \in taken : TRUE) \in taken
    BY <1>3
  <1>5. taken = {CHOOSE c \in taken : TRUE}
    BY <1>3, <1>4
  <1> QED BY <1>2, <1>5 DEF taken

LEMMA OnlyEdgeBinds ==
  ASSUME NEW actions, NEW from, NEW use, NEW gap
  PROVE  \A e \in OnlyEdge(Edge(from, use, None, FALSE, gap)).edges : Bindable(actions, e)
  BY DEF OnlyEdge, Result, Edge, Bindable

\* Every edge that follows a declaration of an Action is bindable.
LEMMA FollowActionBinds ==
  ASSUME NEW v, NEW use, NEW in
  PROVE  \A e \in FollowAction(v, use, in).edges : Bindable(in.actions, e)
  <1> DEFINE to == ActionTarget(v.def, use, in)
             from == <<DefinitionNodeKind(v.def[1]), v.def>>
             taken == Bound(in.actions, use)
             told == use.kind = "repository" /\ taken # {}
             edge(gap) == Edge(from, use, to, told, gap)
             found == FollowAction(v, use, in)
  <1>1. ASSUME to # None, NEW gap PROVE Bindable(in.actions, edge(gap))
    <2>1. edge(gap).bound = told /\ edge(gap).use = use /\ edge(gap).to = to
      BY DEF Edge
    <2>2. ASSUME told PROVE taken = {to}
      <3>1. to = Identity(in.actions, use, in)
        BY <2>2 DEF ActionTarget
      <3> QED BY <1>1, <2>2, <3>1, IdentityIsUnique
    <2> HIDE DEF edge, to, told, taken
    <2>3. Bindable(in.actions, edge(gap))
      BY <2>1, <2>2 DEF Bindable, taken
    <2> QED BY <2>3
  <1>2. CASE to = None \/ use.kind = "opaque" \/ v.depth >= MaxDepth \/ use.kind = "local"
    <2>1. \E gap : found = OnlyEdge(Edge(from, use, None, FALSE, gap))
      BY <1>2 DEF FollowAction
    <2> HIDE DEF found
    <2>2. \A e \in found.edges : Bindable(in.actions, e)
      BY <2>1, OnlyEdgeBinds
    <2> QED BY <2>2 DEF found
  <1>3. CASE ~(to = None \/ use.kind = "opaque" \/ v.depth >= MaxDepth \/ use.kind = "local")
    <2>1. \E N, D, V, gap : found = Result(N, {edge(gap)}, D, V)
      BY <1>3 DEF FollowAction
    <2> HIDE DEF found, edge
    <2>2. \E gap : found.edges = {edge(gap)}
      BY <2>1 DEF Result
    <2>3. \A e \in found.edges : Bindable(in.actions, e)
      BY <1>1, <1>3, <2>2
    <2> QED BY <2>3 DEF found
  <1> QED BY <1>2, <1>3

\* A called workflow is no Action of a repository.
LEMMA FollowReusableBinds ==
  ASSUME NEW v, NEW use, NEW in, use.kind # "repository"
  PROVE  \A e \in FollowReusable(v, use, in).edges : Bindable(in.actions, e)
  <1> DEFINE found == FollowReusable(v, use, in)
  <1>1. \E N, from, to, told, gap, D, V : found = Result(N, {Edge(from, use, to, told, gap)}, D, V)
    BY DEF FollowReusable, OnlyEdge
  <1> HIDE DEF found
  <1>2. \A e \in found.edges : e.use = use
    BY <1>1 DEF Result, Edge
  <1>3. \A e \in found.edges : Bindable(in.actions, e)
    BY <1>2 DEF Bindable
  <1> QED BY <1>3 DEF found

LEMMA FollowBinds ==
  ASSUME NEW v, NEW use, NEW in
  PROVE  \A e \in Follow(v, use, in).edges : Bindable(in.actions, e)
  <1>1. CASE use.kind \in {"reusable", "sibling"}
    <2>1. use.kind # "repository"
      BY <1>1
    <2> QED BY <1>1, <2>1, FollowReusableBinds DEF Follow
  <1>2. CASE use.kind \notin {"reusable", "sibling"}
    BY <1>2, FollowActionBinds DEF Follow
  <1> QED BY <1>1, <1>2

-----------------------------------------------------------------------------
(* A resolution goes on until nothing is left to visit                      *)

\* What follows the visits of a result.
Found(result, in) ==
  UNION {{Follow(v, use, in) : use \in in.source[v.def].uses} : v \in result.visits}

LEMMA AdvanceFields ==
  ASSUME NEW result, NEW in
  PROVE  LET next == Advance(result, in)
             found == Found(result, in) IN
         /\ next.nodes = result.nodes \union UNION {r.nodes : r \in found}
         /\ next.edges = result.edges \union UNION {r.edges : r \in found}
         /\ next.diagnostics = result.diagnostics \union UNION {r.diagnostics : r \in found}
         /\ next.visits = UNION {r.visits : r \in found}
  BY DEF Advance, Found, Result

\* A gap of what is found stays a gap of the result.
LEMMA AdvanceClean ==
  ASSUME NEW result, NEW in, Clean(Advance(result, in))
  PROVE  Clean(result) /\ \A r \in Found(result, in) : Clean(r)
  <1> DEFINE next == Advance(result, in)
             found == Found(result, in)
  <1>1. /\ next.diagnostics = {}
        /\ \A e \in next.edges : e.gap \in ToldElsewhere
    BY CleanMeans DEF ToldElsewhere
  <1>2. /\ next.edges = result.edges \union UNION {r.edges : r \in found}
        /\ next.diagnostics = result.diagnostics \union UNION {r.diagnostics : r \in found}
    BY AdvanceFields
  <1> HIDE DEF next, found
  <1>3. result.diagnostics = {} /\ \A e \in result.edges : e.gap \in ToldElsewhere
    BY <1>1, <1>2
  <1>4. Clean(result)
    BY <1>3, CleanMeans DEF ToldElsewhere
  <1>5. ASSUME NEW r \in found PROVE Clean(r)
    <2>1. r.diagnostics = {}
      BY <1>1, <1>2, <1>5
    <2>2. \A e \in r.edges : e.gap \in ToldElsewhere
      BY <1>1, <1>2, <1>5
    <2> QED BY <2>1, <2>2, CleanMeans DEF ToldElsewhere
  <1> QED BY <1>4, <1>5 DEF found

\* A step of a resolution keeps the edges bindable.
LEMMA AdvanceBinds ==
  ASSUME NEW result, NEW in, \A e \in result.edges : Bindable(in.actions, e)
  PROVE  \A e \in Advance(result, in).edges : Bindable(in.actions, e)
  <1>1. ASSUME NEW r \in Found(result, in) PROVE \A e \in r.edges : Bindable(in.actions, e)
    <2>1. PICK v \in result.visits : \E use \in in.source[v.def].uses : r = Follow(v, use, in)
      BY <1>1 DEF Found
    <2> QED BY <2>1, FollowBinds
  <1> QED BY <1>1, AdvanceFields

\* A step of a resolution keeps it complete: whatever it visits, it follows
\* every declaration of it.
LEMMA AdvanceComplete ==
  ASSUME NEW result, NEW in, Complete(result, in)
  PROVE  Complete(Advance(result, in), in)
  <1> DEFINE next == Advance(result, in)
             found == Found(result, in)
  <1> SUFFICES ASSUME Clean(next)
               PROVE  \A n \in next.nodes :
                        /\ in.source[n[2]].status = "ok"
                        /\ (\E v \in next.visits : v.def = n[2]) \/ Followed(n[2], next.nodes, in)
    BY DEF Complete
  <1>1. Clean(result) /\ \A r \in found : Clean(r)
    BY AdvanceClean
  <1>2. /\ next.nodes = result.nodes \union UNION {r.nodes : r \in found}
        /\ next.visits = UNION {r.visits : r \in found}
    BY AdvanceFields
  <1>3. ASSUME NEW v \in result.visits, NEW use \in in.source[v.def].uses
        PROVE  /\ Follow(v, use, in) \in found
               /\ Leads(Follow(v, use, in), Target(v.def, use, in), in)
    <2>1. Follow(v, use, in) \in found
      BY DEF Found
    <2>2. Clean(Follow(v, use, in))
      BY <1>1, <2>1
    <2> QED BY <2>1, <2>2, FollowLeads
  <1>4. ASSUME NEW r \in found
        PROVE  \E v \in result.visits : \E use \in in.source[v.def].uses : r = Follow(v, use, in)
    BY <1>4 DEF Found
  <1> HIDE DEF next, found
  <1>5. ASSUME NEW n \in result.nodes
        PROVE  /\ in.source[n[2]].status = "ok"
               /\ Followed(n[2], next.nodes, in)
    <2>1. /\ in.source[n[2]].status = "ok"
          /\ (\E v \in result.visits : v.def = n[2]) \/ Followed(n[2], result.nodes, in)
      BY <1>1 DEF Complete
    <2>2. CASE Followed(n[2], result.nodes, in)
      BY <1>2, <2>1, <2>2 DEF Followed
    <2>3. CASE \E v \in result.visits : v.def = n[2]
      <3>1. PICK v \in result.visits : v.def = n[2]
        BY <2>3
      <3>2. ASSUME NEW use \in in.source[n[2]].uses
            PROVE  /\ Target(n[2], use, in) # None
                   /\ \E m \in next.nodes : m[2] = Target(n[2], use, in)
        <4>1. /\ Follow(v, use, in) \in found
              /\ Leads(Follow(v, use, in), Target(n[2], use, in), in)
          BY <1>3, <3>1, <3>2
        <4>2. Follow(v, use, in).nodes \subseteq next.nodes
          BY <1>2, <4>1
        <4> QED BY <4>1, <4>2 DEF Leads
      <3> QED BY <2>1, <3>2 DEF Followed
    <2> QED BY <2>1, <2>2, <2>3
  <1>6. ASSUME NEW r \in found, NEW n \in r.nodes
        PROVE  /\ in.source[n[2]].status = "ok"
               /\ \E w \in next.visits : w.def = n[2]
    <2>1. PICK v \in result.visits : \E use \in in.source[v.def].uses : r = Follow(v, use, in)
      BY <1>4
    <2>2. PICK use \in in.source[v.def].uses : r = Follow(v, use, in)
      BY <2>1
    <2>3. Leads(r, Target(v.def, use, in), in)
      BY <1>3, <2>2
    <2>4. r.visits \subseteq next.visits
      BY <1>2
    <2> QED BY <2>3, <2>4 DEF Leads
  <1> TAKE n \in next.nodes
  <1>7. CASE n \in result.nodes
    BY <1>5, <1>7
  <1>8. CASE \E r \in found : n \in r.nodes
    BY <1>6, <1>8
  <1> QED BY <1>2, <1>7, <1>8

\* What a resolution starts with is its root, to be visited (ResolveWorkflow,
\* ResolveAction), or the gap that its content is.
LEMMA RootComplete ==
  ASSUME NEW kind, NEW def, NEW in
  PROVE  LET root == Root(kind, def, in) IN
         /\ root.edges = {}
         /\ Complete(root, in)
         /\ Clean(root) => <<kind, def>> \in root.nodes
  <1> DEFINE root == Root(kind, def, in)
             visit == Visit(def, 1, {def})
             node == <<kind, def>>
  <1>1. CASE in.source[def].status = "ok"
    <2>1. root = Result({node}, {}, {}, {visit})
      BY <1>1 DEF Root
    <2>2. root.nodes = {node} /\ root.edges = {} /\ root.visits = {visit}
      BY <2>1 DEF Result
    <2>3. visit.def = def /\ node[2] = def
      BY DEF Visit
    <2> HIDE DEF root, visit, node
    <2>4. Complete(root, in)
      BY <1>1, <2>2, <2>3 DEF Complete
    <2> QED BY <2>2, <2>4 DEF root, node
  <1>2. CASE in.source[def].status # "ok"
    <2>1. root = Result({}, {}, {FetchDiagnostic(in.source[def].status)}, {})
      BY <1>2 DEF Root
    <2>2. ~Clean(root) /\ root.edges = {}
      <3> HIDE DEF root
      <3>1. ~Clean(root)
        BY <2>1, DiagnosticIsGap, Zenon
      <3>2. root.edges = {}
        BY <2>1 DEF Result
      <3> QED BY <3>1, <3>2
    <2> HIDE DEF root
    <2>3. Complete(root, in)
      BY <2>2 DEF Complete
    <2>4. root.edges = {} /\ Complete(root, in) /\ (Clean(root) => node \in root.nodes)
      BY <2>2, <2>3, Zenon
    <2> QED BY <2>4 DEF root
  <1> QED BY <1>1, <1>2

\* A resolution that is over and has no gap is closed: every declaration of a
\* node leads to a node.
LEMMA CompleteIsFollowed ==
  ASSUME NEW result, NEW in, Complete(result, in), Clean(result), result.visits = {},
         NEW n \in result.nodes
  PROVE  in.source[n[2]].status = "ok" /\ Followed(n[2], result.nodes, in)
  BY DEF Complete

-----------------------------------------------------------------------------
(* What a lookup of bindings tells                                          *)

LEMMA LookupBound ==
  ASSUME NEW pairs, NEW use
  PROVE  Bound(Lookup(pairs), use) = {p[2] : p \in {q \in pairs : q[1] = BindingKey(use)}}
  <1> DEFINE key == BindingKey(use)
             table == Lookup(pairs)
  <1>1. DOMAIN table = {p[1] : p \in pairs}
    BY DEF Lookup
  <1>2. CASE key \in DOMAIN table
    <2>1. table[key] = {p[2] : p \in {q \in pairs : q[1] = key}}
      BY <1>1, <1>2 DEF Lookup
    <2>2. Bound(table, use) = table[key]
      BY <1>2 DEF Bound
    <2> QED BY <2>1, <2>2
  <1>3. CASE key \notin DOMAIN table
    <2>1. Bound(table, use) = {}
      BY <1>3 DEF Bound
    <2>2. {q \in pairs : q[1] = key} = {}
      BY <1>1, <1>3
    <2> QED BY <2>1, <2>2
  <1> QED BY <1>2, <1>3

-----------------------------------------------------------------------------
(* What a world that contradicts nothing implies                            *)

\* A declaration stood for one definition of the world, or for one that GitHub
\* cannot name.
LEMMA TargetExists ==
  ASSUME Consistent(world), NEW j \in world.started,
         NEW d \in DOMAIN world.truth, NEW use \in world.truth[d]
  PROVE  TrueTarget(j, d, use) \in DOMAIN world.truth \union {None}
  <1>1. CASE use.kind \in {"self", "sibling"}
    BY <1>1 DEF Consistent, TrueTarget
  <1>2. CASE use.kind = "repository"
    <2>1. TrueTarget(j, d, use) = world.resolved[j][<<use.place, use.ref>>]
      BY <1>2 DEF TrueTarget, BindingKey
    <2>2. {world.resolved[k][<<use.place, use.ref>>] : k \in world.started} \subseteq DOMAIN world.truth
      BY <1>2 DEF Consistent
    <2> QED BY <2>1, <2>2
  <1>3. CASE use.kind = "reusable"
    <2>1. TrueTarget(j, d, use) = world.calls[<<use.place, use.ref>>]
      BY <1>3 DEF TrueTarget, BindingKey
    <2>2. {world.calls[<<use.place, use.ref>>]} \subseteq DOMAIN world.truth
      BY <1>3 DEF Consistent
    <2> QED BY <2>1, <2>2
  <1>4. CASE use.kind \notin {"self", "sibling", "repository", "reusable"}
    BY <1>4 DEF TrueTarget
  <1> QED BY <1>1, <1>2, <1>3, <1>4

\* What a job reached holds the workflow and what it uses.
LEMMA ReachedClosed ==
  ASSUME Consistent(world), NEW j \in world.started
  PROVE  Closed(j, Reached(j))
  <1>1. world.ran \in Reached(j)
    BY DEF Consistent, Reached, Closed
  <1>2. ASSUME NEW d \in Reached(j), NEW use \in world.truth[d], TrueTarget(j, d, use) # None
        PROVE  TrueTarget(j, d, use) \in Reached(j)
    <2> DEFINE to == TrueTarget(j, d, use)
    <2>1. d \in DOMAIN world.truth
      BY DEF Reached
    <2>2. to \in DOMAIN world.truth
      BY <1>2, <2>1, TargetExists
    <2>3. ASSUME NEW defs \in SUBSET DOMAIN world.truth, Closed(j, defs)
          PROVE  to \in defs
      <3>1. d \in defs
        BY <2>3 DEF Reached
      <3>2. to \in defs \union {None}
        BY <2>3, <3>1 DEF Closed
      <3> QED BY <1>2, <3>2
    <2> HIDE DEF to
    <2>4. to \in Reached(j)
      BY <2>2, <2>3 DEF Reached
    <2> QED BY <2>4 DEF to
  <1> QED BY <1>1, <1>2 DEF Closed

\* Definitions that hold the workflow, and with each one that a job reached all
\* that it uses, hold everything the job used.
LEMMA UsedIsCovered ==
  ASSUME Consistent(world), NEW j \in world.started, NEW found, world.ran \in found,
         \A d \in Reached(j) \intersect found : \A use \in world.truth[d] :
           TrueTarget(j, d, use) # None /\ TrueTarget(j, d, use) \in found
  PROVE  \A d \in Used(j) : d # None /\ d \in found
  <1> DEFINE some == Reached(j) \intersect found
  <1>1. Closed(j, Reached(j))
    BY ReachedClosed
  <1>2. Closed(j, some)
    <2>1. world.ran \in some
      BY <1>1 DEF Closed
    <2>2. ASSUME NEW d \in some, NEW use \in world.truth[d]
          PROVE  TrueTarget(j, d, use) \in some
      BY <1>1 DEF Closed
    <2> HIDE DEF some
    <2> QED BY <2>1, <2>2 DEF Closed
  <1>3. Reached(j) \subseteq some
    <2>1. some \in SUBSET DOMAIN world.truth
      BY DEF Reached
    <2> HIDE DEF some
    <2> QED BY <1>2, <2>1 DEF Reached
  <1>4. world.ran # None
    BY DEF Consistent
  <1>5. ASSUME NEW r \in Ran(j)
        PROVE  r[2] # None /\ r[2] \in found
    <2>1. PICK d \in Reached(j) : \E use \in world.truth[d] : r = <<use, TrueTarget(j, d, use)>>
      BY <1>5 DEF Ran
    <2>2. PICK use \in world.truth[d] : r = <<use, TrueTarget(j, d, use)>>
      BY <2>1
    <2>3. r[2] = TrueTarget(j, d, use)
      BY <2>2
    <2> QED BY <1>3, <2>3
  <1> QED BY <1>4, <1>5 DEF Used

\* What a setup entry shows is what the runner of the job took.
LEMMA ObservedIsTaken ==
  ASSUME NEW j, NEW o \in Observed(j)
  PROVE  o[2] = world.resolved[j][o[1]]
  <1>1. PICK r \in Ran(j) : r[1].kind = "repository" /\ o = <<BindingKey(r[1]), r[2]>>
    BY DEF Observed
  <1>2. PICK d \in Reached(j) : \E use \in world.truth[d] : r = <<use, TrueTarget(j, d, use)>>
    BY DEF Ran
  <1>3. PICK use \in world.truth[d] : r = <<use, TrueTarget(j, d, use)>>
    BY <1>2
  <1>4. r[1] = use /\ r[2] = TrueTarget(j, d, use)
    BY <1>3
  <1>5. r[2] = world.resolved[j][BindingKey(r[1])]
    BY <1>1, <1>4 DEF TrueTarget
  <1> QED BY <1>1, <1>5

\* A setup entry that parses to its end shows every Action of a repository.
LEMMA EntryShowsAll ==
  ASSUME Consistent(world), NEW j \in world.started, j \notin world.absent, j \notin world.partial,
         NEW r \in Ran(j), r[1].kind = "repository"
  PROVE  <<BindingKey(r[1]), r[2]>> \in Observed(j)
  <1>1. world.unseen[j] = {}
    BY DEF Consistent
  <1> QED BY <1>1 DEF Observed

-----------------------------------------------------------------------------
(* The definitions of an attempt: the inductive invariant                   *)

\* Nothing but the log of a job is missing so far.
Quiet == \A g \in gaps : g[1] = "log" /\ g[2] # AttemptLog

\* The bindings a scope is resolved with.
Bindings(scope) == IF scope \in Job THEN setup[scope] ELSE AllBindings

\* What a resolution without a gap relies on: every runner's choices were read,
\* and the caller and every recorded call are known.
SetupIsWhole(j) ==
  setup[j] = Observed(j) /\ j \notin world.absent /\ j \notin world.partial

CallsAreKnown ==
  /\ caller = world.ran
  /\ \A c \in called : c.compatible
  /\ \A c \in called : \E made \in world.recorded : made.key = c.key /\ made.def = c.def
  /\ \A made \in world.recorded : \E c \in called : c.key = made.key /\ c.def = made.def

\* A world is chosen before anything is bound, and none of those considered
\* contradicts itself.
WorldSound ==
  /\ stage = "logs" => world = None
  /\ stage = "learn" /\ world # None => world \in Worlds
  /\ stage \notin {"logs", "learn"} => Consistent(world)

AttemptLogTold ==
  stage = "learn" => AttemptLog \in logs \/ <<"log", AttemptLog>> \in gaps

\* Nothing is bound or resolved before its time.
InTime ==
  /\ bound \in BOOLEAN
  /\ stage \in {"logs", "learn", "bind"} => ~bound
  /\ stage \in {"actions", "workflows", "done"} => bound
  /\ stage \in {"logs", "learn", "bind", "setup"} => edges = {} /\ \A j \in Job : setup[j] = {}

SetupSound ==
  /\ \A j \in Job : setup[j] \subseteq Observed(j)
  /\ Quiet /\ stage \in {"prepare", "actions", "workflows", "done"} =>
       \A j \in world.started : SetupIsWhole(j)

CallsSound == bound /\ Quiet => CallsAreKnown

EdgesSound == \A e \in edges : Bindable(Lookup(Bindings(e.scope)), e.edge)

ResultsSound ==
  stage \in {"actions", "workflows"} =>
    \A r \in results :
      /\ r = [scope |-> r.scope, result |-> r.result]
      /\ \A e \in r.result.edges : Bindable(Lookup(Bindings(r.scope)), e)

\* The resolution of the caller workflow has it for a node, and no resolution of
\* a workflow loses a declaration.
FindsCaller(result) == Clean(result) => <<"workflow", caller>> \in result.nodes

WorkflowsSound ==
  stage = "workflows" =>
    /\ \A r \in results : r.scope = AttemptLog /\ Complete(r.result, Known(AttemptLog))
    /\ caller # None => \E r \in results : FindsCaller(r.result)

EvidenceInv ==
  /\ WorldSound /\ AttemptLogTold /\ InTime /\ SetupSound /\ CallsSound
  /\ EdgesSound /\ ResultsSound /\ WorkflowsSound
  /\ DefinitionSilence

-----------------------------------------------------------------------------
(* What a resolution without a gap tells is true                            *)

\* What the code takes a declaration for is what the job ran, if every choice
\* and every call is known.
LEMMA TargetIsTrue ==
  ASSUME Consistent(world), CallsAreKnown,
         NEW j \in world.started, SetupIsWhole(j),
         NEW d \in Reached(j), NEW use \in world.truth[d],
         Target(d, use, Known(AttemptLog)) # None
  PROVE  Target(d, use, Known(AttemptLog)) = TrueTarget(j, d, use)
  <1> DEFINE in == Known(AttemptLog)
             to == Target(d, use, in)
             key == BindingKey(use)
             true == TrueTarget(j, d, use)
             calls == {<<c.key, c.def>> : c \in {c \in called : c.compatible}}
  <1>1. in.actions = Lookup(AllBindings) /\ in.workflows = Lookup(calls)
    BY AttemptEvidenceAssumption DEF Known, Inputs
  <1>2. j \in Job /\ d \in DOMAIN world.truth
    BY DEF Consistent, Reached
  <1>3. CASE use.kind \in {"self", "sibling"}
    BY <1>3 DEF Target, WorkflowTarget, ActionTarget, TrueTarget
  <1>4. CASE use.kind = "repository"
    <2>1. to = Identity(in.actions, use, in)
      BY <1>4 DEF Target, ActionTarget
    <2>2. <<use, true>> \in Ran(j)
      BY DEF Ran
    <2>3. <<key, true>> \in Observed(j)
      <3> DEFINE r == <<use, true>>
      <3>1. r \in Ran(j) /\ r[1] = use /\ r[2] = true
        BY <2>2
      <3> HIDE DEF r
      <3> QED BY <1>4, <3>1, EntryShowsAll DEF SetupIsWhole
    <2>4. <<key, true>> \in AllBindings
      BY <1>2, <2>3 DEF SetupIsWhole, AllBindings
    <2>5. true \in Bound(in.actions, use)
      <3> DEFINE o == <<key, true>>
      <3>1. o \in AllBindings /\ o[1] = key /\ o[2] = true
        BY <2>4
      <3> HIDE DEF o, true, key
      <3>2. true \in {p[2] : p \in {q \in AllBindings : q[1] = key}}
        BY <3>1
      <3> QED BY <1>1, <3>2, LookupBound DEF key
    <2>6. to # None
      OBVIOUS
    <2> HIDE DEF true, in, to
    <2>7. Bound(in.actions, use) = {to}
      BY <2>1, <2>5, <2>6, IdentityIsUnique
    <2>8. to = true
      BY <2>5, <2>7
    <2> QED BY <2>8 DEF true, in, to
  <1>5. CASE use.kind = "reusable"
    <2>1. to = Identity(in.workflows, use, in)
      BY <1>5 DEF Target, WorkflowTarget
    <2>2. true = world.calls[key]
      BY <1>5 DEF TrueTarget
    <2>3. Bound(in.workflows, use) = {p[2] : p \in {q \in calls : q[1] = key}}
      BY <1>1, LookupBound
    <2>4. CASE Bound(in.workflows, use) = {}
      <3>1. to = <<use.place, use.ref>> /\ use.ref \in Commits
        BY <2>1, <2>4 DEF Identity, Unique, Declared
      <3>2. {world.calls[<<use.place, use.ref>>]} \subseteq {<<use.place, use.ref>>}
        BY <1>2, <1>5, <3>1 DEF Consistent
      <3> QED BY <2>2, <3>1, <3>2 DEF BindingKey
    <2>5. CASE Bound(in.workflows, use) # {}
      <3>1. Bound(in.workflows, use) = {to}
        BY <2>1, <2>5, IdentityIsUnique
      <3>2. PICK p \in calls : p[1] = key
        BY <2>3, <2>5
      <3>3. PICK c \in called : p = <<c.key, c.def>>
        BY <3>2
      <3>4. PICK told \in world.recorded : told.key = key
        BY <3>2, <3>3 DEF CallsAreKnown
      <3>5. PICK made \in world.recorded : made.key = key /\ made.def = world.calls[key]
        BY <3>4 DEF Consistent
      <3>6. PICK call \in called : call.key = key /\ call.def = world.calls[key] /\ call.compatible
        BY <3>5 DEF CallsAreKnown
      <3> DEFINE o == <<call.key, call.def>>
      <3>7. o \in calls /\ o[1] = key /\ o[2] = true
        BY <2>2, <3>6
      <3> HIDE DEF o, true, key, calls
      <3>8. true \in Bound(in.workflows, use)
        BY <2>3, <3>7
      <3> QED BY <3>1, <3>8 DEF true
    <2> QED BY <2>4, <2>5
  <1>6. CASE use.kind \notin {"self", "sibling", "repository", "reusable"}
    BY <1>6 DEF Target, ActionTarget
  <1> QED BY <1>3, <1>4, <1>5, <1>6

\* A resolution of the caller that is over and has no gap holds all that a job
\* used.
LEMMA ResolutionCovers ==
  ASSUME Consistent(world), CallsAreKnown, NEW j \in world.started, SetupIsWhole(j),
         NEW result, Complete(result, Known(AttemptLog)), Clean(result), result.visits = {},
         FindsCaller(result)
  PROVE  \A d \in Used(j) : d # None /\ \E n \in result.nodes : n[2] = d
  <1> DEFINE in == Known(AttemptLog)
             found == {n[2] : n \in result.nodes}
  <1>1. in.source = world.source
    BY DEF Known, Inputs, Fetch
  <1>2. world.ran \in found
    <2> DEFINE n == <<"workflow", caller>>
    <2>1. n \in result.nodes /\ n[2] = world.ran
      BY DEF FindsCaller, CallsAreKnown
    <2> HIDE DEF n
    <2> QED BY <2>1
  <1>3. ASSUME NEW d \in Reached(j) \intersect found, NEW use \in world.truth[d]
        PROVE  TrueTarget(j, d, use) # None /\ TrueTarget(j, d, use) \in found
    <2>1. PICK n \in result.nodes : n[2] = d
      BY <1>3
    <2>2. in.source[d].status = "ok" /\ Followed(d, result.nodes, in)
      BY <2>1, CompleteIsFollowed
    <2>3. in.source[d].uses = world.truth[d]
      BY <1>1, <2>2 DEF Consistent, Reached
    <2>4. Target(d, use, in) # None /\ \E m \in result.nodes : m[2] = Target(d, use, in)
      BY <2>2, <2>3 DEF Followed
    <2>5. Target(d, use, in) = TrueTarget(j, d, use)
      BY <2>4, TargetIsTrue
    <2> QED BY <2>4, <2>5
  <1> HIDE DEF found
  <1>4. \A d \in Used(j) : d # None /\ d \in found
    BY <1>2, <1>3, UsedIsCovered
  <1> QED BY <1>4 DEF found

-----------------------------------------------------------------------------
(* The invariant holds of every step                                        *)

\* What the jobs did is the same as long as the world is.
LEMMA WorldFrame ==
  ASSUME UNCHANGED world, NEW CONSTANT j
  PROVE  Observed(j)' = Observed(j) /\ Ran(j)' = Ran(j) /\ Used(j)' = Used(j)
  <1>1. ASSUME NEW d, NEW use PROVE TrueTarget(j, d, use)' = TrueTarget(j, d, use)
    BY DEF TrueTarget
  <1>2. ASSUME NEW defs PROVE Closed(j, defs)' = Closed(j, defs)
    BY <1>1 DEF Closed
  <1>3. Reached(j)' = Reached(j)
    BY <1>2 DEF Reached
  <1>4. Ran(j)' = Ran(j)
    BY <1>1, <1>3 DEF Ran
  <1>5. Used(j)' = Used(j)
    BY <1>4 DEF Used
  <1>6. Observed(j)' = Observed(j)
    BY <1>4 DEF Observed
  <1> QED BY <1>4, <1>5, <1>6

LEMMA BindingsFrame ==
  ASSUME UNCHANGED setup, NEW CONSTANT scope
  PROVE  Bindings(scope)' = Bindings(scope)
  BY DEF Bindings, AllBindings

LEMMA KnownFrame ==
  ASSUME UNCHANGED <<world, setup, formats, called>>, NEW CONSTANT scope
  PROVE  Known(scope)' = Known(scope)
  BY DEF Known, AllBindings, Inputs, Fetch

LEMMA KnownActions ==
  ASSUME NEW CONSTANT scope
  PROVE  Known(scope).actions = Lookup(Bindings(scope))
  BY DEF Known, Bindings, Inputs

\* A gap stays a gap.
LEMMA QuietBefore ==
  ASSUME gaps \subseteq gaps', Quiet'
  PROVE  Quiet
  BY DEF Quiet

\* What a step that leaves setup, world and edges alone keeps.
LEMMA SetupKept ==
  ASSUME EvidenceInv, UNCHANGED <<world, setup>>, gaps \subseteq gaps',
         stage' \in {"prepare", "actions", "workflows", "done"} =>
           stage \in {"prepare", "actions", "workflows", "done"}
  PROVE  SetupSound'
  <1>1. ASSUME NEW j \in Job PROVE setup'[j] \subseteq Observed(j)'
    BY <1>1, WorldFrame DEF EvidenceInv, SetupSound
  <1>2. ASSUME Quiet', stage' \in {"prepare", "actions", "workflows", "done"},
               NEW j \in world'.started
        PROVE  SetupIsWhole(j)'
    <2>1. SetupIsWhole(j)
      BY <1>2, QuietBefore DEF EvidenceInv, SetupSound
    <2> QED BY <2>1, WorldFrame DEF SetupIsWhole
  <1> QED BY <1>1, <1>2 DEF SetupSound

LEMMA CallsKept ==
  ASSUME EvidenceInv, UNCHANGED <<world, caller, called, bound>>, gaps \subseteq gaps'
  PROVE  CallsSound'
  <1>1. CallsAreKnown => CallsAreKnown'
    BY DEF CallsAreKnown
  <1>2. Quiet' => Quiet
    BY QuietBefore
  <1>3. CallsSound
    BY DEF EvidenceInv
  <1> QED BY <1>1, <1>2, <1>3 DEF CallsSound

LEMMA EdgesKept ==
  ASSUME EvidenceInv, UNCHANGED <<setup, edges>>
  PROVE  EdgesSound'
  BY BindingsFrame DEF EvidenceInv, EdgesSound

\* A step that only reads, and one that ends the collection early.
LEMMA FrameKeepsEvidence ==
  ASSUME EvidenceInv, UNCHANGED <<logs, world, evidence>>,
         stage' = stage \/ (stage' = "failed" /\ stage \notin {"logs", "learn"})
  PROVE  EvidenceInv'
  <1> USE DEF evidence
  <1>1. WorldSound'
    BY DEF EvidenceInv, WorldSound
  <1>2. AttemptLogTold'
    BY DEF EvidenceInv, AttemptLogTold
  <1>3. InTime'
    BY DEF EvidenceInv, InTime
  <1>4. SetupSound'
    BY SetupKept
  <1>5. CallsSound' /\ EdgesSound'
    BY CallsKept, EdgesKept
  <1>6. ResultsSound'
    BY BindingsFrame DEF EvidenceInv, ResultsSound
  <1>7. WorkflowsSound'
    BY KnownFrame DEF EvidenceInv, WorkflowsSound, FindsCaller
  <1>8. DefinitionSilence'
    <2>1. ASSUME Silent', NEW j \in world'.started, NEW d \in Used(j)'
          PROVE  d # None /\ \E n \in nodes' : n[2] = d
      <3>1. Silent
        BY <2>1 DEF Silent
      <3>2. d \in Used(j)
        BY <2>1, WorldFrame
      <3> QED BY <3>1, <3>2 DEF EvidenceInv, DefinitionSilence
    <2> QED BY <2>1 DEF DefinitionSilence
  <1> QED BY <1>1, <1>2, <1>3, <1>4, <1>5, <1>6, <1>7, <1>8 DEF EvidenceInv

LEMMA EvidenceInitSound ==
  ASSUME EvidenceInit PROVE EvidenceInv
  <1> USE DEF EvidenceInit
  <1>1. WorldSound /\ AttemptLogTold /\ InTime
    BY DEF WorldSound, AttemptLogTold, InTime
  <1>2. SetupSound
    BY DEF SetupSound
  <1>3. CallsSound /\ EdgesSound /\ ResultsSound /\ WorkflowsSound
    BY DEF CallsSound, EdgesSound, ResultsSound, WorkflowsSound
  <1>4. DefinitionSilence
    BY DEF DefinitionSilence, Silent
  <1> QED BY <1>1, <1>2, <1>3, <1>4 DEF EvidenceInv

\* The next log is asked for, and what follows the attempt's own log
\* (downloadAndParseAttempt).
LEMMA NextLogKeepsEvidence ==
  ASSUME EvidenceInv, stage = "logs", NEW CONSTANT name, name = Head(todo),
         NEW CONSTANT kept, NEW CONSTANT gap, NextLog(kept, gap),
         name \in kept \/ <<"log", name>> \in gap
  PROVE  EvidenceInv'
  <1>1. /\ stage' \in {"logs", "learn"} /\ UNCHANGED <<world, setup, caller, called, bound, edges>>
        /\ stage' = "learn" => name = AttemptLog
        /\ logs' = logs \union kept /\ gaps' = gaps \union gap
    BY DEF NextLog
  <1>2. WorldSound'
    BY <1>1 DEF EvidenceInv, WorldSound
  <1>3. AttemptLogTold'
    BY <1>1 DEF AttemptLogTold
  <1>4. InTime'
    BY <1>1 DEF EvidenceInv, InTime
  <1>5. SetupSound'
    BY <1>1, SetupKept
  <1>6. CallsSound' /\ EdgesSound'
    BY <1>1, CallsKept, EdgesKept
  <1>7. ResultsSound' /\ WorkflowsSound' /\ DefinitionSilence'
    BY <1>1 DEF ResultsSound, WorkflowsSound, DefinitionSilence, Silent
  <1> QED BY <1>2, <1>3, <1>4, <1>5, <1>6, <1>7 DEF EvidenceInv

LEMMA KeepLogKeepsEvidence ==
  ASSUME EvidenceInv, KeepLog PROVE EvidenceInv'
  <1>1. stage = "logs" /\ NextLog({Head(todo)}, {})
    BY DEF KeepLog
  <1> QED BY <1>1, NextLogKeepsEvidence

LEMMA LoseLogKeepsEvidence ==
  ASSUME EvidenceInv, LoseLog PROVE EvidenceInv'
  <1>1. stage = "logs" /\ NextLog({}, {<<"log", Head(todo)>>})
    BY DEF LoseLog
  <1> QED BY <1>1, NextLogKeepsEvidence

\* The jobs have run: nothing was bound yet.
LEMMA HappenedKeepsEvidence ==
  ASSUME EvidenceInv, Happened PROVE EvidenceInv'
  <1>1. /\ stage = "learn" /\ stage' = "learn" /\ world' \in Worlds
        /\ UNCHANGED <<logs, gaps, setup, caller, called, bound, edges>>
    BY DEF Happened, evidence
  <1>2. WorldSound'
    BY <1>1 DEF WorldSound
  <1>3. AttemptLogTold' /\ InTime'
    BY <1>1 DEF EvidenceInv, AttemptLogTold, InTime
  <1>4. SetupSound'
    BY <1>1 DEF EvidenceInv, InTime, SetupSound
  <1>5. CallsSound'
    BY <1>1 DEF EvidenceInv, InTime, CallsSound
  <1>6. EdgesSound'
    BY <1>1, EdgesKept
  <1>7. ResultsSound' /\ WorkflowsSound' /\ DefinitionSilence'
    BY <1>1 DEF ResultsSound, WorkflowsSound, DefinitionSilence, Silent
  <1> QED BY <1>2, <1>3, <1>4, <1>5, <1>6, <1>7 DEF EvidenceInv

\* What is told does not contradict what happened; without the attempt's log
\* there is a gap.
LEMMA ToldKeepsEvidence ==
  ASSUME EvidenceInv, Told PROVE EvidenceInv'
  <1>1. /\ stage = "learn" /\ stage' \in {"bind", "prepare"} /\ world # None
        /\ world' \in {world} \union Faulty(world)
        /\ stage' = "prepare" => AttemptLog \notin logs
        /\ UNCHANGED <<logs, gaps, setup, caller, called, bound, edges>>
    BY DEF Told, evidence
  <1>2. Consistent(world')
    <2>1. world \in Worlds
      BY <1>1 DEF EvidenceInv, WorldSound
    <2> QED BY <1>1, <2>1, WorldsAssumption
  <1>3. WorldSound'
    BY <1>1, <1>2 DEF WorldSound
  <1>4. AttemptLogTold'
    BY <1>1 DEF AttemptLogTold
  <1>5. InTime'
    BY <1>1 DEF EvidenceInv, InTime
  <1>6. SetupSound'
    <2>1. \A j \in Job : setup'[j] = {}
      BY <1>1 DEF EvidenceInv, InTime
    <2>2. stage' = "prepare" => ~Quiet'
      <3>1. ASSUME stage' = "prepare" PROVE \E g \in gaps : g[1] = "log" /\ g[2] = AttemptLog
        <4> DEFINE g == <<"log", AttemptLog>>
        <4>1. g \in gaps /\ g[1] = "log" /\ g[2] = AttemptLog
          BY <1>1, <3>1 DEF EvidenceInv, AttemptLogTold
        <4> HIDE DEF g
        <4> QED BY <4>1
      <3> QED BY <1>1, <3>1 DEF Quiet
    <2> QED BY <1>1, <2>1, <2>2 DEF SetupSound
  <1>7. CallsSound'
    BY <1>1 DEF EvidenceInv, InTime, CallsSound
  <1>8. EdgesSound'
    BY <1>1, EdgesKept
  <1>9. ResultsSound' /\ WorkflowsSound' /\ DefinitionSilence'
    BY <1>1 DEF ResultsSound, WorkflowsSound, DefinitionSilence, Silent
  <1> QED BY <1>3, <1>4, <1>5, <1>6, <1>7, <1>8, <1>9 DEF EvidenceInv

\* Without a gap the caller is the workflow that ran and every recorded call is
\* known (prepareCallerWorkflow, prepareCalledWorkflows).
LEMMA BindWorkflowsKnows ==
  ASSUME Consistent(world), BindWorkflows, UNCHANGED world, Quiet'
  PROVE  CallsAreKnown'
  <1> DEFINE home == IF Candidate = None THEN {} ELSE {RepositoryOf[Candidate[1]]}
             typed == {c \in world.recorded : RepositoryOf[c.def[1]] \in world.formats}
             record(c) == [key |-> c.key, def |-> c.def, compatible |-> c.compatible]
  <1>1. /\ caller' = IF home \subseteq world.formats THEN Candidate ELSE None
        /\ called' = {record(c) : c \in {c \in typed : Peeled(c)}}
        /\ gaps' = gaps \union FormatGaps(home \union RecordedRepositories)
               \union (IF home = {} THEN {<<"caller", None>>} ELSE {})
               \union {<<"incompatible", c.def>> : c \in {c \in typed : ~c.compatible}}
               \union {<<"unpeeled", c.def>> : c \in {c \in typed : ~Peeled(c)}}
    BY DEF BindWorkflows
  <1>2. \A g \in gaps' : g[1] = "log"
    BY DEF Quiet
  <1>3. home # {}
    <2>1. ASSUME home = {} PROVE FALSE
      <3> DEFINE g == <<"caller", None>>
      <3>1. g \in gaps'
        BY <1>1, <2>1
      <3>2. g[1] = "caller"
        OBVIOUS
      <3> HIDE DEF g
      <3> QED BY <1>2, <3>1, <3>2
    <2> QED BY <2>1
  <1>4. home \union RecordedRepositories \subseteq world.formats
    <2>1. ASSUME NEW r \in (home \union RecordedRepositories) \ world.formats PROVE FALSE
      <3> DEFINE g == <<"format", r>>
      <3>1. g \in FormatGaps(home \union RecordedRepositories) /\ g[1] = "format"
        BY <2>1 DEF FormatGaps
      <3> HIDE DEF g, home
      <3>2. g \in gaps'
        BY <1>1, <3>1
      <3> QED BY <1>2, <3>1, <3>2
    <2> QED BY <2>1
  <1>5. typed = world.recorded
    BY <1>4 DEF RecordedRepositories
  <1>6. ASSUME NEW c \in world.recorded PROVE c.compatible /\ Peeled(c)
    <2>1. ASSUME ~c.compatible PROVE FALSE
      <3> DEFINE g == <<"incompatible", c.def>>
      <3>1. g \in {<<"incompatible", k.def>> : k \in {k \in typed : ~k.compatible}} /\ g[1] = "incompatible"
        BY <1>5, <1>6, <2>1
      <3> HIDE DEF g, home, typed
      <3>2. g \in gaps'
        BY <1>1, <3>1
      <3> QED BY <1>2, <3>1, <3>2
    <2>2. ASSUME ~Peeled(c) PROVE FALSE
      <3> DEFINE g == <<"unpeeled", c.def>>
      <3>1. g \in {<<"unpeeled", k.def>> : k \in {k \in typed : ~Peeled(k)}} /\ g[1] = "unpeeled"
        BY <1>5, <1>6, <2>2
      <3> HIDE DEF g, home, typed
      <3>2. g \in gaps'
        BY <1>1, <3>1
      <3> QED BY <1>2, <3>1, <3>2
    <2> QED BY <2>1, <2>2
  <1>7. caller' = world.ran
    BY <1>1, <1>3, <1>4 DEF Candidate, Consistent
  <1>8. called' = {record(c) : c \in world.recorded}
    BY <1>1, <1>5, <1>6
  <1>9. \A c \in world.recorded :
          record(c).key = c.key /\ record(c).def = c.def /\ record(c).compatible = c.compatible
    OBVIOUS
  <1> HIDE DEF record
  <1>10. \A c \in called' : c.compatible /\ \E made \in world.recorded : made.key = c.key /\ made.def = c.def
    BY <1>6, <1>8, <1>9
  <1>11. \A made \in world.recorded : \E c \in called' : c.key = made.key /\ c.def = made.def
    BY <1>8, <1>9
  <1> QED BY <1>7, <1>10, <1>11 DEF CallsAreKnown

LEMMA BindWorkflowsGaps ==
  ASSUME BindWorkflows PROVE gaps \subseteq gaps' /\ bound' = TRUE
  BY DEF BindWorkflows

\* The attempt's log is evidence: the workflows are looked up
\* (prepareLifecycleBindings).
LEMMA BindKeepsEvidence ==
  ASSUME EvidenceInv, Bind PROVE EvidenceInv'
  <1>1. /\ stage = "bind" /\ stage' = "setup" /\ BindWorkflows
        /\ UNCHANGED <<logs, world, setup, results, edges>>
    BY DEF Bind
  <1>2. gaps \subseteq gaps' /\ bound' = TRUE
    BY <1>1, BindWorkflowsGaps
  <1>3. Consistent(world)
    BY <1>1 DEF EvidenceInv, WorldSound
  <1>4. WorldSound' /\ AttemptLogTold' /\ InTime'
    BY <1>1, <1>2, <1>3 DEF EvidenceInv, WorldSound, AttemptLogTold, InTime
  <1>5. SetupSound'
    BY <1>1, <1>2, SetupKept
  <1>6. CallsSound'
    BY <1>1, <1>3, BindWorkflowsKnows DEF CallsSound
  <1>7. EdgesSound'
    BY <1>1, EdgesKept
  <1>8. ResultsSound' /\ WorkflowsSound' /\ DefinitionSilence'
    BY <1>1 DEF ResultsSound, WorkflowsSound, DefinitionSilence, Silent
  <1> QED BY <1>4, <1>5, <1>6, <1>7, <1>8 DEF EvidenceInv

\* The setup entries are read: without a gap, every one of them and to its end
\* (addSetupResolutions).
LEMMA ReadSetupKeepsEvidence ==
  ASSUME EvidenceInv, ReadSetup PROVE EvidenceInv'
  <1> DEFINE shown == UNION {Observed(j) : j \in Job}
             repositories == {RepositoryOf[o[2][1]] : o \in shown}
             unread == world.started \intersect (world.absent \union world.partial)
  <1>1. /\ stage = "setup" /\ stage' = "prepare"
        /\ setup' = [j \in Job |-> {o \in Observed(j) : RepositoryOf[o[2][1]] \in world.formats}]
        /\ gaps' = gaps \union FormatGaps(repositories) \union {<<"setup", j>> : j \in unread}
        /\ UNCHANGED <<logs, world, caller, called, bound, results, edges>>
    BY DEF ReadSetup
  <1>2. Consistent(world) /\ edges = {} /\ gaps \subseteq gaps'
    BY <1>1 DEF EvidenceInv, WorldSound, InTime
  <1>3. WorldSound' /\ AttemptLogTold' /\ InTime'
    BY <1>1, <1>2 DEF EvidenceInv, WorldSound, AttemptLogTold, InTime
  <1>4. ASSUME NEW j \in Job PROVE setup'[j] \subseteq Observed(j)'
    BY <1>1, WorldFrame
  <1>5. ASSUME Quiet', NEW j \in world'.started PROVE SetupIsWhole(j)'
    <2>1. \A g \in gaps' : g[1] = "log"
      BY <1>5 DEF Quiet
    <2>2. repositories \subseteq world.formats
      <3>1. ASSUME NEW r \in repositories \ world.formats PROVE FALSE
        <4> DEFINE g == <<"format", r>>
        <4>1. g \in FormatGaps(repositories) /\ g[1] = "format"
          BY <3>1 DEF FormatGaps
        <4> HIDE DEF g, repositories
        <4> QED BY <1>1, <2>1, <4>1
      <3> QED BY <3>1
    <2>3. j \notin unread
      <3>1. ASSUME j \in unread PROVE FALSE
        <4> DEFINE g == <<"setup", j>>
        <4>1. g \in {<<"setup", k>> : k \in unread} /\ g[1] = "setup"
          BY <3>1
        <4> HIDE DEF g, repositories, unread
        <4> QED BY <1>1, <2>1, <4>1
      <3> QED BY <3>1
    <2>4. j \in Job
      BY <1>1, <1>2, <1>5 DEF Consistent
    <2>5. \A o \in Observed(j) : RepositoryOf[o[2][1]] \in world.formats
      BY <2>2, <2>4
    <2>6. setup'[j] = Observed(j)
      BY <1>1, <2>4, <2>5
    <2> QED BY <1>1, <1>5, <2>3, <2>6, WorldFrame DEF SetupIsWhole
  <1>6. SetupSound'
    BY <1>4, <1>5 DEF SetupSound
  <1>7. CallsSound'
    BY <1>1, <1>2, CallsKept
  <1>8. EdgesSound'
    BY <1>1, <1>2 DEF EdgesSound
  <1>9. ResultsSound' /\ WorkflowsSound' /\ DefinitionSilence'
    BY <1>1 DEF ResultsSound, WorkflowsSound, DefinitionSilence, Silent
  <1> QED BY <1>3, <1>6, <1>7, <1>8, <1>9 DEF EvidenceInv

\* The Actions that a setup entry shows are resolved (historicalAttempt.resolve).
LEMMA PrepareKeepsEvidence ==
  ASSUME EvidenceInv, Prepare PROVE EvidenceInv'
  <1>1. /\ stage = "prepare" /\ stage' = "actions"
        /\ IF bound THEN UNCHANGED <<formats, caller, called, bound, gaps>> ELSE BindWorkflows
        /\ results' = ActionRoots
        /\ UNCHANGED <<logs, world, setup, edges>>
    BY DEF Prepare
  <1>2. gaps \subseteq gaps' /\ bound'
    BY <1>1, BindWorkflowsGaps
  <1>3. bound' \in BOOLEAN
    BY <1>1, BindWorkflowsGaps DEF EvidenceInv, InTime
  <1>4. Consistent(world)
    BY <1>1 DEF EvidenceInv, WorldSound
  <1>5. WorldSound' /\ AttemptLogTold' /\ InTime'
    BY <1>1, <1>2, <1>3, <1>4 DEF EvidenceInv, WorldSound, AttemptLogTold, InTime
  <1>6. SetupSound'
    BY <1>1, <1>2, SetupKept
  <1>7. CallsSound'
    <2>1. CASE bound
      BY <1>1, <1>2, <2>1, CallsKept
    <2>2. CASE ~bound
      BY <1>1, <1>4, <2>2, BindWorkflowsKnows DEF CallsSound
    <2> QED BY <2>1, <2>2
  <1>8. EdgesSound'
    BY <1>1, EdgesKept
  <1>9. ResultsSound'
    <2>1. ASSUME NEW r \in ActionRoots
          PROVE  r = [scope |-> r.scope, result |-> r.result] /\ r.result.edges = {}
      <3>1. PICK j \in Job : \E b \in setup[j] :
              r = [scope |-> j, result |-> Root("action", b[2], Known(j))]
        BY DEF ActionRoots
      <3>2. PICK b \in setup[j] : r = [scope |-> j, result |-> Root("action", b[2], Known(j))]
        BY <3>1
      <3> DEFINE root == Root("action", b[2], Known(j))
      <3>3. root.edges = {}
        BY RootComplete
      <3> HIDE DEF root
      <3> QED BY <3>2, <3>3 DEF root
    <2> QED BY <1>1, <2>1 DEF ResultsSound
  <1>10. WorkflowsSound' /\ DefinitionSilence'
    BY <1>1 DEF WorkflowsSound, DefinitionSilence, Silent
  <1> QED BY <1>5, <1>6, <1>7, <1>8, <1>9, <1>10 DEF EvidenceInv

\* The definitions that are reached next are followed: a resolution stays as
\* complete as it was.
LEMMA FollowDefinitionsKeepsEvidence ==
  ASSUME EvidenceInv, FollowDefinitions PROVE EvidenceInv'
  <1> DEFINE next(r) == Advance(r.result, Known(r.scope))
             step(r) == [scope |-> r.scope, result |-> next(r)]
  <1>1. /\ stage \in {"actions", "workflows"}
        /\ results' = {[r EXCEPT !.result = Advance(@, Known(r.scope))] : r \in results}
        /\ UNCHANGED <<stage, logs, world, setup, formats, caller, called, bound, nodes, edges, gaps>>
    BY DEF FollowDefinitions
  <1>2. ASSUME NEW r \in results
        PROVE  [r EXCEPT !.result = Advance(@, Known(r.scope))] = step(r)
    <2>1. r = [scope |-> r.scope, result |-> r.result]
      BY <1>1 DEF EvidenceInv, ResultsSound
    <2> HIDE DEF next
    <2>2. [r EXCEPT !.result = next(r)] = step(r)
      BY <2>1
    <2> QED BY <2>2 DEF next
  <1>3. results' = {step(r) : r \in results}
    BY <1>1, <1>2
  <1>4. \A r \in results : step(r).scope = r.scope /\ step(r).result = next(r)
    OBVIOUS
  <1>5. WorldSound' /\ AttemptLogTold' /\ InTime'
    BY <1>1 DEF EvidenceInv, WorldSound, AttemptLogTold, InTime
  <1>6. SetupSound' /\ CallsSound' /\ EdgesSound'
    BY <1>1, SetupKept, CallsKept, EdgesKept
  <1>7. ResultsSound'
    <2>1. ASSUME NEW r \in results
          PROVE  \A e \in next(r).edges : Bindable(Lookup(Bindings(r.scope)), e)
      <3>1. \A e \in r.result.edges : Bindable(Known(r.scope).actions, e)
        BY <1>1, KnownActions DEF EvidenceInv, ResultsSound
      <3> QED BY <3>1, AdvanceBinds, KnownActions
    <2>2. ASSUME NEW r \in results
          PROVE  \A e \in next(r).edges : Bindable(Lookup(Bindings(r.scope)'), e)
      BY <1>1, <2>1, BindingsFrame
    <2> HIDE DEF next
    <2>3. ASSUME NEW s \in results'
          PROVE  /\ s = [scope |-> s.scope, result |-> s.result]
                 /\ \A e \in s.result.edges : Bindable(Lookup(Bindings(s.scope)'), e)
      <3>1. PICK r \in results : s = step(r)
        BY <1>3
      <3>2. s.scope = r.scope /\ s.result = next(r)
        BY <3>1
      <3> QED BY <2>2, <3>1, <3>2
    <2> QED BY <2>3 DEF ResultsSound
  <1>8. WorkflowsSound'
    <2> SUFFICES ASSUME stage = "workflows"
                 PROVE  /\ \A s \in results' :
                             s.scope = AttemptLog /\ Complete(s.result, Known(AttemptLog)')
                        /\ caller # None => \E s \in results' : FindsCaller(s.result)
      BY <1>1 DEF WorkflowsSound, FindsCaller
    <2>1. Known(AttemptLog)' = Known(AttemptLog)
      BY <1>1, KnownFrame
    <2>2. ASSUME NEW r \in results
          PROVE  r.scope = AttemptLog /\ Complete(next(r), Known(AttemptLog))
      BY AdvanceComplete DEF EvidenceInv, WorkflowsSound
    <2>3. ASSUME NEW r \in results, FindsCaller(r.result) PROVE FindsCaller(next(r))
      <3>1. ASSUME Clean(next(r)) PROVE <<"workflow", caller>> \in next(r).nodes
        <4>1. Clean(r.result)
          BY <3>1, AdvanceClean
        <4> QED BY <2>3, <4>1, AdvanceFields DEF FindsCaller
      <3> QED BY <3>1 DEF FindsCaller
    <2> HIDE DEF next, step
    <2>4. \A s \in results' : s.scope = AttemptLog /\ Complete(s.result, Known(AttemptLog)')
      BY <1>3, <1>4, <2>1, <2>2
    <2>5. ASSUME caller # None PROVE \E s \in results' : FindsCaller(s.result)
      <3>1. PICK r \in results : FindsCaller(r.result)
        BY <2>5 DEF EvidenceInv, WorkflowsSound
      <3>2. step(r) \in results' /\ step(r).result = next(r)
        BY <1>3, <1>4
      <3>3. FindsCaller(step(r).result)
        BY <2>3, <3>1, <3>2
      <3> QED BY <3>2, <3>3
    <2> QED BY <2>4, <2>5
  <1>9. DefinitionSilence'
    BY <1>1 DEF DefinitionSilence, Silent
  <1> QED BY <1>5, <1>6, <1>7, <1>8, <1>9 DEF EvidenceInv

\* The edges that are persisted are those that were found (persistResolutionEdge).
LEMMA PersistedEdgesSound ==
  ASSUME EvidenceInv, stage \in {"actions", "workflows"}, UNCHANGED setup,
         edges' = edges \union UNION {Recorded(r) : r \in results}
  PROVE  EdgesSound'
  <1>1. ASSUME NEW e \in edges PROVE Bindable(Lookup(Bindings(e.scope)), e.edge)
    BY <1>1 DEF EvidenceInv, EdgesSound
  <1>2. ASSUME NEW r \in results, NEW e \in Recorded(r)
        PROVE  Bindable(Lookup(Bindings(e.scope)), e.edge)
    <2>1. e.scope = r.scope /\ e.edge \in r.result.edges
      BY <1>2 DEF Recorded
    <2>2. \A f \in r.result.edges : Bindable(Lookup(Bindings(r.scope)), f)
      BY DEF EvidenceInv, ResultsSound
    <2> QED BY <2>1, <2>2
  <1>3. ASSUME NEW e \in edges' PROVE Bindable(Lookup(Bindings(e.scope)), e.edge)
    BY <1>1, <1>2
  <1>4. ASSUME NEW e \in edges' PROVE Bindable(Lookup(Bindings(e.scope)'), e.edge)
    BY <1>3, BindingsFrame
  <1> QED BY <1>4 DEF EdgesSound

\* A failed persistence ends the collection, and a successful one leaves what is
\* known alone.
LEMMA PersistCases ==
  ASSUME EvidenceInv, stage \in {"actions", "workflows"},
         NEW CONSTANT next, NEW roots, Persist(next, roots)
  PROVE  \/ EvidenceInv'
         \/ /\ \A r \in results : r.result.visits = {}
            /\ stage' = next /\ results' = roots
            /\ nodes' = nodes \union UNION {r.result.nodes : r \in results}
            /\ edges' = edges \union UNION {Recorded(r) : r \in results}
            /\ gaps' = gaps \union UNION {ResolutionGaps(r.result) : r \in results}
            /\ UNCHANGED <<logs, world, setup, formats, caller, called, bound>>
  <1>1. CASE \A r \in results : Persistable(r.result)
    BY <1>1 DEF Persist
  <1>2. CASE ~\A r \in results : Persistable(r.result)
    <2>1. stage' = "failed" /\ UNCHANGED <<logs, world, evidence>>
      BY <1>2 DEF Persist, evidence
    <2> QED BY <2>1, FrameKeepsEvidence
  <1> QED BY <1>1, <1>2

\* The workflows are resolved after the Actions (resolveWorkflows).
LEMMA PersistActionsKeepsEvidence ==
  ASSUME EvidenceInv, PersistActions PROVE EvidenceInv'
  <1>1. stage = "actions" /\ Persist("workflows", WorkflowRoots)
    BY DEF PersistActions
  <1> SUFFICES ASSUME stage' = "workflows", results' = WorkflowRoots,
                      edges' = edges \union UNION {Recorded(r) : r \in results},
                      gaps' = gaps \union UNION {ResolutionGaps(r.result) : r \in results},
                      UNCHANGED <<logs, world, setup, formats, caller, called, bound>>
               PROVE  EvidenceInv'
    BY <1>1, PersistCases
  <1>2. gaps \subseteq gaps'
    OBVIOUS
  <1>3. WorldSound' /\ AttemptLogTold' /\ InTime'
    BY <1>1 DEF EvidenceInv, WorldSound, AttemptLogTold, InTime
  <1>4. SetupSound' /\ CallsSound'
    BY <1>1, <1>2, SetupKept, CallsKept
  <1>5. EdgesSound'
    BY <1>1, PersistedEdgesSound
  <1> DEFINE in == Known(AttemptLog)
             defs == (IF caller = None THEN {} ELSE {caller}) \union {c.def : c \in called}
             root(d) == Root("workflow", d, in)
             start(d) == [scope |-> AttemptLog, result |-> root(d)]
  <1>6. results' = {start(d) : d \in defs}
    BY DEF WorkflowRoots
  <1>7. \A d : start(d).scope = AttemptLog /\ start(d).result = root(d)
    OBVIOUS
  <1>8. ASSUME NEW d
        PROVE  /\ root(d).edges = {} /\ Complete(root(d), in)
               /\ Clean(root(d)) => <<"workflow", d>> \in root(d).nodes
    BY RootComplete
  <1>9. in' = in
    BY KnownFrame
  <1> HIDE DEF root
  <1>10. ResultsSound'
    <2>1. ASSUME NEW s \in results'
          PROVE  s = [scope |-> s.scope, result |-> s.result] /\ s.result.edges = {}
      <3>1. PICK d \in defs : s = start(d)
        BY <1>6
      <3>2. s.result = root(d)
        BY <1>7, <3>1
      <3> QED BY <1>8, <3>1, <3>2
    <2> QED BY <2>1 DEF ResultsSound
  <1> HIDE DEF start, in
  <1>11. WorkflowsSound'
    <2> SUFFICES /\ \A s \in results' : s.scope = AttemptLog /\ Complete(s.result, in')
                 /\ caller # None => \E s \in results' : FindsCaller(s.result)
      BY DEF WorkflowsSound, FindsCaller, in
    <2>1. ASSUME NEW s \in results' PROVE s.scope = AttemptLog /\ Complete(s.result, in')
      BY <1>6, <1>7, <1>8, <1>9
    <2>2. ASSUME caller # None PROVE \E s \in results' : FindsCaller(s.result)
      <3>1. start(caller) \in results'
        BY <1>6, <2>2
      <3>2. start(caller).result = root(caller)
        BY <1>7
      <3>3. FindsCaller(start(caller).result)
        BY <1>8, <3>2 DEF FindsCaller
      <3> QED BY <3>1, <3>3
    <2> QED BY <2>1, <2>2
  <1>12. DefinitionSilence'
    BY DEF DefinitionSilence, Silent
  <1> QED BY <1>3, <1>4, <1>5, <1>10, <1>11, <1>12 DEF EvidenceInv

\* The last persistence: without a gap, every resolution of a workflow is over
\* and whole, that of the caller too.
LEMMA PersistWorkflowsKeepsEvidence ==
  ASSUME EvidenceInv, PersistWorkflows PROVE EvidenceInv'
  <1>1. stage = "workflows" /\ Persist("done", {})
    BY DEF PersistWorkflows
  <1> SUFFICES ASSUME \A r \in results : r.result.visits = {},
                      stage' = "done", results' = {},
                      nodes' = nodes \union UNION {r.result.nodes : r \in results},
                      edges' = edges \union UNION {Recorded(r) : r \in results},
                      gaps' = gaps \union UNION {ResolutionGaps(r.result) : r \in results},
                      UNCHANGED <<logs, world, setup, formats, caller, called, bound>>
               PROVE  EvidenceInv'
    BY <1>1, PersistCases
  <1>2. gaps \subseteq gaps'
    OBVIOUS
  <1>3. WorldSound' /\ AttemptLogTold' /\ InTime'
    BY <1>1 DEF EvidenceInv, WorldSound, AttemptLogTold, InTime
  <1>4. SetupSound' /\ CallsSound'
    BY <1>1, <1>2, SetupKept, CallsKept
  <1>5. EdgesSound'
    BY <1>1, PersistedEdgesSound
  <1>6. ResultsSound' /\ WorkflowsSound'
    BY DEF ResultsSound, WorkflowsSound
  <1>7. DefinitionSilence'
    <2> SUFFICES ASSUME Quiet', NEW j \in world.started, NEW d \in Used(j)
                 PROVE  d # None /\ \E n \in nodes' : n[2] = d
      BY WorldFrame DEF DefinitionSilence, Silent, Quiet
    <2>1. Quiet
      BY <1>2, QuietBefore
    <2>2. Consistent(world) /\ bound
      BY <1>1 DEF EvidenceInv, WorldSound, InTime
    <2>3. SetupIsWhole(j) /\ CallsAreKnown
      BY <1>1, <2>1, <2>2 DEF EvidenceInv, SetupSound, CallsSound
    <2>4. caller # None
      BY <2>2, <2>3 DEF CallsAreKnown, Consistent
    <2>5. PICK r \in results : FindsCaller(r.result)
      BY <1>1, <2>4 DEF EvidenceInv, WorkflowsSound
    <2>6. Complete(r.result, Known(AttemptLog)) /\ r.result.visits = {}
      BY <1>1 DEF EvidenceInv, WorkflowsSound
    <2>7. Clean(r.result)
      <3>1. ASSUME NEW g \in ResolutionGaps(r.result) PROVE FALSE
        <4> DEFINE untold == {e \in r.result.edges :
                       e.gap \notin {"", "HISTORICAL_CONTENT_MISSING", "CONTENT_FETCH_FAILED"}}
        <4>1. \/ \E e \in untold : g = <<"declaration", e.gap>>
              \/ \E code \in r.result.diagnostics : g = <<"content", code>>
          BY DEF ResolutionGaps
        <4>2. g \in gaps'
          OBVIOUS
        <4>3. g[1] = "log"
          BY <4>2 DEF Quiet
        <4>4. CASE \E e \in untold : g = <<"declaration", e.gap>>
          <5>1. PICK e \in untold : g = <<"declaration", e.gap>>
            BY <4>4
          <5>2. g[1] = "declaration"
            BY <5>1
          <5> QED BY <4>3, <5>2
        <4>5. CASE \E code \in r.result.diagnostics : g = <<"content", code>>
          <5>1. PICK code \in r.result.diagnostics : g = <<"content", code>>
            BY <4>5
          <5>2. g[1] = "content"
            BY <5>1
          <5> QED BY <4>3, <5>2
        <4> QED BY <4>1, <4>4, <4>5
      <3> QED BY <3>1 DEF Clean
    <2>8. d # None /\ \E n \in r.result.nodes : n[2] = d
      BY <2>2, <2>3, <2>5, <2>6, <2>7, ResolutionCovers
    <2> QED BY <2>8
  <1> QED BY <1>3, <1>4, <1>5, <1>6, <1>7 DEF EvidenceInv

LEMMA EvidenceNextKeepsInv ==
  ASSUME EvidenceInv, [EvidenceNext]_evidenceVars PROVE EvidenceInv'
  <1>1. CASE StepDownload
    BY <1>1, FrameKeepsEvidence DEF StepDownload
  <1>2. CASE KeepLog
    BY <1>2, KeepLogKeepsEvidence
  <1>3. CASE LoseLog
    BY <1>3, LoseLogKeepsEvidence
  <1>4. CASE Happened
    BY <1>4, HappenedKeepsEvidence
  <1>5. CASE Told
    BY <1>5, ToldKeepsEvidence
  <1>6. CASE Bind
    BY <1>6, BindKeepsEvidence
  <1>7. CASE ReadSetup
    BY <1>7, ReadSetupKeepsEvidence
  <1>8. CASE Prepare
    BY <1>8, PrepareKeepsEvidence
  <1>9. CASE FollowDefinitions
    BY <1>9, FollowDefinitionsKeepsEvidence
  <1>10. CASE PersistActions
    BY <1>10, PersistActionsKeepsEvidence
  <1>11. CASE PersistWorkflows
    BY <1>11, PersistWorkflowsKeepsEvidence
  <1>12. CASE Abort
    BY <1>12, FrameKeepsEvidence DEF Abort
  <1>13. CASE CancelAttempt
    BY <1>13, FrameKeepsEvidence DEF CancelAttempt
  <1>14. CASE UNCHANGED evidenceVars
    BY <1>14, FrameKeepsEvidence DEF evidenceVars
  <1> QED BY <1>1, <1>2, <1>3, <1>4, <1>5, <1>6, <1>7, <1>8, <1>9, <1>10, <1>11, <1>12, <1>13, <1>14
          DEF EvidenceNext, Collect

\* All along the collection of an attempt what is bound is what runners took,
\* and a resolution without a gap has lost no declaration (historicalAttempt).
THEOREM EvidenceInvariance == EvidenceSpec => []EvidenceInv
  <1>1. EvidenceInit => EvidenceInv
    BY EvidenceInitSound
  <1>2. EvidenceInv /\ [EvidenceNext]_evidenceVars => EvidenceInv'
    BY EvidenceNextKeepsInv
  <1> QED BY <1>1, <1>2, PTL DEF EvidenceSpec

\* Without a gap nothing that a job used is missing, whatever the logs, the
\* workflows, the Actions and the order of their resolution (collectAttempt,
\* historicalAttempt.resolve).
THEOREM DefinitionSilenceTheorem == EvidenceSpec => []DefinitionSilence
  <1>1. EvidenceInv => DefinitionSilence
    BY DEF EvidenceInv
  <1> QED BY <1>1, EvidenceInvariance, PTL

\* What the invariant says of an edge that is bound to what a runner took.
LEMMA EdgeIsTaken ==
  ASSUME EvidenceInv PROVE BoundToItsJob
  <1> SUFFICES ASSUME NEW e \in edges, e.edge.bound, e.edge.use.kind = "repository"
               PROVE  LET key == BindingKey(e.edge.use) IN
                      IF e.scope \in Job THEN e.edge.to = world.resolved[e.scope][key]
                      ELSE Silent => \A j \in world.started :
                             (\E r \in Ran(j) : r[1].kind = "repository" /\ BindingKey(r[1]) = key)
                               => e.edge.to = world.resolved[j][key]
    BY DEF BoundToItsJob
  <1> DEFINE key == BindingKey(e.edge.use)
             pairs == Bindings(e.scope)
  <1>1. {p[2] : p \in {q \in pairs : q[1] = key}} = {e.edge.to}
    BY LookupBound DEF EvidenceInv, EdgesSound, Bindable
  <1> HIDE DEF key
  <1>2. CASE e.scope \in Job
    <2>1. PICK p \in pairs : p[1] = key /\ p[2] = e.edge.to
      BY <1>1
    <2>2. p \in Observed(e.scope)
      BY <1>2, <2>1 DEF Bindings, EvidenceInv, SetupSound
    <2>3. e.edge.to = world.resolved[e.scope][key]
      BY <2>1, <2>2, ObservedIsTaken
    <2> QED BY <1>2, <2>3 DEF key
  <1>3. CASE e.scope \notin Job
    <2>1. ASSUME Silent, NEW j \in world.started, NEW r \in Ran(j),
                 r[1].kind = "repository", BindingKey(r[1]) = key
          PROVE  e.edge.to = world.resolved[j][key]
      <3> DEFINE o == <<BindingKey(r[1]), r[2]>>
      <3>1. stage = "done" /\ Quiet
        BY <2>1 DEF Silent, Quiet
      <3>2. Consistent(world) /\ SetupIsWhole(j)
        BY <3>1 DEF EvidenceInv, WorldSound, SetupSound
      <3>3. o \in Observed(j) /\ o[1] = key
        BY <2>1, <3>2, EntryShowsAll DEF SetupIsWhole
      <3> HIDE DEF o
      <3>4. o[2] = world.resolved[j][key]
        BY <3>3, ObservedIsTaken
      <3>5. j \in Job
        BY <3>2 DEF Consistent
      <3>6. o \in pairs
        BY <1>3, <3>2, <3>3, <3>5 DEF Bindings, AllBindings, SetupIsWhole
      <3>7. o[2] \in {e.edge.to}
        BY <1>1, <3>3, <3>6
      <3> QED BY <3>4, <3>7
    <2> QED BY <1>3, <2>1 DEF key
  <1> QED BY <1>2, <1>3

\* Every persisted edge that is bound says what the runner took
\* (persistResolutionEdge, ResolutionInputs).
THEOREM BoundToItsJobTheorem == EvidenceSpec => []BoundToItsJob
  <1>1. EvidenceInv => BoundToItsJob
    BY EdgeIsTaken
  <1> QED BY <1>1, EvidenceInvariance, PTL
=============================================================================
