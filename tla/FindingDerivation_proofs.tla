---------------------- MODULE FindingDerivation_proofs ----------------------
(***************************************************************************)
(* Proofs about FindingDerivation: what one candidate may be concluded to   *)
(* be, what the merge of two findings may do, what follows for the findings *)
(* of all facts in any order, and so for every replay of every archive.     *)
(***************************************************************************)
EXTENDS FindingDerivation, FiniteSetTheorems, WellFoundedInduction, TLAPS

\* match.Derive always gives a canonical state.
THEOREM DeriveTotal == \A c : Derive(c) \in States
BY DEF Derive, States, Positive

\* A clean conclusion of match.Derive rests on closed coverage without a material
\* gap or contradiction, and never on an affected identity that was announced,
\* prepared or started.
THEOREM NegativeIsClosed ==
  ASSUME NEW c, Derive(c) = "NO_MATCH_CONFIRMED"
  PROVE  /\ "closed" \in c /\ "gap" \notin c /\ "contradiction" \notin c
         /\ "exact runtime" \in c /\ "known good" \notin c =>
              c \cap {"announced only", "prepared", "started"} = {}
BY DEF Derive

\* match.Derive confirms nothing without the exact runtime identity, or GitHub's
\* own record of the called workflow, and confirms no known-good identity.
THEOREM ConfirmedIsExact ==
  ASSUME NEW c
  PROVE  /\ Derive(c) = "CONFIRMED_EXECUTED" =>
              {"exact runtime", "started"} \subseteq c /\ "known good" \notin c
         /\ Derive(c) = "CONFIRMED_DOWNLOADED" =>
              /\ {"exact runtime", "prepared"} \subseteq c
              /\ "started" \notin c /\ "known good" \notin c
         /\ Derive(c) = "CONFIRMED_CALLED_WORKFLOW" => "called workflow" \in c
BY DEF Derive

\* An affected observation that is not known-good, once it is considered, is
\* reported as what the log proves, whatever else the archive holds: missing
\* evidence does not weaken it, only a contradiction takes its place.
THEOREM AffectedDerivation ==
  ASSUME NEW F, NEW obs, ~runtimeKnownGood(obs)
  PROVE  /\ obs.stage = Started =>
              Derive(ActionCandidate(F, obs)) \in {"CONFIRMED_EXECUTED", "CONTRADICTORY_EVIDENCE"}
         /\ obs.stage = Prepared =>
              Derive(ActionCandidate(F, obs)) \in {"CONFIRMED_DOWNLOADED", "CONTRADICTORY_EVIDENCE"}
BY DEF ActionCandidate, RuntimeFlags, Flag, Derive, Started, Prepared

\* The ranks, state by state.
LEMMA Ranks ==
  /\ findingStateRank["CONTRADICTORY_EVIDENCE"] = 100
  /\ findingStateRank["CONFIRMED_EXECUTED"] = 90
  /\ findingStateRank["CONFIRMED_DOWNLOADED"] = 80
  /\ findingStateRank["CONFIRMED_CALLED_WORKFLOW"] = 80
  /\ findingStateRank["DECLARED_AT_RUN_SHA"] = 70
  /\ findingStateRank["RUN_IN_WINDOW_MUTABLE_REF"] = 60
  /\ findingStateRank["POTENTIAL_TRANSITIVE"] = 50
  /\ findingStateRank["CURRENT_REFERENCE_ONLY"] = 40
  /\ findingStateRank["UNKNOWN_EVIDENCE_GAP"] = 30
  /\ findingStateRank["NO_MATCH_CONFIRMED"] = 20
BY DEF findingStateRank

\* mergeFindingRevisions never lowers either finding's rank, and only a
\* disagreement produces a state that neither finding had.
THEOREM MergeClimbs ==
  ASSUME NEW left \in States, NEW right \in States
  PROVE  LET merged == mergeFindingRevisions(left, right)
         IN  /\ merged \in States
             /\ findingStateRank[merged] >= findingStateRank[left]
             /\ findingStateRank[merged] >= findingStateRank[right]
             /\ merged \in {left, right, "CONTRADICTORY_EVIDENCE"}
BY Ranks DEF mergeFindingRevisions, States, Positive

\* A finding never becomes clean by a merge, and a positive one stays positive or
\* becomes contradictory.
THEOREM MergeNeverClears ==
  ASSUME NEW left \in States, NEW right \in States
  PROVE  /\ mergeFindingRevisions(left, right) = "NO_MATCH_CONFIRMED" =>
              left = "NO_MATCH_CONFIRMED" /\ right = "NO_MATCH_CONFIRMED"
         /\ left \in Positive \/ right \in Positive =>
              mergeFindingRevisions(left, right) \in Positive \cup {"CONTRADICTORY_EVIDENCE"}
BY Ranks DEF mergeFindingRevisions, States, Positive

\* Two findings may be merged in either order, except that a confirmed download
\* and a confirmed workflow call have the same rank and the first one stays; the
\* first is about a job and the second about an attempt, so they never meet.
THEOREM MergeCommutes ==
  ASSUME NEW left \in States, NEW right \in States,
         {left, right} # {"CONFIRMED_DOWNLOADED", "CONFIRMED_CALLED_WORKFLOW"}
  PROVE  mergeFindingRevisions(left, right) = mergeFindingRevisions(right, left)
BY Ranks DEF mergeFindingRevisions, States, Positive

-----------------------------------------------------------------------------
(* Induction over the facts of an order.                                   *)

LEMMA LessThan ==
  ASSUME NEW m \in Nat, NEW n \in Nat, m < n PROVE <<m, n>> \in OpToRel(<, Nat)
  BY DEF OpToRel

\* A property of some natural number is one of a least number.
LEMMA LeastNumber ==
  ASSUME NEW S, S \subseteq Nat, S # {}
  PROVE  \E n \in S : \A m \in S : n <= m
  <1>1. IsWellFoundedOn(OpToRel(<, Nat), Nat)
    BY NatLessThanWellFounded
  <1>2. PICK n \in S : \A m \in S : <<m, n>> \notin OpToRel(<, Nat)
    BY <1>1, WFMin
  <1>3. \A m \in S : ~(m < n)
    BY <1>2, LessThan
  <1> QED BY <1>3

\* Induction over the steps of a list, for the set of the steps that are good.
LEMMA StepByStep ==
  ASSUME NEW L \in Nat, NEW Good, 0 \in Good, \A n \in 1 .. L : n - 1 \in Good => n \in Good
  PROVE  L \in Good
  <1> DEFINE Bad == {n \in 0 .. L : n \notin Good}
  <1> SUFFICES ASSUME L \notin Good PROVE FALSE
    OBVIOUS
  <1>1. Bad \subseteq Nat /\ Bad # {}
    OBVIOUS
  <1> HIDE DEF Bad
  <1>2. PICK n \in Bad : \A k \in Bad : n <= k
    BY <1>1, LeastNumber
  <1>3. n \in 1 .. L /\ n \notin Good
    BY <1>2 DEF Bad
  <1>4. n - 1 \notin Good
    BY <1>3
  <1>5. n - 1 \in Bad
    BY <1>3, <1>4 DEF Bad
  <1>6. n \in Int /\ ~(n <= n - 1)
    BY <1>3
  <1> QED BY <1>2, <1>5, <1>6

\* The findings after each of the facts.
FoundSoFar(found, F, order, ind) ==
  /\ found[0] = <<>>
  /\ \A n \in 1 .. Len(order) :
       found[n] = coalesceIndicatorFindings(found[n - 1], FindingOf(F, ind, order[n]))
  /\ ExactFindings(F, order, ind) = found[Len(order)]

\* The fold over the facts exists: step by step the findings so far.
LEMMA FoldOfFacts ==
  ASSUME NEW F, NEW order, Len(order) \in Nat, NEW ind
  PROVE  \E found : FoundSoFar(found, F, order, ind)
  <1> DEFINE Add(findingsOf, n) == coalesceIndicatorFindings(findingsOf, FindingOf(F, ind, order[n]))
             Folds(g, m) == g = [n \in 0 .. m |-> IF n = 0 THEN <<>> ELSE Add(g[n - 1], n)]
             Good == {m \in Nat : \E g : Folds(g, m)}
  <1>1. ExactFindings(F, order, ind) = (CHOOSE g : Folds(g, Len(order)))[Len(order)]
    BY DEF ExactFindings
  <1> HIDE DEF Add
  <1>2. 0 \in Good
    <2> DEFINE g == [n \in 0 .. 0 |-> <<>>]
    <2>1. Folds(g, 0)
      OBVIOUS
    <2> QED BY <2>1
  <1>3. ASSUME NEW m \in 1 .. Len(order), m - 1 \in Good PROVE m \in Good
    <2>1. m \in Nat /\ m # 0 /\ m - 1 \in Nat
      OBVIOUS
    <2>2. PICK g : Folds(g, m - 1)
      BY <1>3
    <2> DEFINE h == [n \in 0 .. m |-> IF n = m THEN Add(g[m - 1], m) ELSE g[n]]
    <2>3. ASSUME NEW n \in 0 .. m
          PROVE  h[n] = IF n = 0 THEN <<>> ELSE Add(h[n - 1], n)
      <3>1. CASE n = m
        BY <3>1, <2>1
      <3>2. CASE n # m /\ n # 0
        <4>1. n \in 0 .. m - 1 /\ n - 1 \in 0 .. m - 1 /\ n - 1 # m
          BY <3>2, <2>1
        <4>2. g[n] = Add(g[n - 1], n)
          BY <3>2, <4>1, <2>2
        <4> QED BY <3>2, <4>1, <4>2
      <3>3. CASE n # m /\ n = 0
        BY <3>3, <2>1, <2>2
      <3> QED BY <3>1, <3>2, <3>3
    <2>4. Folds(h, m)
      BY <2>3
    <2> QED BY <2>1, <2>4
  <1>4. Len(order) \in Good
    <2> HIDE DEF Good
    <2> QED BY <1>2, <1>3, StepByStep
  <1>5. PICK found : Folds(found, Len(order)) /\ ExactFindings(F, order, ind) = found[Len(order)]
    <2>1. \E g : Folds(g, Len(order))
      BY <1>4
    <2> QED BY <1>1, <2>1
  <1>6. found[0] = <<>>
    BY <1>5
  <1>7. \A n \in 1 .. Len(order) : found[n] = Add(found[n - 1], n)
    BY <1>5
  <1> QED BY <1>5, <1>6, <1>7 DEF Add, FoundSoFar

-----------------------------------------------------------------------------
(* What the coalesced findings owe to each finding that went into them.    *)

IsFindings(found) == found \in [DOMAIN found -> States]

\* Each finding of `found' has its subject in `all', with a state that ranks no
\* lower.
Outranked(found, all) ==
  \A s \in DOMAIN found :
    s \in DOMAIN all /\ findingStateRank[found[s]] <= findingStateRank[all[s]]

Concludes(found, s, state) == s \in DOMAIN found /\ found[s] = state

LEMMA RankNat == \A state \in States : findingStateRank[state] \in Nat
  BY Ranks DEF States, Positive

LEMMA OutrankedTransitive ==
  ASSUME NEW a, NEW b, NEW c, IsFindings(a), IsFindings(b), IsFindings(c),
         Outranked(a, b), Outranked(b, c)
  PROVE  Outranked(a, c)
  <1>1. \A f \in {a, b, c} : \A s \in DOMAIN f : findingStateRank[f[s]] \in Nat
    BY RankNat DEF IsFindings
  <1> QED BY <1>1 DEF Outranked

LEMMA CoalesceClimbs ==
  ASSUME NEW earlier, NEW later, IsFindings(earlier), IsFindings(later)
  PROVE  LET all == coalesceIndicatorFindings(earlier, later)
         IN  /\ IsFindings(all) /\ Outranked(earlier, all) /\ Outranked(later, all)
             /\ \A s \in DOMAIN all :
                  \/ all[s] = "CONTRADICTORY_EVIDENCE"
                  \/ Concludes(earlier, s, all[s]) \/ Concludes(later, s, all[s])
  <1> DEFINE all == coalesceIndicatorFindings(earlier, later)
  <1>1. DOMAIN all = DOMAIN earlier \cup DOMAIN later
    BY DEF coalesceIndicatorFindings
  <1>2. ASSUME NEW s \in DOMAIN earlier, s \notin DOMAIN later PROVE all[s] = earlier[s]
    BY <1>2 DEF coalesceIndicatorFindings
  <1>3. ASSUME NEW s \in DOMAIN later, s \notin DOMAIN earlier PROVE all[s] = later[s]
    BY <1>3 DEF coalesceIndicatorFindings
  <1>4. ASSUME NEW s \in DOMAIN later, s \in DOMAIN earlier
        PROVE  all[s] = mergeFindingRevisions(earlier[s], later[s])
    BY <1>4 DEF coalesceIndicatorFindings
  <1>5. all = [s \in DOMAIN all |-> all[s]]
    BY DEF coalesceIndicatorFindings
  <1> HIDE DEF all
  <1>6. /\ \A s \in DOMAIN earlier : earlier[s] \in States /\ findingStateRank[earlier[s]] \in Nat
        /\ \A s \in DOMAIN later : later[s] \in States /\ findingStateRank[later[s]] \in Nat
    BY RankNat DEF IsFindings
  <1>7. ASSUME NEW s \in DOMAIN all
        PROVE  /\ all[s] \in States
               /\ s \in DOMAIN earlier => findingStateRank[earlier[s]] <= findingStateRank[all[s]]
               /\ s \in DOMAIN later => findingStateRank[later[s]] <= findingStateRank[all[s]]
               /\ \/ all[s] = "CONTRADICTORY_EVIDENCE"
                  \/ Concludes(earlier, s, all[s]) \/ Concludes(later, s, all[s])
    <2>1. CASE s \notin DOMAIN later
      BY <2>1, <1>1, <1>2, <1>6 DEF Concludes
    <2>2. CASE s \notin DOMAIN earlier
      BY <2>2, <1>1, <1>3, <1>6 DEF Concludes
    <2>3. CASE s \in DOMAIN earlier /\ s \in DOMAIN later
      <3>1. /\ all[s] \in States
            /\ findingStateRank[all[s]] >= findingStateRank[earlier[s]]
            /\ findingStateRank[all[s]] >= findingStateRank[later[s]]
            /\ all[s] \in {earlier[s], later[s], "CONTRADICTORY_EVIDENCE"}
        BY <2>3, <1>4, <1>6, MergeClimbs
      <3>2. findingStateRank[all[s]] \in Nat
        BY <3>1, RankNat
      <3> QED BY <2>3, <3>1, <3>2, <1>6 DEF Concludes
    <2> QED BY <2>1, <2>2, <2>3
  <1>8. IsFindings(all)
    BY <1>5, <1>7 DEF IsFindings
  <1>9. Outranked(earlier, all) /\ Outranked(later, all)
    BY <1>1, <1>7 DEF Outranked
  <1> QED BY <1>7, <1>8, <1>9 DEF all

\* However many findings are coalesced, one after the other: each subject that
\* had a finding keeps one that ranks no lower than any, and it is one of them
\* or a contradiction.
LEMMA FoldClimbs ==
  ASSUME NEW L \in Nat, NEW each, NEW found,
         \A n \in 1 .. L : IsFindings(each[n]),
         found[0] = <<>>,
         \A n \in 1 .. L : found[n] = coalesceIndicatorFindings(found[n - 1], each[n])
  PROVE  /\ IsFindings(found[L])
         /\ \A i \in 1 .. L : Outranked(each[i], found[L])
         /\ \A s \in DOMAIN found[L] :
              \/ found[L][s] = "CONTRADICTORY_EVIDENCE"
              \/ \E i \in 1 .. L : Concludes(each[i], s, found[L][s])
  <1> DEFINE Climbs(n) ==
        /\ IsFindings(found[n])
        /\ \A i \in 1 .. n : Outranked(each[i], found[n])
        /\ \A s \in DOMAIN found[n] :
             \/ found[n][s] = "CONTRADICTORY_EVIDENCE"
             \/ \E i \in 1 .. n : Concludes(each[i], s, found[n][s])
      Good == {n \in 0 .. L : Climbs(n)}
  <1>1. Climbs(0)
    BY DEF IsFindings
  <1>2. ASSUME NEW n \in 1 .. L, Climbs(n - 1) PROVE Climbs(n)
    <2>1. /\ n \in Nat /\ n # 0 /\ n - 1 \in Nat
          /\ \A i \in 1 .. n : i = n \/ i \in 1 .. n - 1
          /\ 1 .. n - 1 \subseteq 1 .. n /\ n \in 1 .. n
          /\ 1 .. n \subseteq 1 .. L
      OBVIOUS
    <2>2. IsFindings(each[n]) /\ found[n] = coalesceIndicatorFindings(found[n - 1], each[n])
      OBVIOUS
    <2>3. /\ IsFindings(found[n]) /\ Outranked(found[n - 1], found[n]) /\ Outranked(each[n], found[n])
          /\ \A s \in DOMAIN found[n] :
               \/ found[n][s] = "CONTRADICTORY_EVIDENCE"
               \/ Concludes(found[n - 1], s, found[n][s]) \/ Concludes(each[n], s, found[n][s])
      BY <1>2, <2>2, CoalesceClimbs
    <2>4. \A i \in 1 .. n : Outranked(each[i], found[n])
      <3> SUFFICES ASSUME NEW i \in 1 .. n - 1 PROVE Outranked(each[i], found[n])
        BY <2>1, <2>3
      <3> QED BY <1>2, <2>1, <2>3, OutrankedTransitive
    <2>5. ASSUME NEW s \in DOMAIN found[n], found[n][s] # "CONTRADICTORY_EVIDENCE"
          PROVE  \E i \in 1 .. n : Concludes(each[i], s, found[n][s])
      <3>1. CASE Concludes(each[n], s, found[n][s])
        BY <3>1, <2>1
      <3>2. CASE Concludes(found[n - 1], s, found[n][s])
        <4>1. s \in DOMAIN found[n - 1] /\ found[n - 1][s] = found[n][s]
          BY <3>2 DEF Concludes
        <4>2. PICK i \in 1 .. n - 1 : Concludes(each[i], s, found[n - 1][s])
          BY <4>1, <1>2, <2>5
        <4> QED BY <4>1, <4>2, <2>1
      <3> QED BY <2>3, <2>5, <3>1, <3>2
    <2> QED BY <2>3, <2>4, <2>5
  <1>3. L \in Good
    <2> HIDE DEF Climbs
    <2>1. 0 \in Good
      BY <1>1
    <2>2. ASSUME NEW n \in 1 .. L, n - 1 \in Good PROVE n \in Good
      BY <1>2, <2>2
    <2> HIDE DEF Good
    <2> QED BY <2>1, <2>2, StepByStep
  <1> QED BY <1>3

-----------------------------------------------------------------------------
(* All facts, in any order.                                                *)

\* A list of a finite set has each of its elements.
LEMMA ListOfSet ==
  ASSUME NEW S, IsFiniteSet(S), NEW list \in SetToSeqs(S)
  PROVE  /\ list \in Seq(S)
         /\ \A x \in S : \E i \in 1 .. Len(list) : list[i] = x
  <1> DEFINE D == 1 .. Cardinality(S)
  <1>1. Cardinality(S) \in Nat
    BY FS_CardinalityType
  <1>2. list \in [D -> S] /\ \A i, j \in D : i # j => list[i] # list[j]
    BY DEF SetToSeqs
  <1>3. list \in Injection(D, S)
    BY <1>2 DEF Injection, IsInjective
  <1>4. IsFiniteSet(D) /\ Cardinality(D) = Cardinality(S)
    BY <1>1, FS_Interval
  <1>5. list \in Surjection(D, S)
    BY <1>3, <1>4, FS_Injection
  <1>6. \A x \in S : \E i \in D : list[i] = x
    BY <1>5 DEF Surjection
  <1>7. list \in Seq(S) /\ Len(list) = Cardinality(S)
    BY <1>1, <1>2
  <1> QED BY <1>6, <1>7

References(F) == OfKind(F, "action") \cup OfKind(F, "dependency")

\* An order of the facts lists all of those that findings are drawn from, the
\* observations first.
Parts(F, order, k, m) ==
  /\ Len(order) = k + m
  /\ \A i \in 1 .. k : order[i] \in OfKind(F, "action")
  /\ \A f \in OfKind(F, "action") : \E i \in 1 .. k : order[i] = f
  /\ \A i \in 1 .. m : order[k + i] \in OfKind(F, "dependency")
  /\ \A f \in OfKind(F, "dependency") : \E i \in 1 .. m : order[k + i] = f

LEMMA PartsOfOrder ==
  ASSUME NEW F, IsFiniteSet(F), NEW order \in Orders(F)
  PROVE  \E k \in Nat, m \in Nat : Parts(F, order, k, m)
  <1> DEFINE A == OfKind(F, "action")
             D == OfKind(F, "dependency")
  <1>1. PICK a \in SetToSeqs(A), d \in SetToSeqs(D) : order = a \o d
    BY DEF Orders
  <1>2. IsFiniteSet(A) /\ IsFiniteSet(D)
    BY FS_Subset DEF OfKind
  <1> HIDE DEF A, D
  <1>3. /\ a \in Seq(A) /\ \A x \in A : \E i \in 1 .. Len(a) : a[i] = x
        /\ d \in Seq(D) /\ \A x \in D : \E i \in 1 .. Len(d) : d[i] = x
    BY <1>1, <1>2, ListOfSet
  <1>4. /\ Len(a) \in Nat /\ Len(d) \in Nat /\ Len(order) = Len(a) + Len(d)
        /\ \A i \in 1 .. Len(a) : order[i] = a[i]
        /\ \A i \in 1 .. Len(d) : order[Len(a) + i] = d[i]
    <2>1. a \in Seq(A \cup D) /\ d \in Seq(A \cup D)
      BY <1>3
    <2>2. /\ Len(a) \in Nat /\ Len(d) \in Nat /\ Len(a \o d) = Len(a) + Len(d)
          /\ \A i \in 1 .. Len(a) : (a \o d)[i] = a[i]
          /\ \A i \in 1 .. Len(d) : (a \o d)[Len(a) + i] = d[i]
      BY <2>1
    <2> QED BY <1>1, <2>2
  <1>5. /\ \A i \in 1 .. Len(a) : a[i] \in A
        /\ \A i \in 1 .. Len(d) : d[i] \in D
    BY <1>3
  <1>6. /\ \A i \in 1 .. Len(a) : order[i] \in A
        /\ \A f \in A : \E i \in 1 .. Len(a) : order[i] = f
        /\ \A i \in 1 .. Len(d) : order[Len(a) + i] \in D
        /\ \A f \in D : \E i \in 1 .. Len(d) : order[Len(a) + i] = f
    <2>1. \A i \in 1 .. Len(a) : order[i] \in A
      BY <1>4, <1>5
    <2>2. \A f \in A : \E i \in 1 .. Len(a) : order[i] = f
      BY <1>3, <1>4
    <2>3. \A i \in 1 .. Len(d) : order[Len(a) + i] \in D
      BY <1>4, <1>5
    <2>4. ASSUME NEW f \in D PROVE \E i \in 1 .. Len(d) : order[Len(a) + i] = f
      <3>1. PICK i \in 1 .. Len(d) : d[i] = f
        BY <1>3
      <3> QED BY <1>4, <3>1
    <2> QED BY <2>1, <2>2, <2>3, <2>4
  <1> QED BY <1>4, <1>6 DEF A, D, Parts

LEMMA OrderOfFacts ==
  ASSUME NEW F, IsFiniteSet(F), NEW order \in Orders(F)
  PROVE  /\ Len(order) \in Nat
         /\ \A n \in 1 .. Len(order) : order[n] \in References(F)
         /\ \A f \in References(F) : \E n \in 1 .. Len(order) : order[n] = f
  <1>1. PICK k \in Nat, m \in Nat : Parts(F, order, k, m)
    BY PartsOfOrder
  <1>2. /\ 1 .. k \subseteq 1 .. Len(order)
        /\ \A i \in 1 .. m : k + i \in 1 .. Len(order)
        /\ \A n \in 1 .. Len(order) : n \in 1 .. k \/ (n - k \in 1 .. m /\ k + (n - k) = n)
    BY <1>1 DEF Parts
  <1>3. ASSUME NEW n \in 1 .. Len(order) PROVE order[n] \in References(F)
    <2>1. CASE n \in 1 .. k
      BY <1>1, <2>1 DEF References, Parts
    <2>2. CASE n - k \in 1 .. m /\ k + (n - k) = n
      <3>1. order[k + (n - k)] \in OfKind(F, "dependency")
        BY <1>1, <2>2 DEF Parts
      <3> QED BY <2>2, <3>1 DEF References
    <2> QED BY <1>2, <2>1, <2>2
  <1>4. \A f \in References(F) : \E n \in 1 .. Len(order) : order[n] = f
    BY <1>1, <1>2 DEF References, Parts
  <1>5. Len(order) \in Nat
    BY <1>1 DEF Parts
  <1> QED BY <1>3, <1>4, <1>5

\* The finding of one fact.
LEMMA FindingOfFact ==
  ASSUME NEW F, NEW ind, NEW f
  PROVE  /\ ActionConsidered(F, ind, f) =>
              FindingOf(F, ind, f) = Finding(f.subject, Derive(ActionCandidate(F, f)))
         /\ DependencyConsidered(F, ind, f) =>
              FindingOf(F, ind, f) = Finding(JobOf(f.subject), Derive(DependencyCandidate(F, ind, f)))
         /\ ~ActionConsidered(F, ind, f) /\ ~DependencyConsidered(F, ind, f) =>
              FindingOf(F, ind, f) = <<>>
  <1>1. ~(ActionConsidered(F, ind, f) /\ DependencyConsidered(F, ind, f))
    BY DEF ActionConsidered, DependencyConsidered
  <1> QED BY <1>1 DEF FindingOf

LEMMA FindingOfIsFindings ==
  ASSUME NEW F, NEW ind, NEW f PROVE IsFindings(FindingOf(F, ind, f))
  <1>1. \A subject, c : IsFindings(Finding(subject, Derive(c)))
    BY DeriveTotal DEF IsFindings, Finding
  <1>2. IsFindings(<<>>)
    BY DEF IsFindings
  <1> QED BY <1>1, <1>2, FindingOfFact

\* What a replay owes to the facts, whatever their order: no finding of a fact
\* is lost or weakened, and each state is that of a fact, of a gap or of a
\* contradiction.
Derived(F, ind, all) ==
  /\ \A s \in DOMAIN all : all[s] \in States
  /\ \A f \in References(F) : Outranked(FindingOf(F, ind, f), all)
  /\ \A s \in DOMAIN all :
       \/ all[s] \in {"CONTRADICTORY_EVIDENCE", "UNKNOWN_EVIDENCE_GAP"}
       \/ \E f \in References(F) : Concludes(FindingOf(F, ind, f), s, all[s])

LEMMA EveryOrderDerives ==
  ASSUME NEW F, IsFiniteSet(F), NEW order \in Orders(F), NEW ind
  PROVE  Derived(F, ind, deriveIndicator(F, order, ind))
  <1> DEFINE exact == ExactFindings(F, order, ind)
             gaps  == GapFindings(F, exact)
             all   == coalesceIndicatorFindings(exact, gaps)
             each  == [n \in 1 .. Len(order) |-> FindingOf(F, ind, order[n])]
  <1>1. Len(order) \in Nat
    BY OrderOfFacts
  <1>2. PICK found :
          /\ found[0] = <<>>
          /\ \A n \in 1 .. Len(order) :
               found[n] = coalesceIndicatorFindings(found[n - 1], FindingOf(F, ind, order[n]))
          /\ exact = found[Len(order)]
    <2> HIDE DEF exact
    <2>1. exact = ExactFindings(F, order, ind)
      BY DEF exact
    <2>2. \E found : FoundSoFar(found, F, order, ind)
      BY <1>1, FoldOfFacts
    <2> QED BY <2>1, <2>2, Zenon DEF FoundSoFar
  <1>3. /\ IsFindings(exact)
        /\ \A i \in 1 .. Len(order) : Outranked(each[i], exact)
        /\ \A s \in DOMAIN exact :
             \/ exact[s] = "CONTRADICTORY_EVIDENCE"
             \/ \E i \in 1 .. Len(order) : Concludes(each[i], s, exact[s])
    <2> HIDE DEF exact
    <2>1. \A n \in 1 .. Len(order) : IsFindings(each[n])
      BY FindingOfIsFindings
    <2>2. \A n \in 1 .. Len(order) : found[n] = coalesceIndicatorFindings(found[n - 1], each[n])
      BY <1>2
    <2> HIDE DEF each
    <2> QED BY <1>1, <1>2, <2>1, <2>2, FoldClimbs
  <1>4. /\ IsFindings(gaps)
        /\ \A s \in DOMAIN gaps : gaps[s] = "UNKNOWN_EVIDENCE_GAP"
    <2> HIDE DEF exact
    <2>1. Derive({"gap"}) = "UNKNOWN_EVIDENCE_GAP"
      BY DEF Derive
    <2> QED BY <2>1 DEF GapFindings, IsFindings, States
  <1>5. all = deriveIndicator(F, order, ind)
    BY DEF deriveIndicator
  <1> HIDE DEF exact, gaps
  <1>6. /\ IsFindings(all) /\ Outranked(exact, all)
        /\ \A s \in DOMAIN all :
             \/ all[s] = "CONTRADICTORY_EVIDENCE"
             \/ Concludes(exact, s, all[s]) \/ Concludes(gaps, s, all[s])
    BY <1>3, <1>4, CoalesceClimbs
  <1> HIDE DEF all
  <1>7. ASSUME NEW f \in References(F) PROVE Outranked(FindingOf(F, ind, f), all)
    <2>1. PICK i \in 1 .. Len(order) : order[i] = f
      BY OrderOfFacts
    <2>2. Outranked(FindingOf(F, ind, f), exact)
      BY <1>3, <2>1
    <2> QED BY <2>2, <1>3, <1>6, OutrankedTransitive, FindingOfIsFindings
  <1>8. ASSUME NEW s \in DOMAIN all, all[s] \notin {"CONTRADICTORY_EVIDENCE", "UNKNOWN_EVIDENCE_GAP"}
        PROVE  \E f \in References(F) : Concludes(FindingOf(F, ind, f), s, all[s])
    <2>1. Concludes(exact, s, all[s])
      BY <1>4, <1>6, <1>8 DEF Concludes
    <2>2. PICK i \in 1 .. Len(order) : Concludes(each[i], s, all[s])
      BY <1>3, <1>8, <2>1 DEF Concludes
    <2>3. order[i] \in References(F)
      BY OrderOfFacts
    <2> QED BY <2>2, <2>3
  <1>9. \A s \in DOMAIN all : all[s] \in States
    BY <1>6 DEF IsFindings
  <1> QED BY <1>5, <1>7, <1>8, <1>9 DEF Derived

-----------------------------------------------------------------------------
(* Affected Actions are reported.                                          *)

LEMMA StageOrder ==
  /\ Failed = 0 /\ Announced = 1 /\ Prepared = 2 /\ Started = 3
  /\ \A stage \in Failed .. Started : stage \in {Failed, Announced, Prepared, Started}
  BY DEF Failed, Announced, Prepared, Started

LEMMA ArchiveGrows ==
  ASSUME NEW F, NEW G, WellFormed(F), WellFormed(G) PROVE WellFormed(F \cup G)
  <1>1. IsFiniteSet(F \cup G)
    <2>1. IsFiniteSet(F) /\ IsFiniteSet(G)
      BY DEF WellFormed
    <2> QED BY <2>1, FS_Union, Zenon
  <1>2. \A kind : OfKind(F \cup G, kind) = OfKind(F, kind) \cup OfKind(G, kind)
    BY DEF OfKind
  <1>3. \A obs \in OfKind(F \cup G, "action") :
          /\ obs.stage \in Failed .. Started
          /\ obs.subject.attempt # None /\ obs.subject.job # None
          /\ obs.subject.step # None <=> obs.stage = Started
          /\ obs.stage = Failed =>
               \E other \in OfKind(F \cup G, "action") :
                 /\ other.stage = Announced /\ other.subject = obs.subject
                 /\ other.source = obs.source /\ other.digest = obs.digest
    <2>1. ASSUME NEW H, WellFormed(H), OfKind(H, "action") \subseteq OfKind(F \cup G, "action"),
                 NEW obs \in OfKind(H, "action")
          PROVE  /\ obs.stage \in Failed .. Started
                 /\ obs.subject.attempt # None /\ obs.subject.job # None
                 /\ obs.subject.step # None <=> obs.stage = Started
                 /\ obs.stage = Failed =>
                      \E other \in OfKind(F \cup G, "action") :
                        /\ other.stage = Announced /\ other.subject = obs.subject
                        /\ other.source = obs.source /\ other.digest = obs.digest
      BY <2>1 DEF WellFormed
    <2> QED BY <1>2, <2>1
  <1>4. \A c \in OfKind(F \cup G, "coverage") : c.closed \in BOOLEAN
    BY <1>2 DEF WellFormed
  <1>5. \A f \in F \cup G :
          f.subject = [attempt |-> f.subject.attempt, job |-> f.subject.job, step |-> f.subject.step]
    BY DEF WellFormed
  <1> QED BY <1>1, <1>3, <1>4, <1>5 DEF WellFormed

\* Subjects of one execution that name no step, or the same, are equal.
LEMMA SubjectsOfOneJob ==
  ASSUME NEW F, WellFormed(F), NEW a \in OfKind(F, "action"), NEW b \in OfKind(F, "action"),
         sameExecutionSubject(a.subject, b.subject)
  PROVE  /\ a.subject.attempt = b.subject.attempt /\ a.subject.job = b.subject.job
         /\ JobOf(a.subject) = JobOf(b.subject)
         /\ a.subject.step = b.subject.step => a.subject = b.subject
  <1>1. \A f \in {a, b} :
          /\ f.subject = [attempt |-> f.subject.attempt, job |-> f.subject.job, step |-> f.subject.step]
          /\ f.subject.attempt # None /\ f.subject.job # None
    BY DEF WellFormed, OfKind
  <1>2. a.subject.attempt = b.subject.attempt /\ a.subject.job = b.subject.job
    BY <1>1 DEF sameExecutionSubject
  <1>3. \A f \in {a, b} : JobOf(f.subject) = [attempt |-> f.subject.attempt, job |-> f.subject.job, step |-> None]
    BY <1>1 DEF JobOf
  <1>4. a.subject.step = b.subject.step => a.subject = b.subject
    BY <1>1, <1>2
  <1> QED BY <1>2, <1>3, <1>4

\* An affected observation that is passed over has a stronger one in its job,
\* which is affected itself, or shadows it.
LEMMA ConsideredOrReplaced ==
  ASSUME NEW F, NEW ind, NEW obs \in OfKind(F, "action"), Affected(ind, obs),
         ~Shadowed(F, ind, obs), ~ActionConsidered(F, ind, obs)
  PROVE  \E other \in OfKind(F, "action") :
           /\ sameExecutionSubject(other.subject, obs.subject)
           /\ other.stage > obs.stage
           /\ Affected(ind, other)
  <1>1. obs.kind = "action" /\ runtimeIdentityMatches(ind, obs)
    BY DEF OfKind, Affected
  <1>2. strongerRuntimeObservationExists(F, obs, ind)
    BY <1>1 DEF ActionConsidered
  <1> QED BY <1>2 DEF strongerRuntimeObservationExists, Shadowed

\* The state of an affected observation that is considered bounds the finding of
\* its subject from below.
LEMMA ConsideredIsConcluded ==
  ASSUME NEW F, NEW ind, NEW all, Derived(F, ind, all),
         NEW obs \in OfKind(F, "action"), ActionConsidered(F, ind, obs)
  PROVE  /\ obs.subject \in DOMAIN all /\ all[obs.subject] \in States
         /\ findingStateRank[Derive(ActionCandidate(F, obs))] <= findingStateRank[all[obs.subject]]
  <1>1. FindingOf(F, ind, obs) = Finding(obs.subject, Derive(ActionCandidate(F, obs)))
    BY FindingOfFact
  <1>2. Outranked(Finding(obs.subject, Derive(ActionCandidate(F, obs))), all)
    BY <1>1 DEF Derived, References
  <1>3. /\ DOMAIN Finding(obs.subject, Derive(ActionCandidate(F, obs))) = {obs.subject}
        /\ Finding(obs.subject, Derive(ActionCandidate(F, obs)))[obs.subject] = Derive(ActionCandidate(F, obs))
    BY DEF Finding
  <1>4. /\ obs.subject \in DOMAIN all
        /\ findingStateRank[Derive(ActionCandidate(F, obs))] <= findingStateRank[all[obs.subject]]
    BY <1>2, <1>3 DEF Outranked
  <1> QED BY <1>4 DEF Derived

\* Nothing is stronger than a start.
LEMMA StartIsReported ==
  ASSUME NEW F, WellFormed(F), NEW ind, NEW all, Derived(F, ind, all),
         NEW obs \in OfKind(F, "action"), Affected(ind, obs), obs.stage = Started
  PROVE  /\ obs.subject \in DOMAIN all
         /\ all[obs.subject] \in {"CONFIRMED_EXECUTED", "CONTRADICTORY_EVIDENCE"}
  <1>1. ~strongerRuntimeObservationExists(F, obs, ind)
    BY StageOrder DEF strongerRuntimeObservationExists, WellFormed
  <1>2. ActionConsidered(F, ind, obs)
    BY <1>1 DEF ActionConsidered, Affected, OfKind
  <1>3. Derive(ActionCandidate(F, obs)) \in {"CONFIRMED_EXECUTED", "CONTRADICTORY_EVIDENCE"}
    BY AffectedDerivation DEF Affected
  <1>4. /\ obs.subject \in DOMAIN all /\ all[obs.subject] \in States
        /\ findingStateRank[Derive(ActionCandidate(F, obs))] <= findingStateRank[all[obs.subject]]
    BY <1>2, ConsideredIsConcluded
  <1>5. all[obs.subject] \in {"CONFIRMED_EXECUTED", "CONTRADICTORY_EVIDENCE"}
    BY <1>3, <1>4, Ranks DEF States, Positive
  <1> QED BY <1>4, <1>5

\* Where a state comes from.
LEMMA ConcludedByFact ==
  ASSUME NEW F, NEW ind, NEW f, NEW s, NEW state, Concludes(FindingOf(F, ind, f), s, state)
  PROVE  \/ /\ ActionConsidered(F, ind, f)
            /\ s = f.subject /\ state = Derive(ActionCandidate(F, f))
         \/ /\ DependencyConsidered(F, ind, f)
            /\ s = JobOf(f.subject) /\ state = Derive(DependencyCandidate(F, ind, f))
  <1>1. ASSUME NEW subject, NEW c, Concludes(Finding(subject, Derive(c)), s, state)
        PROVE  s = subject /\ state = Derive(c)
    BY <1>1 DEF Concludes, Finding
  <1>2. CASE ActionConsidered(F, ind, f)
    BY <1>1, <1>2, FindingOfFact
  <1>3. CASE DependencyConsidered(F, ind, f)
    BY <1>1, <1>3, FindingOfFact
  <1>4. CASE ~ActionConsidered(F, ind, f) /\ ~DependencyConsidered(F, ind, f)
    <2>1. Concludes(<<>>, s, state)
      BY <1>4, FindingOfFact
    <2> QED BY <2>1 DEF Concludes
  <1> QED BY <1>2, <1>3, <1>4

\* The flags of a reference that decide its state.
LEMMA DependencyFlags ==
  ASSUME NEW F, NEW ind, NEW dep
  PROVE  LET c == DependencyCandidate(F, ind, dep)
         IN  /\ "exact runtime" \notin c
             /\ "mutable ref" \in c =>
                  IsMutable(ind) /\ dep.basis # "current" /\ ~(dep.depth > 0)
             /\ "called workflow" \in c <=>
                  ind.kind = "reusable-workflow-commit" /\ dep.basis = "attempt metadata"
             /\ \/ "current only" \in c \/ "called workflow" \in c \/ "transitive" \in c
                \/ "declared" \in c \/ {"mutable ref", "gap"} \subseteq c
  <1> DEFINE current  == dep.basis = "current"
             called   == ind.kind = "reusable-workflow-commit"
             recorded == called /\ dep.basis = "attempt metadata"
             deep     == ~current /\ ~called /\ dep.depth > 0
             direct   == ~current /\ ~recorded /\ ~deep
             mutable  == direct /\ IsMutable(ind)
             inWindow == mutable /\ dep.inWindow
             closed   == ~mutable /\ ~current /\ \E c \in F :
                           /\ c.kind \in {"coverage", "gap"}
                           /\ sameExecutionSubject(c.subject, dep.subject)
             disputed == \E obs \in OfKind(F, "action") : Contradicts(dep, obs)
             flags == UNION {Flag("current only", current),
                             Flag("called workflow", recorded),
                             Flag("transitive", deep),
                             Flag("declared", direct /\ ~mutable),
                             Flag("mutable ref", mutable),
                             Flag("in window", inWindow),
                             Flag("gap", mutable),
                             Flag("closed", closed),
                             Flag("contradiction", disputed)}
  <1>1. DependencyCandidate(F, ind, dep) = flags
    BY DEF DependencyCandidate
  <1> HIDE DEF current, inWindow, closed, disputed
  <1>2. "exact runtime" \notin flags
    BY DEF Flag
  <1>3. "called workflow" \in flags <=> recorded
    <2> HIDE DEF recorded, deep, direct, mutable
    <2> QED BY DEF Flag
  <1>4. \/ "current only" \in flags \/ "called workflow" \in flags \/ "transitive" \in flags
        \/ "declared" \in flags \/ {"mutable ref", "gap"} \subseteq flags
    BY DEF Flag
  <1>5. "mutable ref" \in flags => mutable
    <2> HIDE DEF recorded, deep, direct, mutable
    <2> QED BY DEF Flag
  <1>6. mutable => IsMutable(ind) /\ dep.basis # "current" /\ ~(dep.depth > 0)
    BY DEF IsMutable, current
  <1> QED BY <1>1, <1>2, <1>3, <1>4, <1>5, <1>6

\* GitHub's record of a called workflow speaks for no Action.
LEMMA CalledWorkflowIsNoAction ==
  ASSUME NEW F, NEW ind, NEW f, NEW s,
         Concludes(FindingOf(F, ind, f), s, "CONFIRMED_CALLED_WORKFLOW")
  PROVE  ind.kind = "reusable-workflow-commit"
  <1>1. CASE Derive(ActionCandidate(F, f)) = "CONFIRMED_CALLED_WORKFLOW"
    <2>1. "called workflow" \in ActionCandidate(F, f)
      BY <1>1, ConfirmedIsExact
    <2> QED BY <2>1 DEF ActionCandidate, RuntimeFlags, Flag
  <1>2. CASE Derive(DependencyCandidate(F, ind, f)) = "CONFIRMED_CALLED_WORKFLOW"
    <2>1. "called workflow" \in DependencyCandidate(F, ind, f)
      BY <1>2, ConfirmedIsExact
    <2> QED BY <2>1, DependencyFlags
  <1>3. \/ Derive(ActionCandidate(F, f)) = "CONFIRMED_CALLED_WORKFLOW"
        \/ Derive(DependencyCandidate(F, ind, f)) = "CONFIRMED_CALLED_WORKFLOW"
    <2> HIDE DEF Derive
    <2>1. PICK state : state = "CONFIRMED_CALLED_WORKFLOW"
      OBVIOUS
    <2> QED BY <2>1, ConcludedByFact
  <1> QED BY <1>1, <1>2, <1>3

LEMMA PreparationIsReported ==
  ASSUME NEW F, WellFormed(F), NEW ind, NEW all, Derived(F, ind, all),
         NEW obs \in OfKind(F, "action"), Affected(ind, obs), ~Shadowed(F, ind, obs),
         obs.stage = Prepared
  PROVE  \E s \in DOMAIN all :
           /\ JobOf(s) = JobOf(obs.subject)
           /\ all[s] \in {"CONFIRMED_EXECUTED", "CONFIRMED_DOWNLOADED", "CONTRADICTORY_EVIDENCE"}
  <1>1. CASE ActionConsidered(F, ind, obs)
    <2>1. Derive(ActionCandidate(F, obs)) \in {"CONFIRMED_DOWNLOADED", "CONTRADICTORY_EVIDENCE"}
      BY AffectedDerivation DEF Affected
    <2>2. /\ obs.subject \in DOMAIN all /\ all[obs.subject] \in States
          /\ findingStateRank[Derive(ActionCandidate(F, obs))] <= findingStateRank[all[obs.subject]]
      BY <1>1, ConsideredIsConcluded
    <2>3. all[obs.subject] \in {"CONFIRMED_EXECUTED", "CONFIRMED_DOWNLOADED",
                               "CONFIRMED_CALLED_WORKFLOW", "CONTRADICTORY_EVIDENCE"}
      BY <2>1, <2>2, Ranks DEF States, Positive
    <2>4. all[obs.subject] # "CONFIRMED_CALLED_WORKFLOW"
      <3>1. ind.kind # "reusable-workflow-commit"
        BY DEF Affected, runtimeIdentityMatches
      <3> QED BY <2>2, <3>1, CalledWorkflowIsNoAction DEF Derived
    <2> QED BY <2>2, <2>3, <2>4
  <1>2. CASE ~ActionConsidered(F, ind, obs)
    <2>1. PICK other \in OfKind(F, "action") :
            /\ sameExecutionSubject(other.subject, obs.subject)
            /\ other.stage > obs.stage
            /\ Affected(ind, other)
      BY <1>2, ConsideredOrReplaced
    <2>2. other.stage = Started
      BY <2>1, StageOrder DEF WellFormed
    <2>3. JobOf(other.subject) = JobOf(obs.subject)
      BY <2>1, SubjectsOfOneJob
    <2> QED BY <2>1, <2>2, <2>3, StartIsReported
  <1> QED BY <1>1, <1>2

-----------------------------------------------------------------------------
(* Clean conclusions are earned.                                           *)

\* No reference is clean.
LEMMA DependencyIsNotClean ==
  ASSUME NEW F, NEW ind, NEW dep
  PROVE  Derive(DependencyCandidate(F, ind, dep)) # "NO_MATCH_CONFIRMED"
  <1> DEFINE c == DependencyCandidate(F, ind, dep)
  <1>1. /\ "exact runtime" \notin c
        /\ \/ "current only" \in c \/ "called workflow" \in c \/ "transitive" \in c
           \/ "declared" \in c \/ {"mutable ref", "gap"} \subseteq c
    BY DependencyFlags
  <1> HIDE DEF c
  <1>2. Derive(c) # "NO_MATCH_CONFIRMED"
    BY <1>1 DEF Derive
  <1> QED BY <1>2 DEF c

\* What the flags of a runtime observation mean.
LEMMA RuntimeFlagsMean ==
  ASSUME NEW F, NEW obs
  PROVE  LET c == ActionCandidate(F, obs)
         IN  /\ "exact runtime" \in c
             /\ "gap" \in c <=> hasMaterialGap(F, obs.subject)
             /\ "closed" \in c <=> requiredNegativeCoverageClosed(F, obs.subject)
             /\ "known good" \in c <=> runtimeKnownGood(obs)
             /\ "announced only" \in c <=> obs.stage = Announced
             /\ "prepared" \in c <=> obs.stage \in {Prepared, Started}
             /\ "started" \in c <=> obs.stage = Started
             /\ c \cap {"called workflow", "declared", "mutable ref", "transitive",
                       "current only"} = {}
  <1> DEFINE gap      == hasMaterialGap(F, obs.subject)
             closed   == requiredNegativeCoverageClosed(F, obs.subject)
             good     == runtimeKnownGood(obs)
             disputed == \E def \in OfKind(F, "dependency") : Contradicts(def, obs)
             flags == UNION {{"exact runtime"},
                             Flag("known good", good),
                             Flag("started", obs.stage = Started),
                             Flag("prepared", obs.stage \in {Prepared, Started}),
                             Flag("gap", gap),
                             Flag("closed", closed),
                             Flag("contradiction", disputed)}
  <1>1. ActionCandidate(F, obs) = flags \cup Flag("announced only", obs.stage = Announced)
    BY DEF ActionCandidate, RuntimeFlags
  <1> HIDE DEF gap, closed, good, disputed
  <1>2. /\ "exact runtime" \in flags
        /\ flags \cap {"called workflow", "declared", "mutable ref", "transitive",
                       "current only", "announced only"} = {}
    BY DEF Flag
  <1>3. "gap" \in flags <=> gap
    BY DEF Flag
  <1>4. "closed" \in flags <=> closed
    BY DEF Flag
  <1>5. "known good" \in flags <=> good
    BY DEF Flag
  <1>6. /\ "prepared" \in flags <=> obs.stage \in {Prepared, Started}
        /\ "started" \in flags <=> obs.stage = Started
    BY DEF Flag
  <1> HIDE DEF flags
  <1>7. /\ "announced only" \in ActionCandidate(F, obs) <=> obs.stage = Announced
        /\ \A flag \in {"exact runtime", "gap", "closed", "known good", "prepared", "started",
                        "called workflow", "declared", "mutable ref", "transitive", "current only"} :
             flag \in ActionCandidate(F, obs) <=> flag \in flags
    BY <1>1, <1>2 DEF Flag
  <1> QED BY <1>2, <1>3, <1>4, <1>5, <1>6, <1>7 DEF gap, closed, good

\* No affected observation that got so far as an announcement is clean.
LEMMA AffectedIsNotClean ==
  ASSUME NEW F, NEW ind, NEW obs, Affected(ind, obs),
         obs.stage \in {Announced, Prepared, Started}
  PROVE  Derive(ActionCandidate(F, obs)) # "NO_MATCH_CONFIRMED"
  <1> SUFFICES ASSUME Derive(ActionCandidate(F, obs)) = "NO_MATCH_CONFIRMED" PROVE FALSE
    OBVIOUS
  <1> DEFINE c == ActionCandidate(F, obs)
  <1>1. /\ "exact runtime" \in c /\ "known good" \notin c
        /\ "announced only" \in c \/ "prepared" \in c
    BY RuntimeFlagsMean DEF Affected
  <1> HIDE DEF c
  <1>2. c \cap {"announced only", "prepared", "started"} = {}
    BY <1>1, NegativeIsClosed DEF c
  <1> QED BY <1>1, <1>2

\* The coverage that a clean subject rests on.
Assessments(F, s, unit) ==
  {c.closed : c \in {r \in OfKind(F, "coverage") : r.subject = JobOf(s) /\ r.unit = unit}}

LEMMA ClosedCoverage ==
  ASSUME NEW F, WellFormed(F), NEW s, requiredNegativeCoverageClosed(F, s), NEW unit \in RequiredUnits
  PROVE  Assessments(F, s, unit) = {TRUE}
  <1> DEFINE rows == {c \in OfKind(F, "coverage") : c.subject = JobOf(s) /\ c.unit = unit}
  <1>1. Cardinality(rows) = 1 /\ \A c \in rows : c.closed
    BY DEF requiredNegativeCoverageClosed
  <1>2. IsFiniteSet(rows)
    <2>1. rows \subseteq F
      BY DEF OfKind
    <2> QED BY <2>1, FS_Subset DEF WellFormed
  <1>3. \A c \in rows : c.closed \in BOOLEAN
    BY DEF WellFormed
  <1> HIDE DEF rows
  <1>4. PICK c : rows = {c}
    BY <1>1, <1>2, FS_Singleton
  <1>5. c.closed = TRUE
    BY <1>1, <1>3, <1>4
  <1>6. {r.closed : r \in rows} = {TRUE}
    BY <1>4, <1>5
  <1>7. Assessments(F, s, unit) = {r.closed : r \in rows}
    BY DEF rows, Assessments
  <1> QED BY <1>6, <1>7

\* Of the affected observations of a subject that are no weaker than one of
\* them there is a strongest.
LEMMA StrongestAffected ==
  ASSUME NEW F, WellFormed(F), NEW ind, NEW obs \in OfKind(F, "action"), Affected(ind, obs)
  PROVE  \E a \in OfKind(F, "action") :
           /\ a.subject = obs.subject /\ Affected(ind, a) /\ a.stage >= obs.stage
           /\ \A b \in OfKind(F, "action") :
                b.subject = obs.subject /\ Affected(ind, b) => b.stage <= a.stage
  <1> DEFINE Peers == {a \in OfKind(F, "action") : a.subject = obs.subject /\ Affected(ind, a)}
             Below == {3 - a.stage : a \in Peers}
  <1>1. \A a \in Peers : a.stage \in 0 .. 3
    BY StageOrder DEF WellFormed
  <1>2. obs \in Peers
    OBVIOUS
  <1> HIDE DEF Peers
  <1>3. Below \subseteq Nat /\ Below # {}
    BY <1>1, <1>2
  <1>4. PICK n \in Below : \A m \in Below : n <= m
    BY <1>3, LeastNumber
  <1>5. PICK a \in Peers : n = 3 - a.stage
    BY <1>4
  <1>6. \A b \in Peers : 3 - a.stage <= 3 - b.stage
    BY <1>4, <1>5
  <1> HIDE DEF Below
  <1>7. \A b \in Peers : b.stage <= a.stage
    BY <1>1, <1>5, <1>6
  <1>8. a.stage >= obs.stage
    BY <1>1, <1>2, <1>5, <1>7
  <1> QED BY <1>5, <1>7, <1>8 DEF Peers

LEMMA CleanIsEarned ==
  ASSUME NEW F, WellFormed(F), NEW ind, NEW all, Derived(F, ind, all),
         NEW s \in DOMAIN all, all[s] = "NO_MATCH_CONFIRMED"
  PROVE  /\ s = [attempt |-> s.attempt, job |-> s.job, step |-> s.step]
         /\ s.attempt # None
         /\ requiredNegativeCoverageClosed(F, s) /\ ~hasMaterialGap(F, s)
         /\ \A obs \in OfKind(F, "action") :
              obs.subject = s /\ Affected(ind, obs) =>
                \E other \in OfKind(F, "action") :
                  /\ other.subject = s /\ Affected(ind, other) /\ other.stage >= obs.stage
                  /\ Shadowed(F, ind, other)
  <1>1. PICK f \in References(F) : Concludes(FindingOf(F, ind, f), s, "NO_MATCH_CONFIRMED")
    BY DEF Derived
  <1>2. /\ ActionConsidered(F, ind, f) /\ s = f.subject
        /\ Derive(ActionCandidate(F, f)) = "NO_MATCH_CONFIRMED"
    <2> HIDE DEF Derive
    <2>1. PICK state : state = "NO_MATCH_CONFIRMED"
      OBVIOUS
    <2> QED BY <1>1, <2>1, ConcludedByFact, DependencyIsNotClean
  <1>3. f \in OfKind(F, "action")
    BY <1>2 DEF ActionConsidered, OfKind, References
  <1>4. requiredNegativeCoverageClosed(F, s) /\ ~hasMaterialGap(F, s)
    <2>1. "closed" \in ActionCandidate(F, f) /\ "gap" \notin ActionCandidate(F, f)
      BY <1>2, NegativeIsClosed
    <2> QED BY <1>2, <2>1, RuntimeFlagsMean
  <1>5. ASSUME NEW obs \in OfKind(F, "action"), obs.subject = s, Affected(ind, obs)
        PROVE  \E other \in OfKind(F, "action") :
                 /\ other.subject = s /\ Affected(ind, other) /\ other.stage >= obs.stage
                 /\ Shadowed(F, ind, other)
    <2>1. PICK a \in OfKind(F, "action") :
            /\ a.subject = s /\ Affected(ind, a) /\ a.stage >= obs.stage
            /\ \A b \in OfKind(F, "action") :
                 b.subject = s /\ Affected(ind, b) => b.stage <= a.stage
      BY <1>5, StrongestAffected
    <2> SUFFICES ASSUME ~Shadowed(F, ind, a) PROVE FALSE
      BY <2>1
    <2>2. \A b \in OfKind(F, "action") : b.stage \in 0 .. 3
      BY StageOrder DEF WellFormed
    <2>3. a.stage # Failed
      <3> SUFFICES ASSUME a.stage = Failed PROVE FALSE
        OBVIOUS
      <3>1. PICK b \in OfKind(F, "action") :
              /\ b.stage = Announced /\ b.subject = a.subject
              /\ b.source = a.source /\ b.digest = a.digest
        BY DEF WellFormed
      <3>2. Affected(ind, b)
        BY <2>1, <3>1 DEF Affected, runtimeIdentityMatches, runtimeKnownGood
      <3> QED BY <2>1, <3>1, <3>2, StageOrder
    <2>4. CASE ActionConsidered(F, ind, a)
      <3>1. findingStateRank[Derive(ActionCandidate(F, a))] <= 20
        BY <2>1, <2>4, ConsideredIsConcluded, Ranks
      <3>2. Derive(ActionCandidate(F, a)) = "NO_MATCH_CONFIRMED"
        BY <3>1, DeriveTotal, Ranks DEF States, Positive
      <3>3. a.stage \in {Announced, Prepared, Started}
        BY <2>2, <2>3, StageOrder
      <3> QED BY <2>1, <3>2, <3>3, AffectedIsNotClean
    <2>5. CASE ~ActionConsidered(F, ind, a)
      <3>1. PICK other \in OfKind(F, "action") :
              /\ sameExecutionSubject(other.subject, a.subject)
              /\ other.stage > a.stage
              /\ Affected(ind, other)
        BY <2>1, <2>5, ConsideredOrReplaced
      <3>2. ~(other.stage > f.stage)
        <4> SUFFICES ASSUME other.stage > f.stage PROVE FALSE
          OBVIOUS
        <4>1. other # f
          BY <1>3, <2>2
        <4>2. strongerRuntimeObservationExists(F, f, ind)
          BY <1>2, <2>1, <3>1, <4>1 DEF strongerRuntimeObservationExists, Affected
        <4> QED BY <1>2, <4>2 DEF ActionConsidered
      <3>3. a.stage # Started
        BY <2>2, <3>1, StageOrder
      <3>4. f.stage # Started
        BY <1>2, <1>3, <2>1, <3>3 DEF WellFormed
      <3>5. other.stage # Started
        BY <1>3, <2>2, <3>2, <3>4, StageOrder
      <3>6. other.subject.step = a.subject.step
        BY <3>3, <3>5 DEF WellFormed
      <3>7. other.subject = s
        BY <2>1, <3>1, <3>6, SubjectsOfOneJob
      <3> QED BY <2>1, <2>2, <3>1, <3>7
    <2> QED BY <2>4, <2>5
  <1>6. s = [attempt |-> s.attempt, job |-> s.job, step |-> s.step] /\ s.attempt # None
    BY <1>2, <1>3 DEF WellFormed, OfKind
  <1> QED BY <1>4, <1>5, <1>6

\* A material gap of an attempt that names no job has a finding of its own once
\* anything else was found of that attempt.
LEMMA AttemptGapIsShown ==
  ASSUME NEW F, NEW order, NEW ind,
         NEW s \in DOMAIN deriveIndicator(F, order, ind), s.attempt # None,
         deriveIndicator(F, order, ind)[s] # "UNKNOWN_EVIDENCE_GAP",
         NEW gap \in OfKind(F, "gap"), gap.material,
         gap.subject.attempt = s.attempt, gap.subject.job = None
  PROVE  JobOf(gap.subject) \in DOMAIN deriveIndicator(F, order, ind)
  <1> DEFINE exact == ExactFindings(F, order, ind)
             gaps  == GapFindings(F, exact)
             all   == coalesceIndicatorFindings(exact, gaps)
  <1>1. deriveIndicator(F, order, ind) = all
    BY DEF deriveIndicator
  <1>2. /\ DOMAIN gaps = {JobOf(subject) : subject \in GapSubjects(F, exact)}
        /\ \A k \in DOMAIN gaps : gaps[k] = "UNKNOWN_EVIDENCE_GAP"
    BY DEF GapFindings, Derive
  <1> HIDE DEF exact, gaps
  <1>3. DOMAIN all = DOMAIN exact \cup DOMAIN gaps
    BY DEF coalesceIndicatorFindings
  <1>4. s \in DOMAIN exact
    <2> SUFFICES ASSUME s \notin DOMAIN exact PROVE FALSE
      OBVIOUS
    <2>1. s \in DOMAIN gaps
      BY <1>1, <1>3
    <2>2. all[s] = gaps[s]
      BY <2>1 DEF coalesceIndicatorFindings
    <2> QED BY <1>1, <1>2, <2>1, <2>2
  <1>5. gapRelatedToFindings(exact, gap.subject)
    BY <1>4 DEF gapRelatedToFindings
  <1>6. gap.subject \in GapSubjects(F, exact)
    BY <1>5 DEF GapSubjects
  <1> QED BY <1>1, <1>2, <1>3, <1>6

-----------------------------------------------------------------------------
(* Every replay of every archive.                                          *)

LEMMA ReplayDerives ==
  ASSUME WellFormed(facts), Replay
  PROVE  \A ind \in Indicators : Derived(facts, ind, findings'[ind])
  <1>1. PICK order \in Orders(facts) :
          findings' = [ind \in Indicators |-> deriveIndicator(facts, order, ind)]
    BY DEF Replay
  <1>2. IsFiniteSet(facts)
    BY DEF WellFormed
  <1> QED BY <1>1, <1>2, EveryOrderDerives

\* The findings were drawn from what the archive held at the last replay.
Inv ==
  /\ WellFormed(facts)
  /\ \E seen : /\ WellFormed(seen) /\ seen \subseteq facts
               /\ fresh => seen = facts
               /\ \A ind \in Indicators : Derived(seen, ind, findings[ind])
  /\ fresh => \E order \in Orders(facts) :
                findings = [ind \in Indicators |-> deriveIndicator(facts, order, ind)]

LEMMA Invariance == Spec => []Inv
  <1>1. Init => Inv
    <2> SUFFICES ASSUME Init PROVE Inv
      OBVIOUS
    <2>1. WellFormed({})
      BY FS_EmptySet DEF WellFormed, OfKind
    <2>2. \A ind \in Indicators : Derived({}, ind, findings[ind])
      BY DEF Init, Derived, References, OfKind
    <2> QED BY <2>1, <2>2 DEF Init, Inv
  <1>2. Inv /\ [Next]_vars => Inv'
    <2> SUFFICES ASSUME Inv, [Next]_vars PROVE Inv'
      OBVIOUS
    <2>1. CASE AppendBatch
      <3>1. PICK batch \in Batches : facts' = facts \cup batch
        BY <2>1 DEF AppendBatch
      <3>2. fresh' = FALSE /\ findings' = findings
        BY <2>1 DEF AppendBatch
      <3>3. WellFormed(facts \cup batch)
        BY BatchesAssumption, ArchiveGrows DEF Inv
      <3> QED BY <3>1, <3>2, <3>3 DEF Inv
    <2>2. CASE Replay
      <3>1. WellFormed(facts') /\ \A ind \in Indicators : Derived(facts', ind, findings'[ind])
        BY <2>2, ReplayDerives DEF Inv, Replay
      <3>2. \E order \in Orders(facts') :
              findings' = [ind \in Indicators |-> deriveIndicator(facts', order, ind)]
        BY <2>2 DEF Replay
      <3> QED BY <3>1, <3>2 DEF Inv
    <2>3. CASE UNCHANGED vars
      BY <2>3 DEF Inv, vars
    <2> QED BY <2>1, <2>2, <2>3 DEF Next
  <1> QED BY <1>1, <1>2, PTL DEF Spec

\* An affected Action that the runner prepared or started is reported, whatever
\* else the archive holds and in whatever order its facts are read: each fact's
\* finding goes into the coalesced one of its subject, which never ranks lower.
THEOREM AffectedTheorem == Spec => []AffectedIsReported
  <1>1. Inv => AffectedIsReported
    <2> SUFFICES ASSUME Inv, fresh, NEW ind \in Indicators, NEW obs \in Observations,
                        Affected(ind, obs), ~Shadowed(facts, ind, obs)
                 PROVE  Reported(ind, obs)
      BY DEF AffectedIsReported
    <2>1. WellFormed(facts) /\ Derived(facts, ind, findings[ind])
      BY DEF Inv
    <2>2. obs \in OfKind(facts, "action")
      BY DEF Observations
    <2>3. obs.stage = Started =>
            /\ obs.subject \in DOMAIN findings[ind]
            /\ findings[ind][obs.subject] \in {"CONFIRMED_EXECUTED", "CONTRADICTORY_EVIDENCE"}
      BY <2>1, <2>2, StartIsReported
    <2>4. obs.stage = Prepared =>
            \E s \in DOMAIN findings[ind] :
              /\ JobOf(s) = JobOf(obs.subject)
              /\ findings[ind][s] \in {"CONFIRMED_EXECUTED", "CONFIRMED_DOWNLOADED",
                                       "CONTRADICTORY_EVIDENCE"}
      BY <2>1, <2>2, PreparationIsReported
    <2> QED BY <2>3, <2>4 DEF Reported
  <1> QED BY <1>1, Invariance, PTL

\* A clean conclusion rests on closed coverage of its job without a material gap
\* of the job, and no affected identity was announced at its subject but in the
\* shadow of another, in every replay of every archive.  A material gap of the
\* attempt that names no job does not undo it, but has a finding of its own that
\* is not clean.
THEOREM NegativeTheorem == Spec => []NegativeIsEarned
  <1>1. Inv => NegativeIsEarned
    <2> SUFFICES ASSUME Inv, fresh, NEW ind \in Indicators, NEW s \in DOMAIN findings[ind],
                        findings[ind][s] = "NO_MATCH_CONFIRMED"
                 PROVE  /\ \A unit \in RequiredUnits :
                             {c.closed : c \in {r \in OfKind(facts, "coverage") :
                                                 r.subject = JobOf(s) /\ r.unit = unit}} = {TRUE}
                        /\ \A gap \in OfKind(facts, "gap") :
                             gap.material => ClearOf(gap, s, findings[ind])
                        /\ \A obs \in Observations :
                             obs.subject = s /\ Affected(ind, obs) =>
                               \E other \in Observations :
                                 /\ other.subject = s /\ Affected(ind, other)
                                 /\ other.stage >= obs.stage
                                 /\ Shadowed(facts, ind, other)
      BY DEF NegativeIsEarned
    <2>1. WellFormed(facts) /\ Derived(facts, ind, findings[ind])
      BY DEF Inv
    <2>2. /\ s = [attempt |-> s.attempt, job |-> s.job, step |-> s.step]
          /\ s.attempt # None
          /\ requiredNegativeCoverageClosed(facts, s) /\ ~hasMaterialGap(facts, s)
          /\ \A obs \in OfKind(facts, "action") :
               obs.subject = s /\ Affected(ind, obs) =>
                 \E other \in OfKind(facts, "action") :
                   /\ other.subject = s /\ Affected(ind, other) /\ other.stage >= obs.stage
                   /\ Shadowed(facts, ind, other)
      BY <2>1, CleanIsEarned
    <2>3. ASSUME NEW gap \in OfKind(facts, "gap"), gap.material
          PROVE  ClearOf(gap, s, findings[ind])
      <3> DEFINE there == JobOf(gap.subject)
                 own   == JobOf(s)
      <3>1. gap.subject = [attempt |-> gap.subject.attempt, job |-> gap.subject.job,
                           step |-> gap.subject.step]
        BY <2>1 DEF WellFormed, OfKind
      <3>2. /\ there = [attempt |-> gap.subject.attempt, job |-> gap.subject.job, step |-> None]
            /\ own = [attempt |-> s.attempt, job |-> s.job, step |-> None]
        BY <2>2, <3>1 DEF JobOf
      <3> HIDE DEF there, own
      <3>3. there # own
        <4> SUFFICES ASSUME there = own PROVE FALSE
          OBVIOUS
        <4>1. gap.subject.attempt = s.attempt /\ gap.subject.job = s.job
          <5>1. there.attempt = gap.subject.attempt /\ there.job = gap.subject.job
            BY <3>2
          <5>2. own.attempt = s.attempt /\ own.job = s.job
            BY <3>2
          <5> QED BY <5>1, <5>2
        <4>2. sameExecutionSubject(gap.subject, s)
          BY <4>1 DEF sameExecutionSubject
        <4> QED BY <2>2, <2>3, <4>2 DEF hasMaterialGap
      <3>4. ASSUME there.attempt = s.attempt, there.job = None
            PROVE  there \in DOMAIN findings[ind] /\ findings[ind][there] # "NO_MATCH_CONFIRMED"
        <4>1. PICK order \in Orders(facts) :
                findings = [i \in Indicators |-> deriveIndicator(facts, order, i)]
          BY DEF Inv
        <4>2. findings[ind] = deriveIndicator(facts, order, ind)
          BY <4>1
        <4>3. gap.subject.attempt = s.attempt /\ gap.subject.job = None
          BY <3>2, <3>4
        <4>4. there \in DOMAIN findings[ind]
          BY <2>2, <2>3, <4>2, <4>3, AttemptGapIsShown DEF there
        <4> SUFFICES ASSUME findings[ind][there] = "NO_MATCH_CONFIRMED" PROVE FALSE
          BY <4>4
        <4>5. requiredNegativeCoverageClosed(facts, there)
          BY <2>1, <4>4, CleanIsEarned
        <4> QED BY <3>4, <4>5 DEF requiredNegativeCoverageClosed
      <3> QED BY <3>3, <3>4 DEF ClearOf, there, own
    <2>4. \A unit \in RequiredUnits :
            {c.closed : c \in {r \in OfKind(facts, "coverage") :
                                r.subject = JobOf(s) /\ r.unit = unit}} = {TRUE}
      <3>1. \A unit \in RequiredUnits : Assessments(facts, s, unit) = {TRUE}
        BY <2>1, <2>2, ClosedCoverage
      <3> QED BY <3>1 DEF Assessments
    <2> QED BY <2>2, <2>3, <2>4 DEF Observations
  <1> QED BY <1>1, Invariance, PTL

-----------------------------------------------------------------------------
(* More evidence.                                                          *)

\* A start that was reported is one that is in the log.
LEMMA ExecutedIsStarted ==
  ASSUME NEW F, NEW ind, NEW all, Derived(F, ind, all),
         NEW s \in DOMAIN all, all[s] = "CONFIRMED_EXECUTED"
  PROVE  \E obs \in OfKind(F, "action") :
           obs.subject = s /\ Affected(ind, obs) /\ obs.stage = Started
  <1> DEFINE C(f) == ActionCandidate(F, f)
  <1>1. PICK f \in References(F) : Concludes(FindingOf(F, ind, f), s, "CONFIRMED_EXECUTED")
    BY DEF Derived
  <1>2. PICK state : state = "CONFIRMED_EXECUTED"
    OBVIOUS
  <1>3. \/ ActionConsidered(F, ind, f) /\ s = f.subject /\ Derive(C(f)) = "CONFIRMED_EXECUTED"
        \/ Derive(DependencyCandidate(F, ind, f)) = "CONFIRMED_EXECUTED"
    BY <1>1, <1>2, ConcludedByFact
  <1>4. Derive(DependencyCandidate(F, ind, f)) # "CONFIRMED_EXECUTED"
    <2> HIDE DEF Derive
    <2>1. "exact runtime" \notin DependencyCandidate(F, ind, f)
      BY DependencyFlags
    <2> QED BY <2>1, ConfirmedIsExact
  <1>5. "started" \in C(f) /\ "known good" \notin C(f)
    BY <1>3, <1>4, ConfirmedIsExact
  <1>6. f.stage = Started /\ ~runtimeKnownGood(f)
    BY <1>5, RuntimeFlagsMean
  <1> QED BY <1>3, <1>4, <1>6 DEF ActionConsidered, Affected, OfKind, References

LEMMA DownloadedIsPrepared ==
  ASSUME NEW F, NEW ind, NEW all, Derived(F, ind, all),
         NEW s \in DOMAIN all, all[s] = "CONFIRMED_DOWNLOADED"
  PROVE  \E obs \in OfKind(F, "action") :
           obs.subject = s /\ Affected(ind, obs) /\ obs.stage = Prepared
  <1> DEFINE C(f) == ActionCandidate(F, f)
  <1>1. PICK f \in References(F) : Concludes(FindingOf(F, ind, f), s, "CONFIRMED_DOWNLOADED")
    BY DEF Derived
  <1>2. PICK state : state = "CONFIRMED_DOWNLOADED"
    OBVIOUS
  <1>3. \/ ActionConsidered(F, ind, f) /\ s = f.subject /\ Derive(C(f)) = "CONFIRMED_DOWNLOADED"
        \/ Derive(DependencyCandidate(F, ind, f)) = "CONFIRMED_DOWNLOADED"
    BY <1>1, <1>2, ConcludedByFact
  <1>4. Derive(DependencyCandidate(F, ind, f)) # "CONFIRMED_DOWNLOADED"
    <2> HIDE DEF Derive
    <2>1. "exact runtime" \notin DependencyCandidate(F, ind, f)
      BY DependencyFlags
    <2> QED BY <2>1, ConfirmedIsExact
  <1>5. "prepared" \in C(f) /\ "started" \notin C(f) /\ "known good" \notin C(f)
    BY <1>3, <1>4, ConfirmedIsExact
  <1>6. f.stage = Prepared /\ ~runtimeKnownGood(f)
    BY <1>5, RuntimeFlagsMean
  <1> QED BY <1>3, <1>4, <1>6 DEF ActionConsidered, Affected, OfKind, References

\* GitHub's record of a called workflow stands, whatever else the archive holds.
LEMMA CallIsReported ==
  ASSUME NEW F, NEW ind, NEW before, Derived(F, ind, before),
         NEW s \in DOMAIN before, before[s] = "CONFIRMED_CALLED_WORKFLOW",
         NEW G, F \subseteq G, NEW all, Derived(G, ind, all)
  PROVE  \E k \in DOMAIN all :
           /\ JobOf(k) = JobOf(s)
           /\ all[k] \in {"CONFIRMED_EXECUTED", "CONFIRMED_DOWNLOADED",
                         "CONFIRMED_CALLED_WORKFLOW", "CONTRADICTORY_EVIDENCE"}
  <1>1. PICK f \in References(F) : Concludes(FindingOf(F, ind, f), s, "CONFIRMED_CALLED_WORKFLOW")
    BY DEF Derived
  <1>2. PICK state : state = "CONFIRMED_CALLED_WORKFLOW"
    OBVIOUS
  <1>3. Derive(ActionCandidate(F, f)) # "CONFIRMED_CALLED_WORKFLOW"
    <2>1. "called workflow" \notin ActionCandidate(F, f)
      BY DEF ActionCandidate, RuntimeFlags, Flag
    <2> HIDE DEF Derive
    <2> QED BY <2>1, ConfirmedIsExact
  <1>4. /\ DependencyConsidered(F, ind, f) /\ s = JobOf(f.subject)
        /\ Derive(DependencyCandidate(F, ind, f)) = "CONFIRMED_CALLED_WORKFLOW"
    BY <1>1, <1>2, <1>3, ConcludedByFact
  <1>5. ind.kind = "reusable-workflow-commit" /\ f.basis = "attempt metadata"
    <2>1. "called workflow" \in DependencyCandidate(F, ind, f)
      BY <1>4, ConfirmedIsExact
    <2> QED BY <2>1, DependencyFlags
  <1>6. f \in References(G) /\ DependencyConsidered(G, ind, f)
    BY <1>4, <1>5 DEF DependencyConsidered, IsMutable, References, OfKind
  <1> DEFINE c == DependencyCandidate(G, ind, f)
  <1>7. Derive(c) \in {"CONFIRMED_CALLED_WORKFLOW", "CONTRADICTORY_EVIDENCE"}
    <2>1. "called workflow" \in c /\ "exact runtime" \notin c
      BY <1>5, DependencyFlags
    <2> HIDE DEF c
    <2> QED BY <2>1 DEF Derive
  <1> HIDE DEF c
  <1>8. FindingOf(G, ind, f) = Finding(s, Derive(c))
    BY <1>4, <1>6, FindingOfFact DEF c
  <1>9. s \in DOMAIN all /\ findingStateRank[Derive(c)] <= findingStateRank[all[s]]
    <2>1. Outranked(Finding(s, Derive(c)), all)
      BY <1>6, <1>8 DEF Derived
    <2>2. DOMAIN Finding(s, Derive(c)) = {s} /\ Finding(s, Derive(c))[s] = Derive(c)
      BY DEF Finding
    <2> QED BY <2>1, <2>2 DEF Outranked
  <1>10. all[s] \in {"CONFIRMED_EXECUTED", "CONFIRMED_DOWNLOADED",
                     "CONFIRMED_CALLED_WORKFLOW", "CONTRADICTORY_EVIDENCE"}
    <2>1. all[s] \in States
      BY <1>9 DEF Derived
    <2> QED BY <1>7, <1>9, <2>1, Ranks DEF States, Positive
  <1> QED BY <1>9, <1>10

\* What was confirmed of a job or attempt stays confirmed, or is contradicted, at
\* every later replay: the fact it rests on is still in the archive, and what
\* may stand for it confirms no less.
THEOREM ConfirmedTheorem == Spec => ConfirmedStands
  <1> DEFINE Stands(ind, s) ==
               LET before == Confirmed(findings[ind], JobOf(s))
                   after  == Confirmed(findings'[ind], JobOf(s))
                   shadow == \E obs \in Observations :
                               JobOf(obs.subject) = JobOf(s) /\ Shadowed(facts, ind, obs)
               IN  ~shadow /\ ~Disputed(findings'[ind], JobOf(s)) =>
                     /\ "CONFIRMED_EXECUTED" \in before => "CONFIRMED_EXECUTED" \in after
                     /\ before # {} => after # {}
  <1>1. ASSUME Inv, Next PROVE \A ind \in Indicators : \A s \in DOMAIN findings[ind] : Stands(ind, s)
    <2>1. CASE AppendBatch
      <3>1. findings' = findings
        BY <2>1 DEF AppendBatch
      <3> QED BY <3>1
    <2>2. CASE Replay
      <3> SUFFICES ASSUME NEW ind \in Indicators, NEW s \in DOMAIN findings[ind],
                          ~Disputed(findings'[ind], JobOf(s)),
                          ~\E obs \in Observations :
                             JobOf(obs.subject) = JobOf(s) /\ Shadowed(facts, ind, obs)
                   PROVE  LET before == Confirmed(findings[ind], JobOf(s))
                              after  == Confirmed(findings'[ind], JobOf(s))
                          IN  /\ "CONFIRMED_EXECUTED" \in before => "CONFIRMED_EXECUTED" \in after
                              /\ before # {} => after # {}
        OBVIOUS
      <3> DEFINE f == findings[ind]
                 g == findings'[ind]
                 before == Confirmed(f, JobOf(s))
                 after  == Confirmed(g, JobOf(s))
      <3>1. PICK seen : WellFormed(seen) /\ seen \subseteq facts /\ Derived(seen, ind, f)
        BY <1>1 DEF Inv
      <3>2. WellFormed(facts) /\ Derived(facts, ind, g)
        BY <1>1, <2>2, ReplayDerives DEF Inv
      <3>3. \A obs \in OfKind(seen, "action") :
              /\ obs \in OfKind(facts, "action")
              /\ JobOf(obs.subject) = JobOf(s) => ~Shadowed(facts, ind, obs)
        BY <3>1 DEF OfKind, Observations
      <3>4. \A k \in DOMAIN g : JobOf(k) = JobOf(s) => g[k] # "CONTRADICTORY_EVIDENCE"
        BY DEF Disputed
      <3>5. ASSUME NEW k \in DOMAIN f, JobOf(k) = JobOf(s), f[k] = "CONFIRMED_EXECUTED"
            PROVE  "CONFIRMED_EXECUTED" \in after
        <4>1. PICK obs \in OfKind(seen, "action") :
                obs.subject = k /\ Affected(ind, obs) /\ obs.stage = Started
          BY <3>1, <3>5, ExecutedIsStarted
        <4>2. obs \in OfKind(facts, "action")
          BY <3>3
        <4> HIDE DEF g, f, after
        <4>3. k \in DOMAIN g /\ g[k] \in {"CONFIRMED_EXECUTED", "CONTRADICTORY_EVIDENCE"}
          BY <3>2, <4>1, <4>2, StartIsReported
        <4> QED BY <3>4, <3>5, <4>3 DEF Confirmed, after
      <3>6. ASSUME NEW k \in DOMAIN f, JobOf(k) = JobOf(s), f[k] = "CONFIRMED_DOWNLOADED"
            PROVE  after # {}
        <4>1. PICK obs \in OfKind(seen, "action") :
                obs.subject = k /\ Affected(ind, obs) /\ obs.stage = Prepared
          BY <3>1, <3>6, DownloadedIsPrepared
        <4>2. obs \in OfKind(facts, "action") /\ ~Shadowed(facts, ind, obs)
          BY <3>3, <3>6, <4>1
        <4> HIDE DEF g, f, after
        <4>3. PICK m \in DOMAIN g :
                /\ JobOf(m) = JobOf(obs.subject)
                /\ g[m] \in {"CONFIRMED_EXECUTED", "CONFIRMED_DOWNLOADED",
                             "CONTRADICTORY_EVIDENCE"}
          BY <3>2, <4>1, <4>2, PreparationIsReported
        <4> QED BY <3>4, <3>6, <4>1, <4>3 DEF Confirmed, after
      <3>7. ASSUME NEW k \in DOMAIN f, JobOf(k) = JobOf(s), f[k] = "CONFIRMED_CALLED_WORKFLOW"
            PROVE  after # {}
        <4> HIDE DEF g, f, after
        <4>1. PICK m \in DOMAIN g :
                /\ JobOf(m) = JobOf(k)
                /\ g[m] \in {"CONFIRMED_EXECUTED", "CONFIRMED_DOWNLOADED",
                             "CONFIRMED_CALLED_WORKFLOW", "CONTRADICTORY_EVIDENCE"}
          BY <3>1, <3>2, <3>7, CallIsReported
        <4> QED BY <3>4, <3>7, <4>1 DEF Confirmed, after
      <3>8. \A state \in before : \E k \in DOMAIN f : JobOf(k) = JobOf(s) /\ f[k] = state
        BY DEF Confirmed
      <3>9. before \subseteq {"CONFIRMED_EXECUTED", "CONFIRMED_DOWNLOADED", "CONFIRMED_CALLED_WORKFLOW"}
        BY DEF Confirmed
      <3> HIDE DEF before, after, f, g
      <3>10. "CONFIRMED_EXECUTED" \in before => "CONFIRMED_EXECUTED" \in after
        BY <3>5, <3>8
      <3>11. before # {} => after # {}
        BY <3>5, <3>6, <3>7, <3>8, <3>9
      <3> QED BY <3>10, <3>11 DEF before, after, f, g
    <2> HIDE DEF Stands
    <2> QED BY <1>1, <2>1, <2>2 DEF Next
  <1>2. Inv /\ [Next]_vars =>
          [\A ind \in Indicators : \A s \in DOMAIN findings[ind] : Stands(ind, s)]_vars
    <2> HIDE DEF Stands
    <2> QED BY <1>1
  <1> QED BY <1>2, Invariance, PTL DEF Spec, ConfirmedStands

-----------------------------------------------------------------------------
(* The order of the facts decides nothing.                                 *)

\* What the findings of one subject with the states D come to, in every order, if
\* D is unambiguous.
IsVerdict(D, v) ==
  IF \/ "CONTRADICTORY_EVIDENCE" \in D
     \/ "NO_MATCH_CONFIRMED" \in D /\ D \cap Positive # {}
    THEN v = "CONTRADICTORY_EVIDENCE"
    ELSE v \in D /\ \A d \in D : findingStateRank[d] <= findingStateRank[v]

\* The merge of a clean, an unknown and a positive state, and that of two
\* states of one rank, depends on their order.
Unambiguous(D) ==
  /\ ~({"NO_MATCH_CONFIRMED", "UNKNOWN_EVIDENCE_GAP"} \subseteq D /\ D \cap Positive # {})
  /\ ~({"CONFIRMED_DOWNLOADED", "CONFIRMED_CALLED_WORKFLOW"} \subseteq D)

LEMMA StateKinds ==
  /\ \A d \in States : d \in Positive \cup {"CONTRADICTORY_EVIDENCE", "UNKNOWN_EVIDENCE_GAP",
                                            "NO_MATCH_CONFIRMED"}
  /\ Positive \subseteq States
  /\ \A d \in Positive : findingStateRank[d] \in 40 .. 90
  /\ \A d \in Positive : d \notin {"CONTRADICTORY_EVIDENCE", "UNKNOWN_EVIDENCE_GAP",
                                   "NO_MATCH_CONFIRMED"}
  BY Ranks DEF States, Positive

LEMMA VerdictIsUnique ==
  ASSUME NEW D, D \subseteq States, Unambiguous(D), NEW v, IsVerdict(D, v), NEW w, IsVerdict(D, w)
  PROVE  v = w
  <1>1. CASE \/ "CONTRADICTORY_EVIDENCE" \in D
             \/ "NO_MATCH_CONFIRMED" \in D /\ D \cap Positive # {}
    BY <1>1 DEF IsVerdict
  <1>2. CASE ~(\/ "CONTRADICTORY_EVIDENCE" \in D
               \/ "NO_MATCH_CONFIRMED" \in D /\ D \cap Positive # {})
    <2>1. /\ v \in D /\ w \in D
          /\ findingStateRank[v] <= findingStateRank[w]
          /\ findingStateRank[w] <= findingStateRank[v]
      BY <1>2 DEF IsVerdict
    <2>2. v \in States /\ w \in States
      BY <2>1
    <2>3. {v, w} # {"CONFIRMED_DOWNLOADED", "CONFIRMED_CALLED_WORKFLOW"}
      BY <2>1 DEF Unambiguous
    <2> QED BY <2>1, <2>2, <2>3, Ranks DEF States, Positive
  <1> QED BY <1>1, <1>2

LEMMA VerdictGrows ==
  ASSUME NEW D, D \subseteq States, NEW v \in States, IsVerdict(D, v), D # {},
         NEW x \in States, Unambiguous(D \cup {x})
  PROVE  IsVerdict(D \cup {x}, mergeFindingRevisions(v, x))
  <1> DEFINE E == D \cup {x}
             CON == "CONTRADICTORY_EVIDENCE"
             NO  == "NO_MATCH_CONFIRMED"
  <1>1. CASE CON \in E
    <2>1. v = CON \/ x = CON
      BY <1>1 DEF IsVerdict
    <2> QED BY <1>1, <2>1 DEF IsVerdict, mergeFindingRevisions
  <1>2. CASE CON \notin E /\ NO \in E /\ E \cap Positive # {}
    <2>1. \A d \in E : d = NO \/ d \in Positive
      BY <1>2, StateKinds DEF Unambiguous
    <2>2. CASE NO \in D /\ D \cap Positive # {}
      BY <2>2, <1>2 DEF IsVerdict, mergeFindingRevisions
    <2>3. CASE x = NO /\ NO \notin D
      <3>1. v \in D
        BY <2>3, <1>2 DEF IsVerdict
      <3>2. v \in Positive
        BY <2>1, <2>3, <3>1
      <3> QED BY <1>2, <2>3, <3>2 DEF IsVerdict, mergeFindingRevisions
    <2>4. CASE x \in Positive /\ D \cap Positive = {}
      <3>1. v \in D
        BY <2>4, <1>2 DEF IsVerdict
      <3>2. v = NO
        BY <2>1, <2>4, <3>1
      <3> QED BY <1>2, <2>4, <3>2 DEF IsVerdict, mergeFindingRevisions
    <2> QED BY <1>2, <2>1, <2>2, <2>3, <2>4, StateKinds
  <1>3. CASE CON \notin E /\ ~(NO \in E /\ E \cap Positive # {})
    <2>1. v \in D /\ \A d \in D : findingStateRank[d] <= findingStateRank[v]
      BY <1>3 DEF IsVerdict
    <2>2. mergeFindingRevisions(v, x) =
            IF findingStateRank[x] > findingStateRank[v] THEN x ELSE v
      BY <1>3, <2>1 DEF mergeFindingRevisions
    <2>3. \A d \in E : findingStateRank[d] \in Nat
      BY RankNat
    <2>4. mergeFindingRevisions(v, x) \in E
      BY <2>1, <2>2
    <2>5. \A d \in E : findingStateRank[d] <= findingStateRank[mergeFindingRevisions(v, x)]
      BY <2>1, <2>2, <2>3
    <2> QED BY <1>3, <2>4, <2>5 DEF IsVerdict
  <1> QED BY <1>1, <1>2, <1>3

\* The state that some findings have for a subject, if they have one.
At(found, s) == {found[k] : k \in DOMAIN found \cap {s}}

\* The finding of a subject is what the states D come to.
Settles(D, found, s) ==
  /\ s \in DOMAIN found <=> D # {}
  /\ s \in DOMAIN found => IsVerdict(D, found[s])

LEMMA AtSubject ==
  ASSUME NEW found, IsFindings(found), NEW s
  PROVE  /\ At(found, s) \subseteq States
         /\ s \in DOMAIN found => At(found, s) = {found[s]}
         /\ s \notin DOMAIN found => At(found, s) = {}
         /\ \A state : state \in At(found, s) <=> Concludes(found, s, state)
  BY DEF At, IsFindings, Concludes

LEMMA CoalesceSettles ==
  ASSUME NEW D, D \subseteq States, NEW earlier, NEW later, IsFindings(earlier), IsFindings(later),
         NEW s, Settles(D, earlier, s), Unambiguous(D \cup At(later, s))
  PROVE  Settles(D \cup At(later, s), coalesceIndicatorFindings(earlier, later), s)
  <1> DEFINE all == coalesceIndicatorFindings(earlier, later)
  <1>1. DOMAIN all = DOMAIN earlier \cup DOMAIN later
    BY DEF coalesceIndicatorFindings
  <1>2. CASE s \notin DOMAIN later
    <2>1. At(later, s) = {} /\ (s \in DOMAIN earlier => all[s] = earlier[s])
      BY <1>2, AtSubject DEF coalesceIndicatorFindings
    <2>2. D \cup At(later, s) = D
      BY <2>1
    <2> HIDE DEF all
    <2> QED BY <1>1, <1>2, <2>1, <2>2 DEF Settles, all
  <1>3. CASE s \in DOMAIN later /\ s \notin DOMAIN earlier
    <2>1. At(later, s) = {later[s]} /\ all[s] = later[s]
      BY <1>3, AtSubject DEF coalesceIndicatorFindings
    <2>2. D = {} /\ later[s] \in States
      BY <1>3 DEF Settles, IsFindings
    <2>3. IsVerdict({later[s]}, later[s])
      <3>1. findingStateRank[later[s]] <= findingStateRank[later[s]]
        BY <2>2, RankNat
      <3> QED BY <3>1, StateKinds DEF IsVerdict
    <2>4. D \cup At(later, s) = {later[s]}
      BY <2>1, <2>2
    <2> HIDE DEF all
    <2> QED BY <1>1, <1>3, <2>1, <2>3, <2>4 DEF Settles, all
  <1>4. CASE s \in DOMAIN later /\ s \in DOMAIN earlier
    <2>1. At(later, s) = {later[s]} /\ all[s] = mergeFindingRevisions(earlier[s], later[s])
      BY <1>4, AtSubject DEF coalesceIndicatorFindings
    <2>2. /\ D # {} /\ IsVerdict(D, earlier[s])
          /\ earlier[s] \in States /\ later[s] \in States
      BY <1>4 DEF Settles, IsFindings
    <2>3. IsVerdict(D \cup {later[s]}, mergeFindingRevisions(earlier[s], later[s]))
      BY <2>1, <2>2, VerdictGrows
    <2> HIDE DEF all
    <2> QED BY <1>1, <1>4, <2>1, <2>3 DEF Settles, all
  <1> QED BY <1>2, <1>3, <1>4

\* However many findings are coalesced, each subject comes to the verdict of all.
LEMMA FoldSettles ==
  ASSUME NEW L \in Nat, NEW each, NEW found, IsFindings(found[0]),
         \A n \in 1 .. L : IsFindings(each[n]),
         \A n \in 1 .. L : found[n] = coalesceIndicatorFindings(found[n - 1], each[n]),
         NEW s, NEW D, D = At(found[0], s) \cup UNION {At(each[i], s) : i \in 1 .. L},
         Unambiguous(D)
  PROVE  IsFindings(found[L]) /\ Settles(D, found[L], s)
  <1> DEFINE Upto(n) == At(found[0], s) \cup UNION {At(each[i], s) : i \in 1 .. n}
             Good == {n \in 0 .. L : IsFindings(found[n]) /\ Settles(Upto(n), found[n], s)}
  <1>1. \A n \in 0 .. L : Upto(n) \subseteq States /\ Upto(n) \subseteq D /\ Unambiguous(Upto(n))
    <2> SUFFICES ASSUME NEW n \in 0 .. L
                 PROVE  Upto(n) \subseteq States /\ Upto(n) \subseteq D /\ Unambiguous(Upto(n))
      OBVIOUS
    <2>1. 1 .. n \subseteq 1 .. L
      OBVIOUS
    <2>2. Upto(n) \subseteq D
      BY <2>1
    <2>3. At(found[0], s) \subseteq States /\ \A i \in 1 .. n : At(each[i], s) \subseteq States
      BY <2>1, AtSubject
    <2>4. Upto(n) \subseteq States
      BY <2>3
    <2> HIDE DEF Upto
    <2> QED BY <2>2, <2>4 DEF Unambiguous
  <1>2. 0 \in Good
    <2>1. Upto(0) = At(found[0], s)
      OBVIOUS
    <2>2. ASSUME s \in DOMAIN found[0] PROVE IsVerdict({found[0][s]}, found[0][s])
      <3>1. found[0][s] \in States
        BY <2>2 DEF IsFindings
      <3>2. findingStateRank[found[0][s]] <= findingStateRank[found[0][s]]
        BY <3>1, RankNat
      <3> QED BY <3>1, <3>2, StateKinds DEF IsVerdict
    <2>3. Settles(At(found[0], s), found[0], s)
      BY <2>2, AtSubject DEF Settles
    <2> QED BY <2>1, <2>3
  <1>3. ASSUME NEW n \in 1 .. L, n - 1 \in Good PROVE n \in Good
    <2>1. n \in 0 .. L /\ n - 1 \in 0 .. L
      OBVIOUS
    <2>2. Upto(n) = Upto(n - 1) \cup At(each[n], s)
      <3>1. 1 .. n = (1 .. n - 1) \cup {n}
        OBVIOUS
      <3> QED BY <3>1
    <2>3. IsFindings(found[n - 1]) /\ Settles(Upto(n - 1), found[n - 1], s)
      BY <1>3
    <2>4. IsFindings(each[n]) /\ found[n] = coalesceIndicatorFindings(found[n - 1], each[n])
      OBVIOUS
    <2>5. IsFindings(found[n])
      BY <2>3, <2>4, CoalesceClimbs
    <2>6. Upto(n - 1) \subseteq States /\ Unambiguous(Upto(n - 1) \cup At(each[n], s))
      <3> HIDE DEF Upto
      <3> QED BY <1>1, <2>1, <2>2
    <2>7. Settles(Upto(n), found[n], s)
      <3> HIDE DEF Upto
      <3> QED BY <2>2, <2>3, <2>4, <2>6, CoalesceSettles
    <2> QED BY <2>1, <2>5, <2>7
  <1>4. L \in Good
    <2> HIDE DEF Good
    <2> QED BY <1>2, <1>3, StepByStep
  <1> QED BY <1>4

\* The states that the facts of a kind give a subject.
StatesOf(F, ind, kind, s) == UNION {At(FindingOf(F, ind, f), s) : f \in OfKind(F, kind)}

LEMMA StatesOfFacts ==
  ASSUME NEW F, NEW ind, NEW kind, NEW s
  PROVE  /\ StatesOf(F, ind, kind, s) \subseteq States
         /\ \A state : state \in StatesOf(F, ind, kind, s) <=>
              \E f \in OfKind(F, kind) : Concludes(FindingOf(F, ind, f), s, state)
  BY FindingOfIsFindings, AtSubject DEF StatesOf

\* The findings of the facts as a function of the facts: what the observations
\* of a subject come to, and what that and its references come to.
Settled(F, ind, exact) ==
  /\ IsFindings(exact)
  /\ \E seen : /\ IsFindings(seen)
               /\ \A s : /\ Settles(StatesOf(F, ind, "action", s), seen, s)
                         /\ Settles(At(seen, s) \cup StatesOf(F, ind, "dependency", s), exact, s)

\* What is clean or a download rests on an observation that names a commit or a digest.
LEMMA StateOfAction ==
  ASSUME NEW F, WellFormed(F), NEW ind, NEW s, NEW state \in StatesOf(F, ind, "action", s)
  PROVE  \E obs \in OfKind(F, "action") :
           /\ ActionConsidered(F, ind, obs) /\ obs.subject = s
           /\ state = Derive(ActionCandidate(F, obs))
  <1>1. PICK f \in OfKind(F, "action") : Concludes(FindingOf(F, ind, f), s, state)
    BY StatesOfFacts
  <1>2. ~DependencyConsidered(F, ind, f)
    BY DEF OfKind, DependencyConsidered
  <1> QED BY <1>1, <1>2, ConcludedByFact

LEMMA StateOfDependency ==
  ASSUME NEW F, NEW ind, NEW s, NEW state \in StatesOf(F, ind, "dependency", s)
  PROVE  \E dep \in OfKind(F, "dependency") :
           /\ DependencyConsidered(F, ind, dep) /\ JobOf(dep.subject) = s
           /\ state = Derive(DependencyCandidate(F, ind, dep))
  <1>1. PICK f \in OfKind(F, "dependency") : Concludes(FindingOf(F, ind, f), s, state)
    BY StatesOfFacts
  <1>2. ~ActionConsidered(F, ind, f)
    BY DEF OfKind, ActionConsidered
  <1> QED BY <1>1, <1>2, ConcludedByFact

\* What an observation may come to.
LEMMA ActionStates ==
  ASSUME NEW F, NEW obs
  PROVE  LET state == Derive(ActionCandidate(F, obs))
         IN  /\ state \in {"CONTRADICTORY_EVIDENCE", "UNKNOWN_EVIDENCE_GAP", "NO_MATCH_CONFIRMED",
                           "CONFIRMED_EXECUTED", "CONFIRMED_DOWNLOADED"}
             /\ state \in {"CONFIRMED_EXECUTED", "CONFIRMED_DOWNLOADED"} =>
                  /\ ~runtimeKnownGood(obs) /\ obs.stage \in {Prepared, Started}
             /\ state = "NO_MATCH_CONFIRMED" =>
                  /\ requiredNegativeCoverageClosed(F, obs.subject)
                  /\ ~hasMaterialGap(F, obs.subject)
             /\ state = "UNKNOWN_EVIDENCE_GAP" =>
                  \/ ~requiredNegativeCoverageClosed(F, obs.subject)
                  \/ hasMaterialGap(F, obs.subject)
                  \/ obs.stage = Announced /\ ~runtimeKnownGood(obs)
  <1> DEFINE c == ActionCandidate(F, obs)
  <1>1. /\ "exact runtime" \in c
        /\ "gap" \in c <=> hasMaterialGap(F, obs.subject)
        /\ "closed" \in c <=> requiredNegativeCoverageClosed(F, obs.subject)
        /\ "known good" \in c <=> runtimeKnownGood(obs)
        /\ "announced only" \in c <=> obs.stage = Announced
        /\ "prepared" \in c <=> obs.stage \in {Prepared, Started}
        /\ "started" \in c <=> obs.stage = Started
        /\ c \cap {"called workflow", "declared", "mutable ref", "transitive", "current only"} = {}
    BY RuntimeFlagsMean
  <1> HIDE DEF c
  <1>2. /\ Derive(c) \in {"CONTRADICTORY_EVIDENCE", "UNKNOWN_EVIDENCE_GAP", "NO_MATCH_CONFIRMED",
                          "CONFIRMED_EXECUTED", "CONFIRMED_DOWNLOADED"}
        /\ Derive(c) \in {"CONFIRMED_EXECUTED", "CONFIRMED_DOWNLOADED"} =>
             "known good" \notin c /\ ("started" \in c \/ "prepared" \in c)
        /\ Derive(c) = "NO_MATCH_CONFIRMED" => "closed" \in c /\ "gap" \notin c
        /\ Derive(c) = "UNKNOWN_EVIDENCE_GAP" =>
             \/ "closed" \notin c \/ "gap" \in c
             \/ "announced only" \in c /\ "known good" \notin c
    BY <1>1 DEF Derive
  <1> QED BY <1>1, <1>2 DEF c

\* The observations of a subject are unambiguous: they share the coverage of
\* their job, and an announcement that is not known-good gives way to a
\* preparation or start of the indicator's identity.
LEMMA ActionsAreUnambiguous ==
  ASSUME NEW F, WellFormed(F), NEW ind, NEW s
  PROVE  Unambiguous(StatesOf(F, ind, "action", s))
  <1> DEFINE D == StatesOf(F, ind, "action", s)
  <1>1. "CONFIRMED_CALLED_WORKFLOW" \notin D
    <2> SUFFICES ASSUME NEW state \in D PROVE state # "CONFIRMED_CALLED_WORKFLOW"
      OBVIOUS
    <2> QED BY StateOfAction, ActionStates
  <1>2. ASSUME "NO_MATCH_CONFIRMED" \in D, "UNKNOWN_EVIDENCE_GAP" \in D, NEW state \in D \cap Positive
        PROVE  FALSE
    <2>1. PICK a \in OfKind(F, "action") :
            /\ a.subject = s /\ Derive(ActionCandidate(F, a)) = "NO_MATCH_CONFIRMED"
      BY <1>2, StateOfAction
    <2>2. PICK b \in OfKind(F, "action") :
            /\ ActionConsidered(F, ind, b) /\ b.subject = s
            /\ Derive(ActionCandidate(F, b)) = "UNKNOWN_EVIDENCE_GAP"
      BY <1>2, StateOfAction
    <2>3. PICK c \in OfKind(F, "action") :
            /\ ActionConsidered(F, ind, c) /\ c.subject = s
            /\ Derive(ActionCandidate(F, c)) = state
      BY StateOfAction
    <2>4. requiredNegativeCoverageClosed(F, s) /\ ~hasMaterialGap(F, s)
      BY <2>1, ActionStates
    <2>5. b.stage = Announced /\ ~runtimeKnownGood(b)
      BY <2>2, <2>4, ActionStates
    <2>6. ~runtimeKnownGood(c) /\ c.stage \in {Prepared, Started}
      <3>1. state \in {"CONFIRMED_EXECUTED", "CONFIRMED_DOWNLOADED"}
        BY <2>3, ActionStates, StateKinds
      <3> QED BY <2>3, <3>1, ActionStates
    <2>7. runtimeIdentityMatches(ind, c)
      BY <2>3, <2>6 DEF ActionConsidered
    <2>8. strongerRuntimeObservationExists(F, b, ind)
      <3>1. sameExecutionSubject(c.subject, b.subject)
        BY <2>2, <2>3 DEF sameExecutionSubject
      <3> QED BY <2>5, <2>6, <2>7, <3>1, StageOrder DEF strongerRuntimeObservationExists
    <2> QED BY <2>2, <2>8 DEF ActionConsidered
  <1> QED BY <1>1, <1>2 DEF Unambiguous

\* What a reference may come to.
LEMMA DependencyStates ==
  ASSUME NEW F, NEW ind, NEW dep
  PROVE  LET state == Derive(DependencyCandidate(F, ind, dep))
         IN  /\ state \notin {"NO_MATCH_CONFIRMED", "CONFIRMED_EXECUTED", "CONFIRMED_DOWNLOADED"}
             /\ state = "CONFIRMED_CALLED_WORKFLOW" => ind.kind = "reusable-workflow-commit"
             /\ state = "UNKNOWN_EVIDENCE_GAP" =>
                  IsMutable(ind) /\ dep.basis # "current" /\ ~(dep.depth > 0)
  <1> DEFINE c == DependencyCandidate(F, ind, dep)
  <1>1. /\ "exact runtime" \notin c
        /\ "mutable ref" \in c => IsMutable(ind) /\ dep.basis # "current" /\ ~(dep.depth > 0)
        /\ "called workflow" \in c => ind.kind = "reusable-workflow-commit"
        /\ \/ "current only" \in c \/ "called workflow" \in c \/ "transitive" \in c
           \/ "declared" \in c \/ {"mutable ref", "gap"} \subseteq c
    BY DependencyFlags
  <1> HIDE DEF c
  <1>2. /\ Derive(c) \notin {"NO_MATCH_CONFIRMED", "CONFIRMED_EXECUTED", "CONFIRMED_DOWNLOADED"}
        /\ Derive(c) = "CONFIRMED_CALLED_WORKFLOW" => "called workflow" \in c
        /\ Derive(c) = "UNKNOWN_EVIDENCE_GAP" => "mutable ref" \in c
    BY <1>1 DEF Derive
  <1> QED BY <1>1, <1>2 DEF c

\* The references of a subject do not make it ambiguous: only a mutable reference
\* comes to an unknown, and where an observation came to a clean finding an exact
\* runtime identity is known, so that it does not count.
LEMMA DependenciesAreUnambiguous ==
  ASSUME NEW F, WellFormed(F), NEW ind, NEW s, NEW seen, IsFindings(seen),
         Settles(StatesOf(F, ind, "action", s), seen, s)
  PROVE  Unambiguous(At(seen, s) \cup StatesOf(F, ind, "dependency", s))
  <1> DEFINE A == StatesOf(F, ind, "action", s)
             D == StatesOf(F, ind, "dependency", s)
  <1>1. \A state \in At(seen, s) : state \in A \/ state = "CONTRADICTORY_EVIDENCE"
    <2> HIDE DEF A
    <2> QED BY AtSubject DEF Settles, IsVerdict, A
  <1>2. "NO_MATCH_CONFIRMED" \notin D /\ "CONFIRMED_DOWNLOADED" \notin D
    <2> SUFFICES ASSUME NEW state \in D
                 PROVE  state \notin {"NO_MATCH_CONFIRMED", "CONFIRMED_DOWNLOADED"}
      OBVIOUS
    <2> QED BY StateOfDependency, DependencyStates
  <1>3. "CONFIRMED_CALLED_WORKFLOW" \notin A
    <2> SUFFICES ASSUME NEW state \in A PROVE state # "CONFIRMED_CALLED_WORKFLOW"
      OBVIOUS
    <2> QED BY StateOfAction, ActionStates
  <1>4. ASSUME "NO_MATCH_CONFIRMED" \in A, "UNKNOWN_EVIDENCE_GAP" \in D PROVE FALSE
    <2>1. PICK obs \in OfKind(F, "action") : ActionConsidered(F, ind, obs) /\ obs.subject = s
      BY <1>4, StateOfAction
    <2>2. PICK dep \in OfKind(F, "dependency") :
            /\ DependencyConsidered(F, ind, dep) /\ JobOf(dep.subject) = s
            /\ Derive(DependencyCandidate(F, ind, dep)) = "UNKNOWN_EVIDENCE_GAP"
      BY <1>4, StateOfDependency
    <2>3. IsMutable(ind) /\ ~hasExactRuntime(F, dep.subject)
      BY <2>2, DependencyStates DEF DependencyConsidered
    <2>4. obs.source # None \/ obs.digest # None
      BY <2>1, <2>3 DEF ActionConsidered, runtimeIdentityMatches, runtimeKnownGood, IsMutable
    <2>5. sameExecutionSubject(obs.subject, dep.subject)
      <3>1. dep.subject = [attempt |-> dep.subject.attempt, job |-> dep.subject.job,
                           step |-> dep.subject.step]
        BY DEF WellFormed, OfKind
      <3>2. JobOf(dep.subject) = [attempt |-> dep.subject.attempt, job |-> dep.subject.job,
                                  step |-> None]
        BY <3>1 DEF JobOf
      <3> QED BY <2>1, <2>2, <3>2 DEF sameExecutionSubject
    <2> QED BY <2>3, <2>4, <2>5 DEF hasExactRuntime
  <1>5. ASSUME "CONFIRMED_DOWNLOADED" \in A, "CONFIRMED_CALLED_WORKFLOW" \in D PROVE FALSE
    <2>1. PICK obs \in OfKind(F, "action") :
            /\ ActionConsidered(F, ind, obs)
            /\ Derive(ActionCandidate(F, obs)) = "CONFIRMED_DOWNLOADED"
      BY <1>5, StateOfAction
    <2>2. runtimeIdentityMatches(ind, obs)
      BY <2>1, ActionStates DEF ActionConsidered
    <2>3. ind.kind = "reusable-workflow-commit"
      BY <1>5, StateOfDependency, DependencyStates
    <2> QED BY <2>2, <2>3 DEF runtimeIdentityMatches
  <1>6. \A state \in At(seen, s) \cap {"NO_MATCH_CONFIRMED", "CONFIRMED_DOWNLOADED",
                                      "CONFIRMED_CALLED_WORKFLOW"} : state \in A
    BY <1>1
  <1>7. \A v \in At(seen, s), w \in At(seen, s) : v = w
    BY DEF At
  <1> HIDE DEF A, D
  <1>8. ASSUME "NO_MATCH_CONFIRMED" \in At(seen, s) \cup D,
               "UNKNOWN_EVIDENCE_GAP" \in At(seen, s) \cup D
        PROVE  FALSE
    BY <1>2, <1>4, <1>6, <1>7, <1>8
  <1>9. ASSUME "CONFIRMED_DOWNLOADED" \in At(seen, s) \cup D,
               "CONFIRMED_CALLED_WORKFLOW" \in At(seen, s) \cup D
        PROVE  FALSE
    BY <1>2, <1>3, <1>5, <1>6, <1>9
  <1> QED BY <1>8, <1>9 DEF Unambiguous, D

LEMMA EveryOrderSettles ==
  ASSUME NEW F, WellFormed(F), NEW order \in Orders(F), NEW ind
  PROVE  Settled(F, ind, ExactFindings(F, order, ind))
  <1> DEFINE exact == ExactFindings(F, order, ind)
  <1>1. PICK k \in Nat, m \in Nat : Parts(F, order, k, m)
    <2>1. IsFiniteSet(F)
      BY DEF WellFormed
    <2> QED BY <2>1, PartsOfOrder
  <1>2. PICK found :
          /\ found[0] = <<>>
          /\ \A n \in 1 .. Len(order) :
               found[n] = coalesceIndicatorFindings(found[n - 1], FindingOf(F, ind, order[n]))
          /\ exact = found[Len(order)]
    <2>1. Len(order) \in Nat
      BY <1>1 DEF Parts
    <2> HIDE DEF exact
    <2>2. \E found : FoundSoFar(found, F, order, ind)
      BY <2>1, FoldOfFacts, Zenon
    <2>3. exact = ExactFindings(F, order, ind)
      BY DEF exact
    <2> QED BY <2>2, <2>3, Zenon DEF FoundSoFar
  <1> HIDE DEF exact
  <1> DEFINE actions == [n \in 1 .. k |-> FindingOf(F, ind, order[n])]
             later == [n \in 0 .. m |-> found[k + n]]
             dependencies == [n \in 1 .. m |-> FindingOf(F, ind, order[k + n])]
             seen == found[k]
  <1>3. ASSUME NEW s PROVE IsFindings(seen) /\ Settles(StatesOf(F, ind, "action", s), seen, s)
    <2>1. IsFindings(found[0]) /\ At(found[0], s) = {}
      BY <1>2 DEF IsFindings, At
    <2>2. \A n \in 1 .. k : IsFindings(actions[n])
      BY FindingOfIsFindings
    <2>3. \A n \in 1 .. k : found[n] = coalesceIndicatorFindings(found[n - 1], actions[n])
      BY <1>1, <1>2 DEF Parts
    <2>4. StatesOf(F, ind, "action", s) = At(found[0], s) \cup UNION {At(actions[i], s) : i \in 1 .. k}
      <3>1. \A i \in 1 .. k : At(actions[i], s) = At(FindingOf(F, ind, order[i]), s)
        OBVIOUS
      <3> HIDE DEF actions
      <3> QED BY <1>1, <2>1, <3>1 DEF StatesOf, Parts
    <2>5. Unambiguous(StatesOf(F, ind, "action", s))
      BY ActionsAreUnambiguous
    <2> HIDE DEF actions
    <2> QED BY <2>1, <2>2, <2>3, <2>4, <2>5, FoldSettles
  <1>4. ASSUME NEW s
        PROVE  /\ IsFindings(exact)
               /\ Settles(At(seen, s) \cup StatesOf(F, ind, "dependency", s), exact, s)
    <2>1. later[0] = seen /\ later[m] = exact
      BY <1>1, <1>2 DEF Parts
    <2>2. \A n \in 1 .. m : IsFindings(dependencies[n])
      BY FindingOfIsFindings
    <2>3. ASSUME NEW n \in 1 .. m
          PROVE  later[n] = coalesceIndicatorFindings(later[n - 1], dependencies[n])
      <3>1. /\ n \in 0 .. m /\ n - 1 \in 0 .. m
            /\ k + n \in 1 .. Len(order) /\ k + n - 1 = k + (n - 1)
        BY <1>1 DEF Parts
      <3> QED BY <1>2, <3>1
    <2>4. StatesOf(F, ind, "dependency", s) = UNION {At(dependencies[i], s) : i \in 1 .. m}
      <3>1. \A i \in 1 .. m : At(dependencies[i], s) = At(FindingOf(F, ind, order[k + i]), s)
        OBVIOUS
      <3>2. ASSUME NEW f \in OfKind(F, "dependency")
            PROVE  \E i \in 1 .. m : At(FindingOf(F, ind, f), s) = At(dependencies[i], s)
        <4>1. PICK i \in 1 .. m : order[k + i] = f
          BY <1>1 DEF Parts
        <4> QED BY <3>1, <4>1
      <3>3. ASSUME NEW i \in 1 .. m
            PROVE  \E f \in OfKind(F, "dependency") : At(FindingOf(F, ind, f), s) = At(dependencies[i], s)
        <4>1. order[k + i] \in OfKind(F, "dependency")
          BY <1>1 DEF Parts
        <4> QED BY <3>1, <4>1
      <3> HIDE DEF dependencies
      <3> QED BY <3>2, <3>3 DEF StatesOf
    <2>5. Unambiguous(At(seen, s) \cup StatesOf(F, ind, "dependency", s))
      BY <1>3, DependenciesAreUnambiguous
    <2> HIDE DEF later, dependencies, seen
    <2>6. IsFindings(later[0])
      BY <1>3, <2>1
    <2>7. At(seen, s) \cup StatesOf(F, ind, "dependency", s)
            = At(later[0], s) \cup UNION {At(dependencies[i], s) : i \in 1 .. m}
      BY <2>1, <2>4
    <2>8. IsFindings(later[m])
          /\ Settles(At(seen, s) \cup StatesOf(F, ind, "dependency", s), later[m], s)
      BY <2>2, <2>3, <2>5, <2>6, <2>7, FoldSettles
    <2> QED BY <2>1, <2>8
  <1> QED BY <1>3, <1>4 DEF Settled, exact

\* What the facts settle, they settle once and for all.
LEMMA SettledOnce ==
  ASSUME NEW F, WellFormed(F), NEW G, WellFormed(G), NEW ind,
         NEW here, Settled(F, ind, here), NEW there, Settled(G, ind, there),
         NEW s, \A kind \in {"action", "dependency"} : StatesOf(F, ind, kind, s) = StatesOf(G, ind, kind, s)
  PROVE  At(here, s) = At(there, s)
  <1> DEFINE A == StatesOf(F, ind, "action", s)
             D == StatesOf(F, ind, "dependency", s)
  <1>1. ASSUME NEW a, IsFindings(a), NEW b, IsFindings(b), NEW E, E \subseteq States, Unambiguous(E),
               Settles(E, a, s), Settles(E, b, s)
        PROVE  At(a, s) = At(b, s)
    <2>1. CASE E = {}
      BY <1>1, <2>1, AtSubject DEF Settles
    <2>2. CASE E # {}
      <3>1. a[s] = b[s]
        BY <1>1, <2>2, VerdictIsUnique DEF Settles
      <3> QED BY <1>1, <2>2, <3>1, AtSubject DEF Settles
    <2> QED BY <2>1, <2>2
  <1>2. A = StatesOf(G, ind, "action", s) /\ D = StatesOf(G, ind, "dependency", s)
    OBVIOUS
  <1>3. A \subseteq States /\ D \subseteq States /\ Unambiguous(A)
    BY StatesOfFacts, ActionsAreUnambiguous
  <1>4. PICK x : IsFindings(x) /\ Settles(A, x, s) /\ Settles(At(x, s) \cup D, here, s)
    BY DEF Settled
  <1>5. PICK y : IsFindings(y) /\ Settles(A, y, s) /\ Settles(At(y, s) \cup D, there, s)
    BY <1>2 DEF Settled
  <1>6. Unambiguous(At(x, s) \cup D)
    BY <1>4, DependenciesAreUnambiguous
  <1> HIDE DEF A, D
  <1>7. At(x, s) = At(y, s)
    BY <1>1, <1>3, <1>4, <1>5
  <1>8. At(x, s) \cup D \subseteq States
    BY <1>3, <1>4, AtSubject
  <1>9. IsFindings(here) /\ IsFindings(there)
    BY DEF Settled
  <1> QED BY <1>1, <1>4, <1>5, <1>6, <1>7, <1>8, <1>9

\* The same facts in two orders give the same findings.
LEMMA OrderDecidesNothing ==
  ASSUME NEW F, WellFormed(F), NEW one \in Orders(F), NEW other \in Orders(F), NEW ind
  PROVE  deriveIndicator(F, one, ind) = deriveIndicator(F, other, ind)
  <1> DEFINE here == ExactFindings(F, one, ind)
             there == ExactFindings(F, other, ind)
  <1>1. Settled(F, ind, here) /\ Settled(F, ind, there)
    BY EveryOrderSettles
  <1> HIDE DEF here, there
  <1>2. IsFindings(here) /\ IsFindings(there)
    BY <1>1 DEF Settled
  <1>3. \A s : At(here, s) = At(there, s)
    BY <1>1, SettledOnce
  <1>4. /\ here = [s \in DOMAIN here |-> here[s]]
        /\ there = [s \in DOMAIN there |-> there[s]]
    BY <1>2 DEF IsFindings
  <1>5. DOMAIN here = DOMAIN there
    BY <1>2, <1>3, AtSubject
  <1>6. \A s \in DOMAIN here : here[s] = there[s]
    BY <1>2, <1>3, <1>5, AtSubject
  <1>7. here = there
    BY <1>4, <1>5, <1>6
  <1> QED BY <1>7 DEF deriveIndicator, here, there

\* A second replay of the same archive gives the same findings, in whatever order
\* each replay reads the facts.
THEOREM StableTheorem == Spec => ReplayIsStable
  <1>1. ASSUME Inv, Next, fresh, facts' = facts PROVE findings' = findings
    <2>1. CASE AppendBatch
      BY <2>1 DEF AppendBatch
    <2>2. CASE Replay
      <3>1. PICK one \in Orders(facts) :
              findings = [ind \in Indicators |-> deriveIndicator(facts, one, ind)]
        BY <1>1 DEF Inv
      <3>2. PICK other \in Orders(facts) :
              findings' = [ind \in Indicators |-> deriveIndicator(facts, other, ind)]
        BY <2>2 DEF Replay
      <3>3. WellFormed(facts)
        BY <1>1 DEF Inv
      <3>4. \A ind \in Indicators : deriveIndicator(facts, one, ind) = deriveIndicator(facts, other, ind)
        BY <3>3, OrderDecidesNothing
      <3> QED BY <3>1, <3>2, <3>4
    <2> QED BY <1>1, <2>1, <2>2 DEF Next
  <1>2. Inv /\ [Next]_vars => [fresh /\ facts' = facts => findings' = findings]_vars
    BY <1>1
  <1> QED BY <1>2, Invariance, PTL DEF Spec, ReplayIsStable

-----------------------------------------------------------------------------
(* Nothing is carried from one attempt to another.                         *)

\* A list of a finite set exists, and so does an order of the facts.
LEMMA SomeList ==
  ASSUME NEW S, IsFiniteSet(S) PROVE SetToSeqs(S) # {}
  <1>1. PICK n \in Nat : ExistsBijection(1 .. n, S)
    BY FS_NatBijection
  <1>2. Cardinality(S) = n
    BY <1>1, FS_CountingElements
  <1>3. PICK list : list \in Bijection(1 .. n, S)
    BY <1>1 DEF ExistsBijection
  <1>4. list \in [1 .. n -> S] /\ \A i, j \in 1 .. n : i # j => list[i] # list[j]
    BY <1>3 DEF Bijection, Injection, IsInjective
  <1> QED BY <1>2, <1>4 DEF SetToSeqs

LEMMA SomeOrder ==
  ASSUME NEW F, IsFiniteSet(F) PROVE Orders(F) # {}
  <1>1. IsFiniteSet(OfKind(F, "action")) /\ IsFiniteSet(OfKind(F, "dependency"))
    BY FS_Subset DEF OfKind
  <1>2. PICK a \in SetToSeqs(OfKind(F, "action")) : TRUE
    BY <1>1, SomeList
  <1>3. PICK d \in SetToSeqs(OfKind(F, "dependency")) : TRUE
    BY <1>1, SomeList
  <1>4. a \o d \in Orders(F)
    BY DEF Orders
  <1> QED BY <1>4

Own(F, attempt) == {f \in F : f.subject.attempt = attempt}

LEMMA OwnIsWellFormed ==
  ASSUME NEW F, WellFormed(F), NEW attempt PROVE WellFormed(Own(F, attempt))
  <1>1. IsFiniteSet(Own(F, attempt))
    BY FS_Subset DEF WellFormed, Own
  <1>2. ASSUME NEW obs \in OfKind(Own(F, attempt), "action")
        PROVE  /\ obs.stage \in Failed .. Started
               /\ obs.subject.attempt # None /\ obs.subject.job # None
               /\ obs.subject.step # None <=> obs.stage = Started
               /\ obs.stage = Failed =>
                    \E other \in OfKind(Own(F, attempt), "action") :
                      /\ other.stage = Announced /\ other.subject = obs.subject
                      /\ other.source = obs.source /\ other.digest = obs.digest
    BY DEF WellFormed, OfKind, Own
  <1>3. \A c \in OfKind(Own(F, attempt), "coverage") : c.closed \in BOOLEAN
    BY DEF WellFormed, OfKind, Own
  <1>4. \A f \in Own(F, attempt) :
          f.subject = [attempt |-> f.subject.attempt, job |-> f.subject.job, step |-> f.subject.step]
    BY DEF WellFormed, Own
  <1> QED BY <1>1, <1>2, <1>3, <1>4 DEF WellFormed

\* What is said of the execution of a subject is said of its attempt.
LEMMA SameAttempt ==
  ASSUME NEW F, NEW attempt, attempt # None, NEW subject, subject.attempt = attempt
  PROVE  /\ \A kind : \A f \in OfKind(F, kind) :
              sameExecutionSubject(f.subject, subject) => f \in OfKind(Own(F, attempt), kind)
         /\ \A kind : OfKind(Own(F, attempt), kind) \subseteq OfKind(F, kind)
  BY DEF sameExecutionSubject, OfKind, Own

LEMMA JobIsOfAttempt ==
  ASSUME NEW F, WellFormed(F), NEW f \in F
  PROVE  JobOf(f.subject) = [attempt |-> f.subject.attempt, job |-> f.subject.job, step |-> None]
  <1>1. f.subject = [attempt |-> f.subject.attempt, job |-> f.subject.job, step |-> f.subject.step]
    BY DEF WellFormed
  <1> QED BY <1>1 DEF JobOf

\* Whether an observation counts, and what it comes to, depends on the facts of
\* its attempt only.
LEMMA ActionOfAttempt ==
  ASSUME NEW F, WellFormed(F), NEW attempt, attempt # None,
         NEW obs \in OfKind(F, "action"), obs.subject.attempt = attempt, NEW ind
  PROVE  /\ ActionConsidered(F, ind, obs) <=> ActionConsidered(Own(F, attempt), ind, obs)
         /\ ActionCandidate(F, obs) = ActionCandidate(Own(F, attempt), obs)
  <1> DEFINE G == Own(F, attempt)
  <1>1. /\ \A kind : \A f \in OfKind(F, kind) :
             sameExecutionSubject(f.subject, obs.subject) => f \in OfKind(G, kind)
        /\ \A kind : OfKind(G, kind) \subseteq OfKind(F, kind)
    BY SameAttempt
  <1>2. \A kind : \A f \in OfKind(F, kind) : f.subject.attempt = attempt => f \in OfKind(G, kind)
    BY DEF OfKind, Own
  <1>3. JobOf(obs.subject).attempt = attempt
    <2>1. obs \in F
      BY DEF OfKind
    <2>2. JobOf(obs.subject) = [attempt |-> obs.subject.attempt, job |-> obs.subject.job, step |-> None]
      BY <2>1, JobIsOfAttempt
    <2> QED BY <2>2
  <1> HIDE DEF G
  <1>4. strongerRuntimeObservationExists(F, obs, ind) <=> strongerRuntimeObservationExists(G, obs, ind)
    BY <1>1 DEF strongerRuntimeObservationExists
  <1>5. hasMaterialGap(F, obs.subject) <=> hasMaterialGap(G, obs.subject)
    BY <1>1 DEF hasMaterialGap
  <1>6. requiredNegativeCoverageClosed(F, obs.subject) <=> requiredNegativeCoverageClosed(G, obs.subject)
    <2>1. \A unit : {c \in OfKind(F, "coverage") : c.subject = JobOf(obs.subject) /\ c.unit = unit}
                    = {c \in OfKind(G, "coverage") : c.subject = JobOf(obs.subject) /\ c.unit = unit}
      BY <1>1, <1>2, <1>3
    <2>2. \A gap : gap.subject = JobOf(obs.subject) =>
                     (gap \in OfKind(F, "gap") <=> gap \in OfKind(G, "gap"))
      BY <1>1, <1>2, <1>3
    <2> QED BY <2>1, <2>2 DEF requiredNegativeCoverageClosed
  <1>7. (\E def \in OfKind(F, "dependency") : Contradicts(def, obs))
          <=> (\E def \in OfKind(G, "dependency") : Contradicts(def, obs))
    BY <1>1, <1>2 DEF Contradicts
  <1>8. ActionConsidered(F, ind, obs) <=> ActionConsidered(G, ind, obs)
    BY <1>4 DEF ActionConsidered
  <1>9. ActionCandidate(F, obs) = ActionCandidate(G, obs)
    BY <1>5, <1>6, <1>7 DEF ActionCandidate, RuntimeFlags, Flag
  <1> QED BY <1>8, <1>9 DEF G

LEMMA DependencyOfAttempt ==
  ASSUME NEW F, NEW attempt, attempt # None,
         NEW dep \in OfKind(F, "dependency"), dep.subject.attempt = attempt, NEW ind
  PROVE  /\ DependencyConsidered(F, ind, dep) <=> DependencyConsidered(Own(F, attempt), ind, dep)
         /\ DependencyCandidate(F, ind, dep) = DependencyCandidate(Own(F, attempt), ind, dep)
  <1> DEFINE G == Own(F, attempt)
  <1>1. /\ \A kind : \A f \in OfKind(F, kind) :
             sameExecutionSubject(f.subject, dep.subject) => f \in OfKind(G, kind)
        /\ \A kind : OfKind(G, kind) \subseteq OfKind(F, kind)
    BY SameAttempt
  <1>2. \A kind : \A f \in OfKind(F, kind) : f.subject.attempt = attempt => f \in OfKind(G, kind)
    BY DEF OfKind, Own
  <1>3. (\E c \in F : c.kind \in {"coverage", "gap"} /\ sameExecutionSubject(c.subject, dep.subject))
          <=> (\E c \in G : c.kind \in {"coverage", "gap"} /\ sameExecutionSubject(c.subject, dep.subject))
    BY DEF Own, sameExecutionSubject
  <1> HIDE DEF G
  <1>4. hasExactRuntime(F, dep.subject) <=> hasExactRuntime(G, dep.subject)
    BY <1>1 DEF hasExactRuntime
  <1>5. (\E obs \in OfKind(F, "action") : Contradicts(dep, obs))
          <=> (\E obs \in OfKind(G, "action") : Contradicts(dep, obs))
    BY <1>1, <1>2 DEF Contradicts
  <1>6. DependencyConsidered(F, ind, dep) <=> DependencyConsidered(G, ind, dep)
    BY <1>4 DEF DependencyConsidered
  <1>7. DependencyCandidate(F, ind, dep) = DependencyCandidate(G, ind, dep)
    BY <1>3, <1>5 DEF DependencyCandidate, Flag
  <1> QED BY <1>6, <1>7 DEF G

\* The states of a subject come from the facts of its attempt.
LEMMA StatesOfAttempt ==
  ASSUME NEW F, WellFormed(F), NEW attempt, attempt # None, NEW ind, NEW s, s.attempt = attempt,
         NEW kind \in {"action", "dependency"}
  PROVE  StatesOf(F, ind, kind, s) = StatesOf(Own(F, attempt), ind, kind, s)
  <1> DEFINE G == Own(F, attempt)
  <1>1. ASSUME NEW f \in OfKind(F, kind), f.subject.attempt = attempt
        PROVE  FindingOf(F, ind, f) = FindingOf(G, ind, f)
    <2>1. CASE kind = "action"
      <3>1. ~DependencyConsidered(F, ind, f) /\ ~DependencyConsidered(G, ind, f)
        BY <2>1 DEF OfKind, DependencyConsidered
      <3>2. /\ ActionConsidered(F, ind, f) <=> ActionConsidered(G, ind, f)
            /\ ActionCandidate(F, f) = ActionCandidate(G, f)
        BY <1>1, <2>1, ActionOfAttempt
      <3> HIDE DEF G
      <3> QED BY <3>1, <3>2, FindingOfFact
    <2>2. CASE kind = "dependency"
      <3>1. ~ActionConsidered(F, ind, f) /\ ~ActionConsidered(G, ind, f)
        BY <2>2 DEF OfKind, ActionConsidered
      <3>2. /\ DependencyConsidered(F, ind, f) <=> DependencyConsidered(G, ind, f)
            /\ DependencyCandidate(F, ind, f) = DependencyCandidate(G, ind, f)
        BY <1>1, <2>2, DependencyOfAttempt
      <3> HIDE DEF G
      <3> QED BY <3>1, <3>2, FindingOfFact
    <2> QED BY <2>1, <2>2
  <1>2. ASSUME NEW f \in OfKind(F, kind), NEW state, Concludes(FindingOf(F, ind, f), s, state)
        PROVE  f.subject.attempt = attempt
    <2>1. s = f.subject \/ s = JobOf(f.subject)
      BY <1>2, ConcludedByFact
    <2>2. f \in F
      BY DEF OfKind
    <2>3. JobOf(f.subject) = [attempt |-> f.subject.attempt, job |-> f.subject.job, step |-> None]
      BY <2>2, JobIsOfAttempt
    <2> QED BY <2>1, <2>3
  <1>3. \A f : f \in OfKind(G, kind) <=> f \in OfKind(F, kind) /\ f.subject.attempt = attempt
    BY DEF OfKind, Own
  <1> HIDE DEF G
  <1>4. ASSUME NEW state
        PROVE  state \in StatesOf(F, ind, kind, s) <=> state \in StatesOf(G, ind, kind, s)
    <2>1. ASSUME NEW f \in OfKind(F, kind), Concludes(FindingOf(F, ind, f), s, state)
          PROVE  f \in OfKind(G, kind) /\ Concludes(FindingOf(G, ind, f), s, state)
      BY <1>1, <1>2, <1>3, <2>1
    <2>2. ASSUME NEW f \in OfKind(G, kind), Concludes(FindingOf(G, ind, f), s, state)
          PROVE  f \in OfKind(F, kind) /\ Concludes(FindingOf(F, ind, f), s, state)
      BY <1>1, <1>3, <2>2
    <2> QED BY <2>1, <2>2, StatesOfFacts
  <1>5. StatesOf(F, ind, kind, s) = StatesOf(G, ind, kind, s)
    BY <1>4
  <1> QED BY <1>5 DEF G

\* Gaps add unknowns only: what is concluded of a subject is concluded of the
\* facts, since a clean finding leaves no room for a gap at its subject.
LEMMA GapsConcludeNothing ==
  ASSUME NEW F, WellFormed(F), NEW order \in Orders(F), NEW ind, NEW s, NEW state,
         state # "UNKNOWN_EVIDENCE_GAP"
  PROVE  Concludes(deriveIndicator(F, order, ind), s, state)
           <=> Concludes(ExactFindings(F, order, ind), s, state)
  <1> DEFINE exact == ExactFindings(F, order, ind)
             gaps  == GapFindings(F, exact)
             all   == coalesceIndicatorFindings(exact, gaps)
  <1>1. all = deriveIndicator(F, order, ind)
    BY DEF deriveIndicator
  <1>2. Settled(F, ind, exact)
    BY EveryOrderSettles
  <1>3. /\ \A k \in DOMAIN gaps : gaps[k] = "UNKNOWN_EVIDENCE_GAP"
        /\ \A k \in DOMAIN gaps :
             \E gap \in OfKind(F, "gap") : gap.material /\ k = JobOf(gap.subject)
    <2> HIDE DEF exact
    <2>1. Derive({"gap"}) = "UNKNOWN_EVIDENCE_GAP"
      BY DEF Derive
    <2> HIDE DEF Derive
    <2> QED BY <2>1 DEF GapFindings, GapSubjects
  <1> HIDE DEF exact, gaps
  <1>4. ASSUME s \in DOMAIN exact, exact[s] = "NO_MATCH_CONFIRMED" PROVE s \notin DOMAIN gaps
    <2>1. PICK seen :
            /\ IsFindings(seen)
            /\ Settles(StatesOf(F, ind, "action", s), seen, s)
            /\ Settles(At(seen, s) \cup StatesOf(F, ind, "dependency", s), exact, s)
      BY <1>2 DEF Settled
    <2>2. "NO_MATCH_CONFIRMED" \in At(seen, s) \cup StatesOf(F, ind, "dependency", s)
      BY <1>4, <2>1 DEF Settles, IsVerdict
    <2>3. "NO_MATCH_CONFIRMED" \notin StatesOf(F, ind, "dependency", s)
      <3> SUFFICES ASSUME NEW v \in StatesOf(F, ind, "dependency", s) PROVE v # "NO_MATCH_CONFIRMED"
        OBVIOUS
      <3> QED BY StateOfDependency, DependencyStates
    <2>4. s \in DOMAIN seen /\ seen[s] = "NO_MATCH_CONFIRMED"
      BY <2>1, <2>2, <2>3, AtSubject DEF Concludes
    <2>5. "NO_MATCH_CONFIRMED" \in StatesOf(F, ind, "action", s)
      BY <2>1, <2>4 DEF Settles, IsVerdict
    <2>6. ~hasMaterialGap(F, s)
      BY <2>5, StateOfAction, ActionStates
    <2>7. ASSUME NEW gap \in OfKind(F, "gap"), s = JobOf(gap.subject)
          PROVE  sameExecutionSubject(gap.subject, s)
      <3>1. JobOf(gap.subject) = [attempt |-> gap.subject.attempt, job |-> gap.subject.job, step |-> None]
        BY JobIsOfAttempt DEF OfKind
      <3> QED BY <2>7, <3>1 DEF sameExecutionSubject
    <2> QED BY <1>3, <2>6, <2>7 DEF hasMaterialGap
  <1>5. IsFindings(exact)
    BY <1>2 DEF Settled
  <1>6. CASE s \notin DOMAIN gaps
    <2>1. /\ s \in DOMAIN all <=> s \in DOMAIN exact
          /\ s \in DOMAIN exact => all[s] = exact[s]
      BY <1>6 DEF coalesceIndicatorFindings
    <2> HIDE DEF all
    <2> QED BY <1>1, <2>1 DEF Concludes, exact
  <1>7. CASE s \in DOMAIN gaps /\ s \notin DOMAIN exact
    <2>1. all[s] = "UNKNOWN_EVIDENCE_GAP"
      BY <1>3, <1>7 DEF coalesceIndicatorFindings
    <2> HIDE DEF all
    <2> QED BY <1>1, <1>7, <2>1 DEF Concludes, exact
  <1>8. CASE s \in DOMAIN gaps /\ s \in DOMAIN exact
    <2>1. s \in DOMAIN all /\ all[s] = mergeFindingRevisions(exact[s], "UNKNOWN_EVIDENCE_GAP")
      BY <1>3, <1>8 DEF coalesceIndicatorFindings
    <2>2. exact[s] \in States /\ exact[s] # "NO_MATCH_CONFIRMED"
      BY <1>4, <1>5, <1>8 DEF IsFindings
    <2>3. mergeFindingRevisions(exact[s], "UNKNOWN_EVIDENCE_GAP") = exact[s]
      BY <2>2, Ranks DEF mergeFindingRevisions, States, Positive
    <2> HIDE DEF all
    <2> QED BY <1>1, <1>8, <2>1, <2>3 DEF Concludes, exact
  <1> QED BY <1>6, <1>7, <1>8

\* What a replay concludes about an attempt, other than an unknown, is what it
\* would conclude from the facts of that attempt alone.
THEOREM CarryTheorem == Spec => []NoCarryForward
  <1>1. Inv => NoCarryForward
    <2> SUFFICES ASSUME Inv, fresh, NEW attempt \in {f.subject.attempt : f \in facts} \ {None},
                        NEW ind \in Indicators
                 PROVE  LET own == {f \in facts : f.subject.attempt = attempt}
                        IN  Conclusions(findings[ind], attempt)
                              = Conclusions(deriveIndicator(own, CHOOSE o \in Orders(own) : TRUE, ind),
                                            attempt)
      BY DEF NoCarryForward
    <2> DEFINE own == {f \in facts : f.subject.attempt = attempt}
               list == CHOOSE o \in Orders(own) : TRUE
    <2>1. own = Own(facts, attempt)
      BY DEF Own
    <2>2. WellFormed(facts)
      BY DEF Inv
    <2> HIDE DEF own
    <2>3. WellFormed(own)
      BY <2>1, <2>2, OwnIsWellFormed
    <2>4. list \in Orders(own)
      <3>1. Orders(own) # {}
        BY <2>3, SomeOrder DEF WellFormed
      <3> QED BY <3>1
    <2> HIDE DEF list
    <2>5. PICK order \in Orders(facts) : findings[ind] = deriveIndicator(facts, order, ind)
      BY DEF Inv
    <2> DEFINE here  == ExactFindings(facts, order, ind)
               there == ExactFindings(own, list, ind)
    <2>6. Settled(facts, ind, here) /\ Settled(own, ind, there)
      BY <2>2, <2>3, <2>4, EveryOrderSettles
    <2> HIDE DEF here, there
    <2>7. ASSUME NEW s, s.attempt = attempt, NEW state, state # "UNKNOWN_EVIDENCE_GAP"
          PROVE  Concludes(findings[ind], s, state)
                   <=> Concludes(deriveIndicator(own, list, ind), s, state)
      <3>1. \A kind \in {"action", "dependency"} :
              StatesOf(facts, ind, kind, s) = StatesOf(own, ind, kind, s)
        BY <2>1, <2>2, <2>7, StatesOfAttempt
      <3>2. At(here, s) = At(there, s)
        BY <2>2, <2>3, <2>6, <3>1, SettledOnce
      <3>3. Concludes(here, s, state) <=> Concludes(there, s, state)
        BY <2>6, <3>2, AtSubject DEF Settled
      <3>4. Concludes(findings[ind], s, state) <=> Concludes(here, s, state)
        BY <2>2, <2>5, <2>7, GapsConcludeNothing DEF here
      <3>5. Concludes(deriveIndicator(own, list, ind), s, state) <=> Concludes(there, s, state)
        BY <2>3, <2>4, <2>7, GapsConcludeNothing DEF there
      <3> QED BY <3>3, <3>4, <3>5
    <2>8. \A f : Conclusions(f, attempt) =
                   {<<s, f[s]>> : s \in {k \in DOMAIN f : /\ k.attempt = attempt
                                                       /\ f[k] # "UNKNOWN_EVIDENCE_GAP"}}
      BY DEF Conclusions
    <2>9. ASSUME NEW f, NEW g,
                 \A s, state : s.attempt = attempt /\ state # "UNKNOWN_EVIDENCE_GAP" =>
                   (Concludes(f, s, state) => Concludes(g, s, state))
          PROVE  Conclusions(f, attempt) \subseteq Conclusions(g, attempt)
      BY <2>8, <2>9 DEF Concludes
    <2>10. Conclusions(findings[ind], attempt) = Conclusions(deriveIndicator(own, list, ind), attempt)
      <3> DEFINE f == findings[ind]
                 g == deriveIndicator(own, list, ind)
      <3>1. \A s, state : s.attempt = attempt /\ state # "UNKNOWN_EVIDENCE_GAP" =>
              (Concludes(f, s, state) <=> Concludes(g, s, state))
        BY <2>7
      <3> HIDE DEF f, g
      <3>2. Conclusions(f, attempt) \subseteq Conclusions(g, attempt)
        BY <2>9, <3>1
      <3>3. Conclusions(g, attempt) \subseteq Conclusions(f, attempt)
        BY <2>9, <3>1
      <3> QED BY <3>2, <3>3 DEF f, g
    <2> QED BY <2>10 DEF own, list
  <1> QED BY <1>1, Invariance, PTL
=============================================================================
