-------------------------- MODULE CuratedReadingProofs --------------------------
(***************************************************************************)
(* Proofs about CuratedReading, for any documents, requests, answers,      *)
(* reviews, versions and bounds, by inductive invariants.                  *)
(*                                                                         *)
(* PromotionInv says what the run under way and the last verdict know of   *)
(* the baselines: a version that may still replace one has been compared   *)
(* with it, and a run between its two commits finds no baseline in force.  *)
(* CorpusInv says which rows of a document are on file, or buffered, at    *)
(* each point of a batch or a rebuild.  JudgingInv and CopiesInv say what  *)
(* reconciliation has judged so far, and which copies of a text already    *)
(* share a cluster.  ReaderInv says that what an investigation has read,   *)
(* and what it has announced, is on file still.                            *)
(***************************************************************************)
EXTENDS CuratedReading, FiniteSetTheorems, SequenceTheorems, TLAPS

LOCAL INSTANCE FiniteSetsExt
LOCAL INSTANCE SequencesExt

Ratio == Nat \X Nat

(* The numbers a version is promoted with.                                 *)
Numbers == [canonicalization_f1 : Ratio, canonicalization_precision : Ratio,
            contradiction_precision : Ratio, contradiction_recall : Ratio]

Ontology == Nat \cup {None}

(* Labels can be counted.                                                  *)
GoldenIsFinite == "claim" \in DOMAIN golden /\ IsFiniteSet(golden.claim)

BaselinesAreTyped ==
    \A v \in DOMAIN baselines :
        v \in Nat /\ baselines[v].metrics \in Numbers /\ baselines[v].ontology \in Ontology

OneInForce == \A v, w \in ActiveVersions : v = w

(* No worse than the version it is held against, if that is on file.       *)
NoWorseThan(old, metrics, ontology) ==
    old \in DOMAIN baselines =>
        /\ Regressions(baselines[old].metrics, metrics) = {}
        /\ ~OntologyMajorBump(baselines[old].ontology, ontology)

RunKnows ==
    run # None =>
        /\ run.version \in Versions
        /\ run.step \in {"judge", "align", "persist"} => run.metrics \in Numbers
        /\ run.step \in {"align", "persist"} =>
             /\ verdict = [version |-> run.version.id, against |-> verdict.against,
                           action |-> verdict.action, suite |-> verdict.suite,
                           realized |-> FALSE]
             /\ NoWorseThan(verdict.against, run.metrics, run.version.ontology)
        /\ run.step = "persist" => ActiveVersions = {}

VerdictHolds ==
    verdict # None /\ verdict.realized =>
        /\ run = None
        /\ verdict.version \in ActiveVersions =>
             NoWorseThan(verdict.against, baselines[verdict.version].metrics,
                         baselines[verdict.version].ontology)

PromotionInv ==
    /\ GoldenIsFinite
    /\ BaselinesAreTyped
    /\ OneInForce
    /\ RunKnows
    /\ VerdictHolds
-------------------------------------------------------------------------------
(* Numbers.                                                                *)

(* A proportion is a ratio of naturals, of nothing too.                    *)
LEMMA ProportionIsRatio ==
    ASSUME NEW n \in Nat, NEW d \in Nat
    PROVE  Proportion(n, d) \in Ratio
  BY DEF Proportion, Ratio

(* Counts of a metric are naturals.                                        *)
LEMMA MetricCounts ==
    ASSUME NEW should, NEW shouldNot, NEW found, IsFiniteSet(should), IsFiniteSet(shouldNot)
    PROVE  Metric(should, shouldNot, found) \in [tp : Nat, fp : Nat, fn : Nat]
<1>1. /\ IsFiniteSet(should \cap found)
      /\ IsFiniteSet(shouldNot \cap found)
      /\ IsFiniteSet(should \ found)
  BY FS_Subset
<1> QED
  BY <1>1, FS_CardinalityType DEF Metric

(* So its three figures are ratios.                                        *)
LEMMA MetricsAreRatios ==
    ASSUME NEW m \in [tp : Nat, fp : Nat, fn : Nat]
    PROVE  Precision(m) \in Ratio /\ Recall(m) \in Ratio /\ F1(m) \in Ratio
<1>1. m.tp \in Nat /\ m.fp \in Nat /\ m.fn \in Nat
  OBVIOUS
<1> QED
  <2>1. m.tp + m.fp \in Nat /\ m.tp + m.fn \in Nat
        /\ 2 * m.tp \in Nat /\ 2 * m.tp + m.fp + m.fn \in Nat
    BY <1>1
  <2>2. Precision(m) \in Ratio /\ Recall(m) \in Ratio
    BY <1>1, <2>1, ProportionIsRatio DEF Precision, Recall
  <2>3. F1(m) \in Ratio
    BY <2>1 DEF F1, Ratio
  <2> QED
    BY <2>2, <2>3

(* A snapshot of the metrics is numbers.                                   *)
LEMMA SnapshotIsNumbers ==
    ASSUME NEW labels, IsFiniteSet(labels), NEW canonical, NEW conflicts
    PROVE  Snapshot(labels, canonical, conflicts) \in Numbers
<1>1. \A split, kinds : IsFiniteSet(Pairs(labels, split, kinds))
  BY FS_Subset DEF Pairs
<1>2. CanonicalizationMetrics(labels, canonical, None) \in [tp : Nat, fp : Nat, fn : Nat]
  BY <1>1, MetricCounts DEF CanonicalizationMetrics
<1>3. ContradictionMetrics(labels, conflicts, None) \in [tp : Nat, fp : Nat, fn : Nat]
  BY <1>1, MetricCounts DEF ContradictionMetrics
<1> QED
  BY <1>2, <1>3, MetricsAreRatios DEF Snapshot, Numbers

(* A snapshot has no regression against itself, an ontology no major bump. *)
LEMMA NoWorseThanItself ==
    ASSUME NEW m \in Numbers, NEW o \in Ontology
    PROVE  Regressions(m, m) = {} /\ ~OntologyMajorBump(o, o)
<1>1. \A k \in DOMAIN DEFAULT_PERMITTED : m[k] \in Ratio /\ DEFAULT_PERMITTED[k] \in Nat
  BY DEF Numbers, DEFAULT_PERMITTED
<1>2. ASSUME NEW p \in Ratio, NEW permitted \in Nat
      PROVE  ~(100 * (p[1] * p[2] - p[1] * p[2]) > permitted * p[2] * p[2])
  <2>1. p[1] * p[2] \in Nat /\ permitted * p[2] * p[2] \in Nat
    BY DEF Ratio
  <2> QED
    BY <2>1
<1>3. Regressions(m, m) = {}
  BY <1>1, <1>2 DEF Regressions
<1>4. ~OntologyMajorBump(o, o)
  BY DEF OntologyMajorBump, Ontology
<1> QED
  BY <1>3, <1>4

(* Nothing of the precision may be lost.                                   *)
LEMMA PrecisionIsKept ==
    ASSUME NEW p \in Numbers, NEW q \in Numbers, Regressions(p, q) = {}
    PROVE  AtLeast(q.canonicalization_precision, p.canonicalization_precision)
<1> DEFINE a == p["canonicalization_precision"]
           b == q["canonicalization_precision"]
<1>1. a \in Ratio /\ b \in Ratio
  BY DEF Numbers
<1>2. "canonicalization_precision" \in DOMAIN DEFAULT_PERMITTED
      /\ DEFAULT_PERMITTED["canonicalization_precision"] = 0
  BY DEF DEFAULT_PERMITTED
<1>3. ~(100 * (a[1] * b[2] - b[1] * a[2]) > 0 * a[2] * b[2])
  BY <1>2 DEF Regressions
<1>4. /\ a[1] * b[2] \in Nat /\ b[1] * a[2] \in Nat
      /\ 0 * a[2] * b[2] = 0
  BY <1>1 DEF Ratio
<1>5. b[1] * a[2] >= a[1] * b[2]
  BY <1>3, <1>4
<1> QED
  BY <1>5 DEF AtLeast

(* The report never shows a gate as failed that the harness lets through.  *)
LEMMA GatesAgree ==
    ASSUME NEW labels, NEW canonical, NEW conflicts,
           ~PromotionBlocked(labels, canonical, conflicts),
           NEW s \in {ClaimExtractionSlice(labels, canonical),
                      ContradictionSlice(labels, conflicts)}, s.measured
    PROVE  s.pass
<1>1. CASE s = ClaimExtractionSlice(labels, canonical)
  BY <1>1 DEF ClaimExtractionSlice, Slice, PromotionBlocked
<1>2. CASE s = ContradictionSlice(labels, conflicts)
  <2>1. Pairs(labels, None, {"contradicts"}) \subseteq
            Pairs(labels, None, {"contradicts", "unrelated"})
    BY DEF Pairs
  <2> QED
    BY <1>2, <2>1 DEF ContradictionSlice, Slice, PromotionBlocked
<1> QED
  BY <1>1, <1>2

-------------------------------------------------------------------------------
(* The baseline in force.                                                  *)

(* The version in force is the one the lookup returns.                     *)
LEMMA ActiveIsTheOne ==
    ASSUME BaselinesAreTyped, OneInForce, NEW v \in ActiveVersions
    PROVE  ActiveVersions = {v} /\ ActiveBaseline = v
<1>1. ActiveVersions = {v} /\ v \in Nat
  BY DEF OneInForce, ActiveVersions, BaselinesAreTyped
<1> QED
  BY <1>1 DEF ActiveBaseline, Max

(* The lookup returns none when none is in force.                          *)
LEMMA NoneIsInForce ==
    ASSUME BaselinesAreTyped, OneInForce, ActiveBaseline = None
    PROVE  ActiveVersions = {}
<1> SUFFICES ASSUME NEW v \in ActiveVersions PROVE FALSE
  OBVIOUS
<1>1. ActiveBaseline = v /\ v \in Nat
  BY ActiveIsTheOne DEF ActiveVersions, BaselinesAreTyped
<1> QED
  BY <1>1, PromotionAssumption

(* The fields of a version.                                                *)
LEMMA VersionsAreTyped ==
    ASSUME NEW v \in Versions
    PROVE  v.id \in Nat /\ v.ontology \in Ontology
  BY PromotionAssumption DEF Ontology

-------------------------------------------------------------------------------
(* The steps of reviews and promotions.                                    *)

(* The golden set stays finite.                                            *)
LEMMA NextGolden ==
    ASSUME GoldenIsFinite, [Next]_vars
    PROVE  GoldenIsFinite'
<1>1. CASE UNCHANGED golden
  BY <1>1 DEF GoldenIsFinite
<1>2. CASE Forget
  BY <1>2, FS_EmptySet DEF Forget, NoGolden, GoldenIsFinite
<1>3. ASSUME NEW ref, NEW split, DeriveGolden(ref, split)
      PROVE  GoldenIsFinite'
  <2>1. PICK kind, rows :
          /\ rows = Derived(reviews[ref], split)
          /\ golden' = [golden EXCEPT ![kind] = @ \cup rows]
    BY <1>3 DEF DeriveGolden, PersistGolden
  <2>2. IsFiniteSet(rows)
    BY <2>1, FS_EmptySet, FS_Singleton DEF Derived
  <2> QED
    BY <2>1, <2>2, FS_Union DEF GoldenIsFinite
<1> QED
  BY <1>1, <1>2, <1>3 DEF Next, vars, evaluation, Evaluate, Review, Enqueue, Assign, Decide,
     Queue, StartRun, ReadConflicts, Measure, Judge, Supersede, Persist, RunBreaksOff

(* Baselines change by the two commits of a promotion, and by a reset.     *)
LEMMA BaselineSteps ==
    ASSUME [Next]_vars
    PROVE  Supersede \/ Persist \/ Forget \/ UNCHANGED baselines
  BY DEF Next, vars, evaluation, Evaluate, Review, Enqueue, Assign, Decide, Queue,
     DeriveGolden, StartRun, ReadConflicts, Measure, Judge, RunBreaksOff

Superseded ==
    /\ DOMAIN baselines' = DOMAIN baselines
    /\ \A v \in DOMAIN baselines :
         /\ baselines'[v].metrics = baselines[v].metrics
         /\ baselines'[v].ontology = baselines[v].ontology
    /\ ActiveVersions' = {}

(* Superseding leaves no version in force.                                 *)
LEMMA SupersedeLeavesNone ==
    ASSUME PromotionInv, Supersede
    PROVE  Superseded
<1> USE DEF PromotionInv
<1>1. PICK v : v \in ActiveVersions
  BY DEF Supersede, ActiveBaseline
<1>2. ActiveVersions = {v} /\ ActiveBaseline = v
  BY <1>1, ActiveIsTheOne
<1>3. baselines' = [baselines EXCEPT ![v] = [@ EXCEPT !.status = "superseded"]]
  BY <1>2 DEF Supersede
<1>4. DOMAIN baselines' = DOMAIN baselines
  BY <1>3
<1>5. \A w \in DOMAIN baselines :
         /\ baselines'[w].metrics = baselines[w].metrics
         /\ baselines'[w].ontology = baselines[w].ontology
         /\ w # v => baselines'[w].status = baselines[w].status
  BY <1>3
<1>6. v \notin ActiveVersions'
  BY <1>1, <1>3, <1>4 DEF ActiveVersions
<1>7. \A w \in ActiveVersions' : w = v
  BY <1>2, <1>4, <1>5 DEF ActiveVersions
<1> QED
  BY <1>4, <1>5, <1>6, <1>7 DEF Superseded

(* What a promotion puts on file, unless the version is there.             *)
Persisted(new) ==
    /\ DOMAIN baselines' = DOMAIN baselines \cup {new}
    /\ \A v \in DOMAIN baselines : baselines'[v] = baselines[v]
    /\ new \notin DOMAIN baselines =>
         baselines'[new] = [metrics |-> run.metrics, ontology |-> run.version.ontology,
                            status |-> "active"]
    /\ ActiveVersions = {}
    /\ ActiveVersions' \subseteq {new} \ DOMAIN baselines

(* Persisting a version leaves none but it in force, and only if it is     *)
(* new.                                                                    *)
LEMMA PersistLeavesOne ==
    ASSUME PromotionInv, Persist
    PROVE  Persisted(run.version.id)
<1> DEFINE new == run.version.id
           row == [metrics |-> run.metrics, ontology |-> run.version.ontology, status |-> "active"]
<1>1. baselines' = WithBaseline(new, row)
  BY DEF Persist
<1>2. ActiveVersions = {}
  BY NoneIsInForce DEF PromotionInv, Persist, RunKnows
<1> HIDE DEF new, row
<1>4. /\ DOMAIN baselines' = DOMAIN baselines \cup {new}
      /\ \A v \in DOMAIN baselines : baselines'[v] = baselines[v]
      /\ new \notin DOMAIN baselines => baselines'[new] = row
  BY <1>1 DEF WithBaseline
<1>5. ActiveVersions' \subseteq {new} \ DOMAIN baselines
  BY <1>2, <1>4 DEF ActiveVersions
<1> QED
  BY <1>2, <1>4, <1>5 DEF Persisted, new, row

(* Baselines keep their types, one in force at most.                       *)
LEMMA NextBaselinesAreTyped ==
    ASSUME PromotionInv, [Next]_vars
    PROVE  BaselinesAreTyped' /\ OneInForce'
<1> USE DEF PromotionInv, BaselinesAreTyped
<1>1. CASE UNCHANGED baselines
  BY <1>1 DEF OneInForce, ActiveVersions
<1>2. CASE Forget
  BY <1>2 DEF Forget, OneInForce, ActiveVersions
<1>3. CASE Supersede
  BY <1>3, SupersedeLeavesNone DEF Superseded, OneInForce
<1>4. CASE Persist
  <2>1. run.metrics \in Numbers /\ run.version.id \in Nat /\ run.version.ontology \in Ontology
    BY <1>4, VersionsAreTyped DEF Persist, RunKnows
  <2> QED
    BY <1>4, <2>1, PersistLeavesOne DEF Persisted, OneInForce
<1> QED
  BY <1>1, <1>2, <1>3, <1>4, BaselineSteps

(* Nobody gets worse on file.                                              *)
LEMMA StillNoWorse ==
    ASSUME PromotionInv, [Next]_vars, ~Persist,
           NEW old, NEW metrics, NEW ontology, NoWorseThan(old, metrics, ontology)
    PROVE  old \in DOMAIN baselines' =>
             /\ Regressions(baselines'[old].metrics, metrics) = {}
             /\ ~OntologyMajorBump(baselines'[old].ontology, ontology)
<1>1. CASE UNCHANGED baselines
  BY <1>1 DEF NoWorseThan
<1>2. CASE Forget
  BY <1>2 DEF Forget
<1>3. CASE Supersede
  BY <1>3, SupersedeLeavesNone DEF Superseded, NoWorseThan
<1> QED
  BY <1>1, <1>2, <1>3, BaselineSteps

(* Each step of a promotion rests on the one before.                       *)
LEMMA NextRunKnows ==
    ASSUME PromotionInv, [Next]_vars
    PROVE  RunKnows'
<1> USE DEF PromotionInv
<1>1. CASE run' = None
  BY <1>1 DEF RunKnows
<1>2. ASSUME NEW version \in Versions, StartRun(version) PROVE RunKnows'
  BY <1>2 DEF StartRun, RunKnows
<1>3. CASE ReadConflicts
  BY <1>3 DEF ReadConflicts, RunKnows
<1>4. CASE Measure
  <2>1. Snapshot(golden.claim, run.canonical, run.conflicts) \in Numbers
    BY SnapshotIsNumbers DEF GoldenIsFinite
  <2> QED
    BY <1>4, <2>1 DEF Measure, RunKnows
<1>5. ASSUME NEW dry, Judge(dry), run' # None PROVE RunKnows'
  <2>1. /\ run # None /\ run.step = "judge" /\ verdict' = Decision
        /\ Decision.action # "BLOCKED"
        /\ run' = [run EXCEPT !.step = "align"]
        /\ UNCHANGED baselines
    BY <1>5 DEF Judge
  <2>2. run.version \in Versions /\ run.metrics \in Numbers
    BY <2>1 DEF RunKnows
  <2>3. run'.version = run.version /\ run'.metrics = run.metrics /\ run'.step = "align"
    BY <2>1
  <2>4. Decision.against = ActiveBaseline /\ Decision.version = run.version.id
    BY DEF Decision
  <2>5. NoWorseThan(ActiveBaseline, run.metrics, run.version.ontology)
    <3> SUFFICES ASSUME ActiveBaseline \in DOMAIN baselines
                 PROVE  /\ Regressions(baselines[ActiveBaseline].metrics, run.metrics) = {}
                        /\ ~OntologyMajorBump(baselines[ActiveBaseline].ontology,
                                              run.version.ontology)
      BY DEF NoWorseThan
    <3>1. ActiveBaseline # None
      BY PromotionAssumption DEF BaselinesAreTyped
    <3> QED
      BY <2>1, <3>1 DEF Decision
  <2>6. Decision = [version |-> run.version.id, against |-> Decision.against,
                    action |-> Decision.action, suite |-> Decision.suite, realized |-> FALSE]
    BY DEF Decision
  <2> QED
    BY <2>1, <2>2, <2>3, <2>4, <2>5, <2>6 DEF RunKnows, NoWorseThan
<1>6. CASE Supersede
  <2>1. /\ run # None /\ run.step = "align" /\ UNCHANGED verdict
        /\ run' = [run EXCEPT !.step = "persist"]
    BY <1>6 DEF Supersede
  <2>2. Superseded
    BY <1>6, SupersedeLeavesNone
  <2> QED
    BY <2>1, <2>2 DEF RunKnows, NoWorseThan, Superseded
<1>7. CASE UNCHANGED <<run, verdict, baselines>>
  BY <1>7 DEF RunKnows, NoWorseThan, ActiveVersions
<1>8. CASE Forget
  BY <1>8 DEF Forget, RunKnows, NoWorseThan, ActiveVersions
<1> QED
  BY <1>1, <1>2, <1>3, <1>4, <1>5, <1>6, <1>7, <1>8
     DEF Next, vars, evaluation, Evaluate, Review, Enqueue, Assign, Decide, Queue,
         DeriveGolden, Persist, RunBreaksOff

(* The version of a realized verdict was no worse than the one it was      *)
(* compared with.                                                          *)
LEMMA NextVerdictHolds ==
    ASSUME PromotionInv, [Next]_vars
    PROVE  VerdictHolds'
<1> USE DEF PromotionInv
<1>1. CASE UNCHANGED <<run, verdict, baselines>>
  BY <1>1 DEF VerdictHolds, NoWorseThan, ActiveVersions
<1>2. ASSUME NEW version, StartRun(version) PROVE VerdictHolds'
  BY <1>2 DEF StartRun, VerdictHolds
<1>3. CASE run # None /\ UNCHANGED verdict
  BY <1>3 DEF VerdictHolds
<1>4. ASSUME NEW dry, Judge(dry) PROVE VerdictHolds'
  BY <1>4 DEF Judge, Decision, VerdictHolds
<1>5. CASE Forget
  BY <1>5 DEF Forget, VerdictHolds, ActiveVersions
<1>6. CASE Persist
  <2> DEFINE new == run.version.id
             old == verdict.against
  <2>1. /\ run # None /\ run' = None
        /\ run.step \in {"align", "persist"}
        /\ verdict' = [verdict EXCEPT !.realized = TRUE]
    BY <1>6 DEF Persist
  <2>2. /\ verdict = [version |-> new, against |-> old, action |-> verdict.action,
                      suite |-> verdict.suite, realized |-> FALSE]
        /\ run.version \in Versions /\ run.metrics \in Numbers
        /\ NoWorseThan(old, run.metrics, run.version.ontology)
    BY <2>1 DEF RunKnows
  <2>3. verdict'.version = new /\ verdict'.against = old
    BY <2>1, <2>2
  <2>4. Persisted(new)
    BY <1>6, PersistLeavesOne
  <2>5. ASSUME new \in ActiveVersions', old \in DOMAIN baselines'
        PROVE  /\ Regressions(baselines'[old].metrics, baselines'[new].metrics) = {}
               /\ ~OntologyMajorBump(baselines'[old].ontology, baselines'[new].ontology)
    <3>1. /\ new \notin DOMAIN baselines
          /\ baselines'[new].metrics = run.metrics
          /\ baselines'[new].ontology = run.version.ontology
      BY <2>4, <2>5 DEF Persisted
    <3>2. CASE old = new
      BY <2>2, <3>1, <3>2, NoWorseThanItself, VersionsAreTyped
    <3>3. CASE old # new
      BY <2>2, <2>4, <2>5, <3>1, <3>3 DEF Persisted, NoWorseThan
    <3> QED
      BY <3>2, <3>3
  <2> QED
    BY <2>1, <2>3, <2>5 DEF VerdictHolds, NoWorseThan
<1> QED
  BY <1>1, <1>2, <1>3, <1>4, <1>5, <1>6
     DEF Next, vars, evaluation, Evaluate, Review, Enqueue, Assign, Decide, Queue,
         DeriveGolden, ReadConflicts, Measure, Supersede, RunBreaksOff

-------------------------------------------------------------------------------
(* The inductive invariant, and what follows from it.                      *)

(* The invariant at the beginning.                                         *)
LEMMA InitPromotionInv == Init => PromotionInv
  BY FS_EmptySet DEF Init, EvaluationInit, PromotionInv, GoldenIsFinite, NoGolden,
     BaselinesAreTyped, OneInForce, ActiveVersions, RunKnows, VerdictHolds

(* Every step keeps it.                                                    *)
LEMMA NextPromotionInv == PromotionInv /\ [Next]_vars => PromotionInv'
  BY NextGolden, NextBaselinesAreTyped, NextRunKnows, NextVerdictHolds DEF PromotionInv

(* The inductive invariant of the promotion of versions.                   *)
THEOREM PromotionsInvariance == Spec => []PromotionInv
  BY InitPromotionInv, NextPromotionInv, PTL DEF Spec

(* And it implies the property the run checks.                             *)
LEMMA PromotionInvSuffices == PromotionInv => BaselineIsCompared
<1> SUFFICES ASSUME PromotionInv PROVE BaselineIsCompared
  OBVIOUS
<1> USE DEF PromotionInv
<1>1. Cardinality(ActiveVersions) <= 1
  <2>1. CASE ActiveVersions = {}
    BY <2>1, FS_EmptySet
  <2>2. ASSUME NEW v \in ActiveVersions PROVE Cardinality(ActiveVersions) <= 1
    <3>1. ActiveVersions = {v}
      BY DEF OneInForce
    <3> QED
      BY <3>1, FS_Singleton
  <2> QED
    BY <2>1, <2>2
<1>2. ASSUME verdict # None, verdict.realized, verdict.version \in ActiveVersions,
             {verdict.against, verdict.version} \subseteq DOMAIN baselines
      PROVE  /\ Regressions(baselines[verdict.against].metrics,
                            baselines[verdict.version].metrics) = {}
             /\ AtLeast(baselines[verdict.version].metrics.canonicalization_precision,
                        baselines[verdict.against].metrics.canonicalization_precision)
             /\ ~OntologyMajorBump(baselines[verdict.against].ontology,
                                   baselines[verdict.version].ontology)
  <2>1. NoWorseThan(verdict.against, baselines[verdict.version].metrics,
                    baselines[verdict.version].ontology)
    BY <1>2 DEF VerdictHolds
  <2>2. baselines[verdict.against].metrics \in Numbers /\ baselines[verdict.version].metrics \in Numbers
    BY <1>2 DEF BaselinesAreTyped
  <2> QED
    BY <1>2, <2>1, <2>2, PrecisionIsKept DEF NoWorseThan
<1>3. ASSUME NEW canonical \in LastRows(DOMAIN curated["member_of"]),
             ~PromotionBlocked(golden.claim, canonical, DOMAIN curated["conflict_candidates"]),
             NEW s \in {ClaimExtractionSlice(golden.claim, canonical),
                        ContradictionSlice(golden.claim, DOMAIN curated["conflict_candidates"])},
             s.measured
      PROVE  s.pass
  BY <1>3, GatesAgree
<1> QED
  BY <1>1, <1>2, <1>3 DEF BaselineIsCompared

(* At most one baseline is in force; a version that was promoted over      *)
(* another lost no more in any number than is permitted, and its ontology  *)
(* is no major apart; and the harness blocks whenever a gate of the report *)
(* fails (promotion_pipeline, pipeline_gate).                              *)
THEOREM BaselinesAreCompared == Spec => []BaselineIsCompared
  BY PromotionInvSuffices, PromotionsInvariance, PTL

-------------------------------------------------------------------------------
(* What is confirmed is whole.                                             *)

(* Sorting the claims leaves them what they are.  (The definition of       *)
(* SortSeq is TLC's own, and the provers know nothing of it.)              *)
ClaimsAreExtracted == Claim \in Seq(UNION {ClaimsOf(d) : d \in Docs})

(* The rows a document has in tables that only gain rows, and which of     *)
(* them its chain writes.                                                  *)
RowsOf(d) ==
    [dup_signatures |-> {d},
     dup_bands |-> IF Document[d].long THEN {d} ELSE {},
     entities |-> EntitiesOf[d],
     extraction_records |-> DocClaims[d],
     assertions |-> DocClaims[d]]

RowTables == {"dup_signatures", "dup_bands", "entities", "extraction_records", "assertions"}

ChainTables == {"entities", "extraction_records", "assertions"}

ClaimsStand(tables, d) == DocClaims[d] \subseteq Promoted(tables["claim_candidates"])

RowsStand(tables, d, names) == \A t \in names : RowsOf(d)[t] \subseteq DOMAIN tables[t]

Whole(tables, d) == ClaimsStand(tables, d) /\ RowsStand(tables, d, RowTables)

HaveStatus(table) == \A c \in DOMAIN table : "status" \in DOMAIN table[c]

AllPromoted(rows) == \A c \in DOMAIN rows : rows[c].status = "promoted"

(* Nothing is lost from one state of the tables to another.                *)
Grows(old, new) ==
    /\ \A t \in Tables : DOMAIN old[t] \subseteq DOMAIN new[t]
    /\ Promoted(old["claim_candidates"]) \subseteq Promoted(new["claim_candidates"])

(* The documents of a batch or a rebuild are owed until the end.           *)
BatchIsOwed == pc # "idle" => batch \subseteq owed

RebuildOwesAll == pc \in {"reset", "rebuild"} => Docs \subseteq owed

StreamIsRebuilt == pc # "rebuild" => stream = <<>>

(* What the chain has run through is on file or in the buffer.             *)
BatchStands ==
    pc \in {"reconcile", "commit"} =>
        \A d \in batch :
            /\ ClaimsStand(curated, d)
            /\ \A t \in RowTables :
                RowsOf(d)[t] \subseteq DOMAIN curated[t] \cup DOMAIN buffer[t]

StreamStands ==
    pc = "rebuild" =>
        \A d \in ToSet(stream) : ClaimsStand(curated, d) /\ RowsStand(curated, d, ChainTables)

(* A batch reads its claims back before it commits the other tables.      *)
ClaimsAreRead == buffer["claim_candidates"] = NoRows

(* A batch has its documents normalized before it writes their claims.     *)
NormalizedFirst ==
    /\ pc \in {"chain", "reconcile", "commit"} => batch \subseteq normalized
    /\ pc \in {"reset", "rebuild"} => normalized = Docs

(* Claims and their records are committed before the assertions that refer *)
(* to them.                                                                *)
AssertionsStand ==
    /\ \A c \in DOMAIN curated["claim_candidates"] :
         c \in DOMAIN Claim /\ Claim[c].doc \in normalized
    /\ DOMAIN curated["assertions"] \subseteq
         DOMAIN curated["claim_candidates"] \cap DOMAIN curated["extraction_records"]
    /\ DOMAIN buffer["assertions"] \subseteq DOMAIN curated["claim_candidates"]
    /\ DOMAIN buffer["assertions"] \subseteq
         DOMAIN curated["extraction_records"] \cup DOMAIN buffer["extraction_records"]
    /\ pc \notin {"reconcile", "commit"} => buffer["assertions"] = NoRows

ConfirmedStands == \A d \in Confirmed : Whole(curated, d)

CorpusInv ==
    /\ CorpusTypeOK
    /\ HaveStatus(curated["claim_candidates"])
    /\ ClaimsAreRead
    /\ BatchIsOwed
    /\ RebuildOwesAll
    /\ StreamIsRebuilt
    /\ BatchStands
    /\ StreamStands
    /\ NormalizedFirst
    /\ AssertionsStand
    /\ ConfirmedStands

(* The curated tables, by name.                                            *)
LEMMA TablesAre ==
    Tables = {"claim_candidates", "mentions", "entities", "extraction_records",
              "assertions", "dup_signatures", "dup_bands", "dup_clusters",
              "canonical_claims", "member_of", "conflict_candidates"}
<1>1. DOMAIN TableOrder = 1 .. 11
  BY DEF TableOrder
<1> QED
  BY <1>1 DEF Tables, ToSet, TableOrder

(* Those that have rows of a document.                                     *)
LEMMA TablesWithRows == RowTables \cup ChainTables \cup {"claim_candidates"} \subseteq Tables
  BY TablesAre DEF RowTables, ChainTables

(* Every claim passes the gate: the rules are for controlled predicates.   *)
LEMMA ClaimsPassTheGate ==
    ASSUME ClaimsAreExtracted, NEW c \in DOMAIN Claim, NEW source
    PROVE  GateClaim(Claim[c], {source})
<1>1. PICK d \in Docs : Claim[c] \in ClaimsOf(d)
  <2>1. Claim[c] \in UNION {ClaimsOf(d) : d \in Docs}
    BY ElementOfSeq DEF ClaimsAreExtracted
  <2> QED
    BY <2>1
<1>2. PICK s \in DOMAIN Document[d].segments :
        Claim[c] \in SegmentClaims(d, s, Document[d].segments[s].rules,
                                   SubjectOf(d, Document[d].segments[s]))
  BY <1>1 DEF ClaimsOf
<1> DEFINE rules == Document[d].segments[s].rules
           subject == SubjectOf(d, Document[d].segments[s])
<1>3. PICK i \in DOMAIN rules :
        /\ subject # None
        /\ Claim[c] = [doc |-> d, seg |-> s, from |-> rules[i].from, to |-> rules[i].to,
                       predicate |-> rules[i].predicate, subject |-> subject,
                       object |-> ObjectOf(d, subject, rules[i]),
                       polarity |-> "positive", confidence |-> Confidence,
                       text |-> rules[i].text]
  BY <1>2 DEF SegmentClaims
<1>4. rules[i].predicate \in {"announces", "supplies", "partners_with"}
      /\ rules[i].from < rules[i].to
  BY RulesAssumption
<1>5. /\ Claim[c].from = rules[i].from /\ Claim[c].to = rules[i].to
      /\ Claim[c].predicate = rules[i].predicate
      /\ Claim[c].subject = subject /\ Claim[c].confidence = 80
  BY <1>3 DEF Confidence
<1>6. Claim[c].subject # None
  BY <1>3, <1>5
<1> HIDE DEF rules, subject
<1> QED
  BY <1>4, <1>5, <1>6 DEF GateClaim, PROMOTION_CONFIDENCE, CONTROLLED_PREDICATES

-------------------------------------------------------------------------------
(* Rows.                                                                   *)

(* A commit adds keys.                                                     *)
LEMMA CommitGains ==
    ASSUME NEW t, NEW table, NEW rows
    PROVE  DOMAIN CommitRows(t, table, rows) = DOMAIN table \cup DOMAIN rows
  BY DEF CommitRows

(* A commit of promoted claims leaves none of the promoted ones behind.    *)
LEMMA CommitPromotes ==
    ASSUME NEW table, HaveStatus(table), NEW rows, HaveStatus(rows), AllPromoted(rows),
           NEW r, r = CommitRows("claim_candidates", table, rows)
    PROVE  /\ HaveStatus(r)
           /\ Promoted(table) \cup DOMAIN rows \subseteq Promoted(r)
<1>1. "claim_candidates" \in Replaced
  BY DEF Replaced
<1>2. /\ DOMAIN r = DOMAIN table \cup DOMAIN rows
      /\ \A c \in DOMAIN rows : r[c] = rows[c]
      /\ \A c \in DOMAIN table \ DOMAIN rows : r[c] = table[c]
  BY <1>1 DEF CommitRows
<1> QED
  BY <1>2 DEF HaveStatus, AllPromoted, Promoted

(* A commit of all tables only grows them.                                 *)
LEMMA CommitsGrow ==
    ASSUME NEW old, NEW rows, NEW new,
           new = [t \in Tables |-> CommitRows(t, old[t], rows[t])],
           HaveStatus(old["claim_candidates"]),
           HaveStatus(rows["claim_candidates"]), AllPromoted(rows["claim_candidates"])
    PROVE  /\ Grows(old, new)
           /\ DOMAIN new = Tables
           /\ HaveStatus(new["claim_candidates"])
           /\ DOMAIN rows["claim_candidates"] \subseteq Promoted(new["claim_candidates"])
           /\ \A t \in Tables : DOMAIN rows[t] \subseteq DOMAIN new[t]
<1>1. ASSUME NEW t \in Tables PROVE DOMAIN new[t] = DOMAIN old[t] \cup DOMAIN rows[t]
  <2>1. new[t] = CommitRows(t, old[t], rows[t])
    OBVIOUS
  <2>2. DOMAIN CommitRows(t, old[t], rows[t]) = DOMAIN old[t] \cup DOMAIN rows[t]
    BY DEF CommitRows
  <2> QED
    BY <2>1, <2>2, Zenon
<1>2. new["claim_candidates"] =
        CommitRows("claim_candidates", old["claim_candidates"], rows["claim_candidates"])
  BY TablesWithRows
<1> QED
  BY <1>1, <1>2, CommitPromotes DEF Grows

(* What stands in the tables stands in grown ones.                         *)
LEMMA GrowthKeeps ==
    ASSUME NEW old, NEW new, Grows(old, new), NEW d, ClaimsStand(old, d)
    PROVE  /\ ClaimsStand(new, d)
           /\ RowsStand(old, d, ChainTables) => RowsStand(new, d, ChainTables)
           /\ Whole(old, d) => Whole(new, d)
<1>1. ChainTables \subseteq RowTables
  BY DEF ChainTables, RowTables
<1> QED
  BY <1>1, TablesWithRows DEF Grows, ClaimsStand, RowsStand, Whole

(* What the chain writes for each of its documents.                        *)
LEMMA ChainWrites ==
    ASSUME ClaimsAreExtracted, NEW order, ToSet(order) \subseteq Docs,
           NEW chain, chain = ChainRows(order)
    PROVE  /\ DOMAIN chain = Tables
           /\ HaveStatus(chain["claim_candidates"])
           /\ AllPromoted(chain["claim_candidates"])
           /\ \A t \in {"claim_candidates", "extraction_records", "assertions"} :
                DOMAIN chain[t] = UNION {DocClaims[d] : d \in ToSet(order)}
           /\ \A d \in ToSet(order) :
                /\ DocClaims[d] \subseteq DOMAIN chain["claim_candidates"]
                /\ RowsStand(chain, d, ChainTables)
<1> DEFINE docs == ToSet(order)
           claims == UNION {DocClaims[d] : d \in docs}
           provenance == ProvenanceRows(claims)
           promoted == {c \in claims : GateClaim(Claim[c], {provenance[c]})}
<1>1. claims \subseteq DOMAIN Claim
  BY DEF DocClaims
<1>2. promoted = claims
  BY <1>1, ClaimsPassTheGate
<1>3. /\ DOMAIN chain = Tables
      /\ chain["entities"] = EntityRows(order)
      /\ chain["extraction_records"] = provenance
      /\ chain["claim_candidates"] = ClaimRows(claims, promoted)
      /\ chain["assertions"] = AssertionRows(promoted)
  <2> HIDE DEF docs, claims, provenance, promoted
  <2>1. chain = [t \in Tables |->
            CASE t = "mentions" -> MentionRows(docs)
              [] t = "entities" -> EntityRows(order)
              [] t = "extraction_records" -> provenance
              [] t = "claim_candidates" -> ClaimRows(claims, promoted)
              [] t = "assertions" -> AssertionRows(promoted)
              [] OTHER -> NoRows]
    BY Zenon DEF ChainRows, docs, claims, provenance, promoted
  <2>2. {"entities", "extraction_records", "claim_candidates", "assertions"} \subseteq Tables
    BY TablesAre
  <2> QED
    BY <2>1, <2>2, Zenon
<1>4. /\ DOMAIN EntityRows(order) = UNION {EntitiesOf[d] : d \in docs}
      /\ DOMAIN provenance = claims
      /\ DOMAIN AssertionRows(promoted) = promoted
      /\ DOMAIN ClaimRows(claims, promoted) = claims
  BY Zenon DEF EntityRows, ProvenanceRows, AssertionRows, ClaimRows
<1>5. \A c \in claims : /\ "status" \in DOMAIN ClaimRows(claims, promoted)[c]
                        /\ ClaimRows(claims, promoted)[c].status = "promoted"
  BY <1>2 DEF ClaimRows
<1> HIDE DEF docs, claims, provenance, promoted
<1>6. HaveStatus(chain["claim_candidates"]) /\ AllPromoted(chain["claim_candidates"])
  BY <1>3, <1>4, <1>5 DEF HaveStatus, AllPromoted
<1>7. ASSUME NEW d \in docs
      PROVE  /\ DocClaims[d] \subseteq DOMAIN chain["claim_candidates"]
             /\ RowsStand(chain, d, ChainTables)
  <2>1. DocClaims[d] \subseteq claims
    BY DEF claims
  <2>2. EntitiesOf[d] \subseteq DOMAIN EntityRows(order)
    BY <1>4
  <2> QED
    BY <1>2, <1>3, <1>4, <2>1, <2>2 DEF RowsStand, ChainTables, RowsOf
<1>8. \A t \in {"claim_candidates", "extraction_records", "assertions"} : DOMAIN chain[t] = claims
  BY <1>2, <1>3, <1>4
<1> QED
  BY <1>3, <1>6, <1>7, <1>8 DEF docs, claims

(* A grouping assigns only claims it was given, and demotes none.          *)
LEMMA AssignmentKeeps ==
    ASSUME NEW table, HaveStatus(table), NEW claims, claims \subseteq Promoted(table),
           NEW rows, rows = Assigned(table, CanonicalizeClaims(claims))
    PROVE  HaveStatus(rows) /\ AllPromoted(rows) /\ DOMAIN rows \subseteq DOMAIN table
<1>1. \A set, same : \A S \in MinimalClosed(set, same) : S \subseteq set
  BY DEF MinimalClosed
<1>2. \A block \in BlocksOf(claims) : block \subseteq claims
  BY DEF BlocksOf
<1>3. ASSUME NEW class \in CanonicalizeClaims(claims) PROVE class \subseteq claims
  <2>1. PICK block \in BlocksOf(claims) : \E same : class \in MinimalClosed(block, same)
    BY DEF CanonicalizeClaims
  <2> QED
    BY <1>1, <1>2, <2>1
<1>4. UNION CanonicalizeClaims(claims) \subseteq Promoted(table)
  BY <1>3
<1>5. \A c \in DOMAIN rows : c \in Promoted(table) /\
        rows[c] = [table[c] EXCEPT !.canonical =
                     CHOOSE class \in CanonicalizeClaims(claims) : c \in class]
  BY <1>4 DEF Assigned
<1> QED
  BY <1>5 DEF Promoted, HaveStatus, AllPromoted

(* An order of a batch is the batch.                                       *)
LEMMA OrderCovers ==
    ASSUME NEW S \in SUBSET Docs, NEW order \in SetToSeqs(S)
    PROVE  ToSet(order) = S
<1> DEFINE places == 1 .. Cardinality(S)
<1>1. IsFiniteSet(S) /\ Cardinality(S) \in Nat
  BY CorpusAssumption, FS_Subset, FS_CardinalityType
<1>2. IsFiniteSet(places) /\ Cardinality(places) = Cardinality(S)
  BY <1>1, FS_Interval
<1>3. order \in [places -> S] /\ \A i, j \in places : i # j => order[i] # order[j]
  BY DEF SetToSeqs
<1>4. ASSUME NEW d \in S, d \notin ToSet(order) PROVE FALSE
  <2>1. order \in [places -> S \ {d}]
    BY <1>3, <1>4 DEF ToSet
  <2>2. IsFiniteSet(S \ {d}) /\ Cardinality(S \ {d}) = Cardinality(S) - 1
    BY <1>1, FS_RemoveElement
  <2>3. \E i, j \in places : i # j /\ order[i] = order[j]
    BY <1>1, <1>2, <2>1, <2>2, FS_PigeonHole
  <2> QED
    BY <1>3, <2>3
<1>5. ToSet(order) \subseteq S
  BY <1>3 DEF ToSet
<1> QED
  BY <1>4, <1>5

(* The rows of a document, table by table.                                 *)
LEMMA RowsOfTables ==
    ASSUME NEW d
    PROVE  /\ RowsOf(d)["dup_signatures"] = {d}
           /\ RowsOf(d)["dup_bands"] = IF Document[d].long THEN {d} ELSE {}
           /\ RowTables = ChainTables \cup {"dup_signatures", "dup_bands"}
  BY DEF RowsOf, RowTables, ChainTables

-------------------------------------------------------------------------------
(* The steps of promotions and rebuilds.                                   *)

(* The invariant of the corpus, at the beginning.                          *)
LEMMA InitCorpusInv == Init => CorpusInv
<1> SUFFICES ASSUME Init PROVE CorpusInv
  OBVIOUS
<1>1. \A t \in Tables : curated[t] = NoRows /\ buffer[t] = NoRows
  BY DEF Init, CorpusInit
<1>2. DOMAIN NoRows = {}
  BY DEF NoRows
<1>3. HaveStatus(curated["claim_candidates"]) /\ ClaimsAreRead
  BY <1>1, <1>2, TablesWithRows DEF HaveStatus, ClaimsAreRead
<1>4. AssertionsStand
  BY <1>1, <1>2, TablesWithRows DEF AssertionsStand, ChainTables
<1> QED
  BY <1>3, <1>4 DEF Init, CorpusInit, CorpusInv, CorpusTypeOK, BatchIsOwed, RebuildOwesAll,
     StreamIsRebuilt, BatchStands, StreamStands, NormalizedFirst, ConfirmedStands, Confirmed

(* Each step of the corpus keeps it: documents are delivered.              *)
LEMMA DeliverKeeps ==
    ASSUME CorpusInv, NEW docs \in SUBSET Docs, Deliver(docs)
    PROVE  CorpusInv'
  BY DEF CorpusInv, Deliver, Begin, CorpusTypeOK, BatchIsOwed, RebuildOwesAll, ClaimsAreRead,
     StreamIsRebuilt, BatchStands, StreamStands, NormalizedFirst, AssertionsStand,
     ConfirmedStands, Confirmed

(* Segments are written.                                                   *)
LEMMA NormalizeKeeps ==
    ASSUME CorpusInv, Normalize
    PROVE  CorpusInv'
<1>1. Confirmed' = Confirmed
  BY DEF CorpusInv, Normalize, BatchIsOwed, Confirmed
<1> QED
  BY <1>1 DEF CorpusInv, Normalize, CorpusTypeOK, BatchIsOwed, RebuildOwesAll, ClaimsAreRead,
     StreamIsRebuilt, BatchStands, StreamStands, NormalizedFirst, AssertionsStand, ConfirmedStands

(* What the batch has claims of.                                           *)
LEMMA ClaimsAreKnown ==
    ASSUME CorpusInv, NEW docs \in SUBSET Docs, docs \subseteq normalized,
           NEW c \in UNION {DocClaims[d] : d \in docs}
    PROVE  c \in DOMAIN Claim /\ Claim[c].doc \in normalized
  BY DEF DocClaims

(* Tables that grow keep what stands.                                      *)
LEMMA GrowingKeeps ==
    ASSUME CorpusInv, Grows(curated, curated')
    PROVE  /\ \A d \in Confirmed : Whole(curated', d)
           /\ pc = "rebuild" => \A d \in ToSet(stream) :
                ClaimsStand(curated', d) /\ RowsStand(curated', d, ChainTables)
           /\ pc \in {"reconcile", "commit"} => \A d \in batch : ClaimsStand(curated', d)
  BY GrowthKeeps DEF CorpusInv, ConfirmedStands, StreamStands, BatchStands, Whole

(* A batch runs the chain and commits its rows, and takes no row back.     *)
LEMMA RunChainKeeps ==
    ASSUME ClaimsAreExtracted, CorpusInv, RunChain
    PROVE  CorpusInv' /\ Grows(curated, curated')
<1> USE DEF CorpusInv
<1>1. PICK order \in SetToSeqs(batch) : BufferChain(ChainRows(order))
  BY DEF RunChain
<1>2. PICK chain : chain = ChainRows(order)
  OBVIOUS
<1>3. ToSet(order) = batch /\ batch \subseteq Docs
  BY <1>1, OrderCovers DEF CorpusTypeOK
<1>4. /\ DOMAIN chain = Tables
      /\ HaveStatus(chain["claim_candidates"])
      /\ AllPromoted(chain["claim_candidates"])
      /\ \A t \in {"claim_candidates", "extraction_records", "assertions"} :
           DOMAIN chain[t] = UNION {DocClaims[d] : d \in batch}
      /\ \A d \in batch :
           /\ DocClaims[d] \subseteq DOMAIN chain["claim_candidates"]
           /\ RowsStand(chain, d, ChainTables)
  BY <1>2, <1>3, ChainWrites
<1>5. /\ curated' = [curated EXCEPT !["claim_candidates"] =
                       CommitRows("claim_candidates", @, chain["claim_candidates"])]
      /\ buffer' = [chain EXCEPT !["claim_candidates"] = NoRows,
                                 !["dup_signatures"] = SignatureRows(batch),
                                 !["dup_bands"] = BandRows(batch),
                                 !["dup_clusters"] = ClusterRows(CopyGroups)]
  BY <1>1, <1>2 DEF BufferChain
<1>6. PICK r : r = CommitRows("claim_candidates", curated["claim_candidates"],
                              chain["claim_candidates"])
  OBVIOUS
<1>7. /\ HaveStatus(r)
      /\ Promoted(curated["claim_candidates"]) \cup DOMAIN chain["claim_candidates"]
            \subseteq Promoted(r)
  BY <1>4, <1>6, CommitPromotes
<1>66. DOMAIN r = DOMAIN curated["claim_candidates"] \cup DOMAIN chain["claim_candidates"]
  BY <1>6 DEF CommitRows
<1>8. /\ DOMAIN curated' = Tables
      /\ curated'["claim_candidates"] = r
      /\ \A t \in Tables \ {"claim_candidates"} : curated'[t] = curated[t]
  BY <1>5, <1>6, TablesWithRows DEF CorpusTypeOK
<1>9. Grows(curated, curated')
  BY <1>66, <1>7, <1>8 DEF Grows
<1>10. /\ DOMAIN buffer' = Tables
       /\ buffer'["claim_candidates"] = NoRows
       /\ buffer'["dup_signatures"] = SignatureRows(batch)
       /\ buffer'["dup_bands"] = BandRows(batch)
       /\ \A t \in ChainTables : buffer'[t] = chain[t]
  BY <1>4, <1>5, TablesAre DEF ChainTables
<1>11. ASSUME NEW d \in batch
       PROVE  /\ ClaimsStand(curated', d)
              /\ \A t \in RowTables : RowsOf(d)[t] \subseteq DOMAIN buffer'[t]
  <2>1. ClaimsStand(curated', d)
    BY <1>4, <1>7, <1>8 DEF ClaimsStand
  <2>2. \A t \in ChainTables : RowsOf(d)[t] \subseteq DOMAIN buffer'[t]
    BY <1>4, <1>10 DEF RowsStand
  <2>3. /\ DOMAIN SignatureRows(batch) = batch
        /\ DOMAIN BandRows(batch) = {e \in batch : Document[e].long}
    BY DEF SignatureRows, BandRows
  <2>4. /\ RowsOf(d)["dup_signatures"] = {d}
        /\ RowsOf(d)["dup_bands"] \subseteq {e \in batch : Document[e].long}
    <3>1. /\ RowsOf(d)["dup_signatures"] = {d}
          /\ RowsOf(d)["dup_bands"] = IF Document[d].long THEN {d} ELSE {}
      BY RowsOfTables
    <3> QED
      BY <3>1
  <2>5. /\ RowsOf(d)["dup_signatures"] \subseteq DOMAIN buffer'["dup_signatures"]
        /\ RowsOf(d)["dup_bands"] \subseteq DOMAIN buffer'["dup_bands"]
    BY <1>10, <2>3, <2>4
  <2> QED
    BY <2>1, <2>2, <2>5, RowsOfTables
<1>12. HaveStatus(curated'["claim_candidates"]) /\ ClaimsAreRead'
  BY <1>7, <1>8, <1>10 DEF ClaimsAreRead
<1>13. \A d \in Confirmed : Whole(curated', d)
  BY <1>9, GrowingKeeps
<1>14. Confirmed' = Confirmed /\ pc' = "reconcile" /\ batch' = batch
  BY DEF RunChain, Confirmed
<1>15. BatchStands' /\ ConfirmedStands' /\ StreamStands'
  BY <1>11, <1>13, <1>14 DEF BatchStands, ConfirmedStands, StreamStands
<1>16. /\ CorpusTypeOK' /\ BatchIsOwed' /\ RebuildOwesAll' /\ StreamIsRebuilt'
       /\ NormalizedFirst'
  BY <1>8, <1>10 DEF RunChain, CorpusTypeOK, BatchIsOwed, RebuildOwesAll, StreamIsRebuilt,
     NormalizedFirst
<1>17. AssertionsStand'
  <2>1. batch \subseteq normalized /\ UNCHANGED normalized
    BY DEF RunChain, NormalizedFirst
  <2>2. \A c \in DOMAIN chain["claim_candidates"] : c \in DOMAIN Claim /\ Claim[c].doc \in normalized
    BY <1>3, <1>4, <2>1, ClaimsAreKnown
  <2>3. /\ DOMAIN curated'["claim_candidates"] =
             DOMAIN curated["claim_candidates"] \cup DOMAIN chain["claim_candidates"]
        /\ curated'["assertions"] = curated["assertions"]
        /\ curated'["extraction_records"] = curated["extraction_records"]
    BY <1>66, <1>8, TablesWithRows DEF ChainTables
  <2>4. buffer'["assertions"] = chain["assertions"]
        /\ buffer'["extraction_records"] = chain["extraction_records"]
    BY <1>10 DEF ChainTables
  <2> QED
    BY <1>4, <1>14, <2>1, <2>2, <2>3, <2>4 DEF AssertionsStand
<1> QED
  BY <1>9, <1>12, <1>15, <1>16, <1>17

(* The reconciliation over the corpus takes no row back.                   *)
LEMMA ReconcileKeeps ==
    ASSUME CorpusInv, Reconcile
    PROVE  CorpusInv' /\ Grows(curated, curated')
<1> USE DEF CorpusInv
<1>1. PICK table : table = curated["claim_candidates"]
  OBVIOUS
<1>2. PICK rows :
        /\ rows = Assigned(table, CanonicalizeClaims(Promoted(table) \cap Touched(table)))
        /\ curated' = [curated EXCEPT !["claim_candidates"] =
                         CommitRows("claim_candidates", @, rows)]
        /\ \E classes, found :
             buffer' = [buffer EXCEPT !["canonical_claims"] = CanonicalRows(classes),
                                      !["member_of"] = MemberRows(classes),
                                      !["conflict_candidates"] = found]
  BY <1>1 DEF Reconcile
<1>3. HaveStatus(rows) /\ AllPromoted(rows) /\ DOMAIN rows \subseteq DOMAIN table
  BY <1>1, <1>2, AssignmentKeeps
<1>4. PICK r : r = CommitRows("claim_candidates", table, rows)
  OBVIOUS
<1>5. HaveStatus(r) /\ Promoted(table) \subseteq Promoted(r)
  BY <1>1, <1>3, <1>4, CommitPromotes
<1>6. DOMAIN r = DOMAIN table
  BY <1>3, <1>4 DEF CommitRows
<1>7. /\ DOMAIN curated' = Tables
      /\ curated'["claim_candidates"] = r
      /\ \A t \in Tables \ {"claim_candidates"} : curated'[t] = curated[t]
  BY <1>1, <1>2, <1>4, TablesWithRows DEF CorpusTypeOK
<1>8. Grows(curated, curated')
  BY <1>1, <1>5, <1>6, <1>7 DEF Grows
<1>9. /\ DOMAIN buffer' = Tables
      /\ \A t \in RowTables \cup {"claim_candidates"} : buffer'[t] = buffer[t]
  BY <1>2, TablesWithRows DEF CorpusTypeOK, RowTables
<1>10. HaveStatus(curated'["claim_candidates"]) /\ ClaimsAreRead'
  BY <1>5, <1>7, <1>9 DEF ClaimsAreRead
<1>11. Confirmed' = Confirmed /\ pc = "reconcile" /\ pc' = "commit" /\ batch' = batch
  BY DEF Reconcile, Confirmed
<1>12. ASSUME NEW d \in batch
       PROVE  /\ ClaimsStand(curated', d)
              /\ \A t \in RowTables :
                    RowsOf(d)[t] \subseteq DOMAIN curated'[t] \cup DOMAIN buffer'[t]
  <2>1. ClaimsStand(curated', d)
    BY <1>8, <1>11, GrowingKeeps
  <2>2. \A t \in RowTables : DOMAIN curated[t] \subseteq DOMAIN curated'[t]
    BY <1>8, TablesWithRows DEF Grows
  <2> QED
    BY <1>9, <1>11, <2>1, <2>2 DEF BatchStands
<1>13. \A d \in Confirmed : Whole(curated', d)
  BY <1>8, GrowingKeeps
<1>14. BatchStands' /\ ConfirmedStands' /\ StreamStands'
  BY <1>11, <1>12, <1>13 DEF BatchStands, ConfirmedStands, StreamStands
<1>15. /\ CorpusTypeOK' /\ BatchIsOwed' /\ RebuildOwesAll' /\ StreamIsRebuilt'
       /\ NormalizedFirst'
  BY <1>7, <1>9 DEF Reconcile, CorpusTypeOK, BatchIsOwed, RebuildOwesAll, StreamIsRebuilt,
     NormalizedFirst
<1>16. AssertionsStand'
  <2>1. /\ DOMAIN curated'["claim_candidates"] = DOMAIN curated["claim_candidates"]
        /\ curated'["assertions"] = curated["assertions"]
        /\ curated'["extraction_records"] = curated["extraction_records"]
        /\ buffer'["assertions"] = buffer["assertions"]
        /\ buffer'["extraction_records"] = buffer["extraction_records"]
    BY <1>1, <1>6, <1>7, <1>9, TablesWithRows DEF RowTables
  <2> QED
    BY <1>11, <2>1 DEF Reconcile, AssertionsStand
<1> QED
  BY <1>8, <1>10, <1>14, <1>15, <1>16

(* A table is committed from the buffer: the rows move.                    *)
LEMMA CommitTableKeeps ==
    ASSUME CorpusInv, CommitTable
    PROVE  CorpusInv' /\ Grows(curated, curated')
<1> USE DEF CorpusInv
<1>1. PICK i \in Unwritten :
        /\ curated' = [curated EXCEPT ![TableOrder[i]] =
                         CommitRows(TableOrder[i], @, buffer[TableOrder[i]])]
        /\ buffer' = [buffer EXCEPT ![TableOrder[i]] = NoRows]
        /\ \A j \in Unwritten : i <= j
  BY DEF CommitTable
<1>2. PICK t : t = TableOrder[i]
  OBVIOUS
<1>3. t \in Tables /\ buffer[t] # NoRows
  BY <1>1, <1>2 DEF Unwritten, Tables, ToSet
<1>4. t # "claim_candidates"
  BY <1>3 DEF ClaimsAreRead
<1>5. DOMAIN CommitRows(t, curated[t], buffer[t]) = DOMAIN curated[t] \cup DOMAIN buffer[t]
  BY DEF CommitRows
<1>6. /\ DOMAIN curated' = Tables
      /\ DOMAIN curated'[t] = DOMAIN curated[t] \cup DOMAIN buffer[t]
      /\ \A u \in Tables \ {t} : curated'[u] = curated[u]
  BY <1>1, <1>2, <1>3, <1>5 DEF CorpusTypeOK
<1>7. /\ DOMAIN buffer' = Tables
      /\ \A u \in Tables \ {t} : buffer'[u] = buffer[u]
  BY <1>1, <1>2 DEF CorpusTypeOK
<1>8. /\ curated'["claim_candidates"] = curated["claim_candidates"]
      /\ buffer'["claim_candidates"] = buffer["claim_candidates"]
  BY <1>4, <1>6, <1>7, TablesWithRows
<1>9. Grows(curated, curated')
  BY <1>6, <1>8 DEF Grows
<1>10. /\ pc = "commit" /\ Confirmed' = Confirmed
       /\ UNCHANGED <<normalized, pc, batch, stream, owed>>
  BY DEF CommitTable, promoter, Confirmed
<1>11. ASSUME NEW d \in batch
       PROVE  /\ ClaimsStand(curated', d)
              /\ \A u \in RowTables :
                    RowsOf(d)[u] \subseteq DOMAIN curated'[u] \cup DOMAIN buffer'[u]
  <2>1. ClaimsStand(curated', d)
    BY <1>9, <1>10, GrowingKeeps
  <2>2. \A u \in RowTables : DOMAIN curated[u] \cup DOMAIN buffer[u]
                                \subseteq DOMAIN curated'[u] \cup DOMAIN buffer'[u]
    BY <1>6, <1>7, TablesWithRows
  <2> QED
    BY <1>10, <2>1, <2>2 DEF BatchStands
<1>12. \A d \in Confirmed : Whole(curated', d)
  BY <1>9, GrowingKeeps
<1>13. BatchStands' /\ ConfirmedStands' /\ StreamStands'
  BY <1>10, <1>11, <1>12 DEF BatchStands, ConfirmedStands, StreamStands
<1>14. HaveStatus(curated'["claim_candidates"]) /\ ClaimsAreRead'
  BY <1>8 DEF ClaimsAreRead
<1>15. /\ CorpusTypeOK' /\ BatchIsOwed' /\ RebuildOwesAll' /\ StreamIsRebuilt'
       /\ NormalizedFirst'
  BY <1>6, <1>7, <1>10 DEF CorpusTypeOK, BatchIsOwed, RebuildOwesAll, StreamIsRebuilt,
     NormalizedFirst
<1>16. t = "assertions" => buffer["extraction_records"] = NoRows
  <2>1. DOMAIN TableOrder = 1 .. 11 /\ TableOrder[4] = "extraction_records"
    BY DEF TableOrder
  <2>2. ASSUME t = "assertions", 4 \in Unwritten PROVE FALSE
    <3>1. i \in 1 .. 4 /\ TableOrder[i] = "assertions"
      BY <1>1, <1>2, <2>1, <2>2 DEF Unwritten
    <3> QED
      BY <3>1 DEF TableOrder
  <2> QED
    BY <2>1, <2>2 DEF Unwritten
<1>17. AssertionsStand'
  <2>1. {"assertions", "extraction_records"} \subseteq Tables
    BY TablesAre
  <2>2. DOMAIN NoRows = {}
    BY DEF NoRows
  <2>3. CASE t = "assertions"
    <3>1. /\ DOMAIN curated'["assertions"] = DOMAIN curated["assertions"] \cup DOMAIN buffer["assertions"]
          /\ curated'["extraction_records"] = curated["extraction_records"]
          /\ buffer'["assertions"] = NoRows
          /\ buffer'["extraction_records"] = buffer["extraction_records"]
      BY <1>1, <1>2, <1>3, <1>6, <1>7, <2>1, <2>3 DEF CorpusTypeOK
    <3> QED
      BY <1>8, <1>10, <1>16, <2>2, <2>3, <3>1 DEF AssertionsStand
  <2>4. CASE t = "extraction_records"
    <3>1. /\ DOMAIN curated'["extraction_records"] =
               DOMAIN curated["extraction_records"] \cup DOMAIN buffer["extraction_records"]
          /\ curated'["assertions"] = curated["assertions"]
          /\ buffer'["assertions"] = buffer["assertions"]
      BY <1>6, <1>7, <2>1, <2>4
    <3> QED
      BY <1>8, <1>10, <3>1 DEF AssertionsStand
  <2>5. CASE t \notin {"assertions", "extraction_records"}
    <3>1. /\ curated'["extraction_records"] = curated["extraction_records"]
          /\ curated'["assertions"] = curated["assertions"]
          /\ buffer'["assertions"] = buffer["assertions"]
          /\ buffer'["extraction_records"] = buffer["extraction_records"]
      BY <1>6, <1>7, <2>1, <2>5
    <3> QED
      BY <1>8, <1>10, <3>1 DEF AssertionsStand
  <2> QED
    BY <2>3, <2>4, <2>5
<1> QED
  BY <1>9, <1>13, <1>14, <1>15, <1>17

(* A batch is confirmed after all of it is written.                        *)
LEMMA ConfirmKeeps ==
    ASSUME CorpusInv, Confirm
    PROVE  CorpusInv'
<1> USE DEF CorpusInv
<1>1. \A t \in Tables : buffer[t] = NoRows
  BY DEF Confirm, Unwritten, Tables, ToSet
<1>2. \A t \in RowTables : DOMAIN buffer[t] = {}
  BY <1>1, TablesWithRows DEF NoRows
<1>3. \A d \in batch : Whole(curated, d)
  BY <1>2 DEF Confirm, BatchStands, Whole, RowsStand
<1>4. Confirmed' \subseteq Confirmed \cup batch
  BY DEF Confirm, Confirmed
<1>5. ConfirmedStands'
  BY <1>3, <1>4 DEF Confirm, ConfirmedStands
<1>6. UNCHANGED <<normalized, curated, buffer>> /\ pc' = "idle" /\ batch' = {}
      /\ stream' = <<>> /\ owed' \subseteq owed
  BY DEF Confirm, Finished
<1>7. AssertionsStand'
  BY <1>1, <1>6, TablesAre DEF AssertionsStand
<1> QED
  BY <1>5, <1>6, <1>7 DEF CorpusTypeOK, ClaimsAreRead, BatchIsOwed, RebuildOwesAll,
     StreamIsRebuilt, BatchStands, StreamStands, NormalizedFirst

(* A batch breaks off before that.                                         *)
LEMMA BreakOffKeeps ==
    ASSUME CorpusInv, BreakOff
    PROVE  CorpusInv'
<1>1. /\ UNCHANGED <<normalized, curated, owed>> /\ pc' = "idle" /\ batch' = {}
      /\ stream' = <<>> /\ Confirmed' = Confirmed
      /\ buffer' = [t \in Tables |-> NoRows]
  BY DEF BreakOff, Finished, Confirmed
<1>2. buffer'["claim_candidates"] = NoRows /\ buffer'["assertions"] = NoRows
  BY <1>1, TablesAre
<1>3. AssertionsStand' /\ ClaimsAreRead'
  BY <1>1, <1>2 DEF CorpusInv, AssertionsStand, ClaimsAreRead, NoRows
<1> QED
  BY <1>1, <1>3 DEF CorpusInv, CorpusTypeOK, BatchIsOwed, RebuildOwesAll,
     StreamIsRebuilt, BatchStands, StreamStands, NormalizedFirst, ConfirmedStands

(* A rebuild starts with the segments.                                     *)
LEMMA RebuildNormalizedKeeps ==
    ASSUME CorpusInv, RebuildNormalized
    PROVE  CorpusInv'
<1>1. Confirmed' = {}
  BY DEF RebuildNormalized, Begin, Confirmed
<1>2. normalized \subseteq normalized'
  BY DEF CorpusInv, CorpusTypeOK, RebuildNormalized
<1>3. AssertionsStand'
  BY <1>2 DEF CorpusInv, AssertionsStand, RebuildNormalized, Begin
<1> QED
  BY <1>1, <1>3 DEF CorpusInv, RebuildNormalized, Begin, CorpusTypeOK, ClaimsAreRead, BatchIsOwed,
     RebuildOwesAll, StreamIsRebuilt, BatchStands, StreamStands, NormalizedFirst, ConfirmedStands

(* It empties the curated tables, when every document is owed.             *)
LEMMA ResetKeeps ==
    ASSUME CorpusInv, ResetCurated
    PROVE  CorpusInv'
<1> USE DEF CorpusInv
<1>1. pc = "reset" /\ pc' = "rebuild" /\ UNCHANGED <<normalized, buffer, batch, stream, owed>>
      /\ curated' = [t \in Tables |-> NoRows]
  BY DEF ResetCurated
<1>2. Confirmed' = {}
  BY <1>1 DEF RebuildOwesAll, CorpusTypeOK, Confirmed
<1>3. ToSet(stream') = {}
  BY <1>1 DEF StreamIsRebuilt, ToSet
<1>4. HaveStatus(curated'["claim_candidates"])
  <2>1. curated'["claim_candidates"] = NoRows
    BY <1>1, TablesWithRows
  <2> QED
    BY <2>1 DEF HaveStatus, NoRows
<1>5. StreamStands'
  BY <1>3 DEF StreamStands
<1>6. AssertionsStand'
  <2>1. \A t \in {"claim_candidates", "assertions", "extraction_records"} : curated'[t] = NoRows
    BY <1>1, TablesAre
  <2>2. buffer'["assertions"] = NoRows
    BY <1>1 DEF AssertionsStand
  <2> QED
    BY <2>1, <2>2 DEF AssertionsStand, NoRows
<1> QED
  BY <1>1, <1>2, <1>4, <1>5, <1>6 DEF CorpusTypeOK, ClaimsAreRead, BatchIsOwed, RebuildOwesAll,
     StreamIsRebuilt, BatchStands, NormalizedFirst, ConfirmedStands

(* It runs the chain of a document.                                        *)
LEMMA RebuildDocumentKeeps ==
    ASSUME ClaimsAreExtracted, CorpusInv, NEW d \in Docs, RebuildDocument(d)
    PROVE  CorpusInv'
<1> USE DEF CorpusInv
<1>1. PICK chain : chain = ChainRows(<<d>>)
  OBVIOUS
<1>2. ToSet(<<d>>) = {d}
  BY DEF ToSet
<1>3. /\ HaveStatus(chain["claim_candidates"])
      /\ AllPromoted(chain["claim_candidates"])
      /\ \A t \in {"claim_candidates", "extraction_records", "assertions"} :
           DOMAIN chain[t] = UNION {DocClaims[e] : e \in {d}}
      /\ DocClaims[d] \subseteq DOMAIN chain["claim_candidates"]
      /\ RowsStand(chain, d, ChainTables)
  BY <1>1, <1>2, ChainWrites
<1>4. curated' = [t \in Tables |-> CommitRows(t, curated[t], chain[t])]
  BY <1>1 DEF RebuildDocument, CommitAll
<1>5. /\ Grows(curated, curated')
      /\ DOMAIN curated' = Tables
      /\ HaveStatus(curated'["claim_candidates"])
      /\ DOMAIN chain["claim_candidates"] \subseteq Promoted(curated'["claim_candidates"])
      /\ \A t \in Tables : DOMAIN chain[t] \subseteq DOMAIN curated'[t]
  BY <1>3, <1>4, CommitsGrow
<1>6. /\ pc = "rebuild" /\ UNCHANGED <<normalized, buffer, pc, batch, owed>>
      /\ Confirmed' = Confirmed /\ stream' = Append(stream, d)
  BY DEF RebuildDocument, Confirmed
<1>7. stream' \in Seq(Docs) /\ ToSet(stream') = ToSet(stream) \cup {d}
  BY <1>6 DEF CorpusTypeOK, ToSet
<1>8. ClaimsStand(curated', d) /\ RowsStand(curated', d, ChainTables)
  <2>1. ChainTables \subseteq Tables
    BY TablesAre DEF ChainTables
  <2> QED
    BY <1>3, <1>5, <2>1 DEF ClaimsStand, RowsStand
<1>9. StreamStands'
  BY <1>5, <1>6, <1>7, <1>8, GrowingKeeps DEF StreamStands
<1>10. ConfirmedStands'
  BY <1>5, <1>6, GrowingKeeps DEF ConfirmedStands
<1>11. AssertionsStand'
  <2>1. normalized = Docs
    BY <1>6 DEF NormalizedFirst
  <2>2. \A c \in DOMAIN chain["claim_candidates"] : c \in DOMAIN Claim /\ Claim[c].doc \in normalized
    BY <1>3, <2>1, ClaimsAreKnown
  <2>3. \A t \in {"claim_candidates", "extraction_records", "assertions"} :
          DOMAIN curated'[t] = DOMAIN curated[t] \cup DOMAIN chain[t]
    BY <1>4, TablesAre DEF CommitRows
  <2> QED
    BY <1>3, <1>6, <2>2, <2>3 DEF AssertionsStand
<1> QED
  BY <1>5, <1>6, <1>7, <1>9, <1>10, <1>11 DEF CorpusTypeOK, ClaimsAreRead, BatchIsOwed,
     RebuildOwesAll, StreamIsRebuilt, BatchStands, NormalizedFirst

(* It reconciles the corpus.                                               *)
LEMMA RebuildReconcileKeeps ==
    ASSUME CorpusInv, RebuildReconcile
    PROVE  CorpusInv'
<1> USE DEF CorpusInv
<1>1. PICK table : table = curated["claim_candidates"]
  OBVIOUS
<1>2. PICK rows :
        /\ rows["claim_candidates"] = Assigned(table, CanonicalizeClaims(Promoted(table)))
        /\ rows["dup_signatures"] = SignatureRows(Docs)
        /\ rows["dup_bands"] = BandRows(Docs)
        /\ rows["extraction_records"] = NoRows /\ rows["assertions"] = NoRows
        /\ CommitAll(rows)
  <2>1. PICK order : CommitAll(ReconciledRows(table, order))
    BY <1>1 DEF RebuildReconcile
  <2>2. {"dup_signatures", "dup_bands", "claim_candidates", "extraction_records",
         "assertions"} \subseteq Tables
    BY TablesAre
  <2>3. /\ ReconciledRows(table, order)["dup_signatures"] = SignatureRows(Docs)
        /\ ReconciledRows(table, order)["dup_bands"] = BandRows(Docs)
        /\ ReconciledRows(table, order)["claim_candidates"] =
             Assigned(table, CanonicalizeClaims(Promoted(table)))
        /\ ReconciledRows(table, order)["extraction_records"] = NoRows
        /\ ReconciledRows(table, order)["assertions"] = NoRows
    BY <2>2, Zenon DEF ReconciledRows
  <2> QED
    BY <2>1, <2>3
<1>3. HaveStatus(rows["claim_candidates"]) /\ AllPromoted(rows["claim_candidates"])
      /\ DOMAIN rows["claim_candidates"] \subseteq DOMAIN table
  BY <1>1, <1>2, AssignmentKeeps
<1>4. curated' = [t \in Tables |-> CommitRows(t, curated[t], rows[t])]
  BY <1>2 DEF CommitAll
<1>5. /\ Grows(curated, curated')
      /\ DOMAIN curated' = Tables
      /\ HaveStatus(curated'["claim_candidates"])
      /\ \A t \in Tables : DOMAIN rows[t] \subseteq DOMAIN curated'[t]
  BY <1>3, <1>4, CommitsGrow
<1>6. /\ pc = "rebuild" /\ pc' = "idle" /\ UNCHANGED <<normalized, buffer>>
      /\ batch' = {} /\ stream' = <<>> /\ owed' = {}
      /\ ToSet(stream) = Docs
  BY DEF RebuildReconcile, Finished
<1>7. ASSUME NEW d \in Docs PROVE Whole(curated', d)
  <2>1. ClaimsStand(curated', d) /\ RowsStand(curated', d, ChainTables)
    BY <1>5, <1>6, GrowingKeeps
  <2>2. /\ DOMAIN SignatureRows(Docs) = Docs
        /\ DOMAIN BandRows(Docs) = {e \in Docs : Document[e].long}
    BY DEF SignatureRows, BandRows
  <2>3. /\ RowsOf(d)["dup_signatures"] = {d}
        /\ RowsOf(d)["dup_bands"] \subseteq {e \in Docs : Document[e].long}
    BY RowsOfTables
  <2>4. {"dup_signatures", "dup_bands"} \subseteq Tables
    BY TablesAre
  <2>5. RowsStand(curated', d, {"dup_signatures", "dup_bands"})
    BY <1>2, <1>5, <2>2, <2>3, <2>4 DEF RowsStand
  <2> QED
    BY <2>1, <2>5, RowsOfTables DEF Whole, RowsStand
<1>8. Confirmed' \subseteq Docs
  BY <1>6 DEF CorpusTypeOK, Confirmed
<1>9. AssertionsStand'
  <2>1. \A t \in {"claim_candidates", "extraction_records", "assertions"} :
          DOMAIN curated'[t] = DOMAIN curated[t] \cup DOMAIN rows[t]
    BY <1>4, TablesAre DEF CommitRows
  <2>2. DOMAIN NoRows = {}
    BY DEF NoRows
  <2>3. /\ DOMAIN curated'["extraction_records"] = DOMAIN curated["extraction_records"]
        /\ DOMAIN curated'["assertions"] = DOMAIN curated["assertions"]
    <3> HIDE DEF CorpusInv
    <3> QED
      BY <1>2, <2>1, <2>2
  <2>4. DOMAIN curated'["claim_candidates"] = DOMAIN curated["claim_candidates"]
    BY <1>1, <1>3, <2>1
  <2> QED
    BY <1>6, <2>3, <2>4 DEF AssertionsStand
<1> QED
  BY <1>5, <1>6, <1>7, <1>8, <1>9 DEF CorpusTypeOK, ClaimsAreRead, BatchIsOwed, RebuildOwesAll,
     StreamIsRebuilt, BatchStands, StreamStands, NormalizedFirst, ConfirmedStands

(* Every step keeps the invariant.                                         *)
LEMMA NextCorpusInv ==
    ASSUME ClaimsAreExtracted, CorpusInv, [Next]_vars
    PROVE  CorpusInv'
<1>1. CASE UNCHANGED <<normalized, curated, buffer, pc, batch, stream, owed>>
  BY <1>1 DEF CorpusInv, CorpusTypeOK, ClaimsAreRead, BatchIsOwed, RebuildOwesAll,
     StreamIsRebuilt, BatchStands, StreamStands, NormalizedFirst, AssertionsStand,
     ConfirmedStands, Confirmed
<1>2. CASE Promote
  BY <1>2, DeliverKeeps, NormalizeKeeps, RunChainKeeps, ReconcileKeeps, CommitTableKeeps,
     ConfirmKeeps, BreakOffKeeps DEF Promote
<1>3. CASE Rebuild
  BY <1>3, RebuildNormalizedKeeps, ResetKeeps, RebuildDocumentKeeps, RebuildReconcileKeeps
     DEF Rebuild
<1>4. CASE Evaluate
  BY <1>1, <1>4 DEF Evaluate, RunBreaksOff, corpus, promoter
<1> QED
  BY <1>1, <1>2, <1>3, <1>4 DEF Next, vars, corpus, promoter

(* The inductive invariant of promotions and rebuilds.                     *)
THEOREM CorpusInvariance ==
    ASSUME ClaimsAreExtracted
    PROVE  Spec => []CorpusInv
<1>1. Init => CorpusInv
  BY InitCorpusInv
<1>2. CorpusInv /\ [Next]_vars => CorpusInv'
  BY NextCorpusInv
<1> QED
  BY <1>1, <1>2, PTL DEF Spec

(* And it implies the property the run checks.                             *)
LEMMA CorpusInvSuffices == CorpusInv => ConfirmedIsWhole
<1> SUFFICES ASSUME CorpusInv PROVE ConfirmedIsWhole
  OBVIOUS
<1>1. ASSUME NEW d \in Confirmed
      PROVE  /\ d \in DOMAIN curated["dup_signatures"]
             /\ Document[d].long => d \in DOMAIN curated["dup_bands"]
             /\ EntitiesOf[d] \subseteq DOMAIN curated["entities"]
             /\ DocClaims[d] \subseteq Promoted(curated["claim_candidates"])
             /\ DocClaims[d] \subseteq DOMAIN curated["extraction_records"]
             /\ DocClaims[d] \subseteq DOMAIN curated["assertions"]
  BY <1>1 DEF CorpusInv, ConfirmedStands, Whole, ClaimsStand, RowsStand, RowTables, RowsOf
<1> QED
  BY <1>1 DEF CorpusInv, ConfirmedIsWhole

(* A document whose promotion was confirmed is whole in every table:       *)
(* promote_raw_refs returns, or rebuild_zones ends, only when all that was *)
(* buffered for it is on file, and nothing but a rebuild takes a row away. *)
THEOREM ConfirmedDocumentsAreWhole ==
    ASSUME ClaimsAreExtracted
    PROVE  Spec => []ConfirmedIsWhole
  BY CorpusInvariance, CorpusInvSuffices, PTL

-------------------------------------------------------------------------------
(* What an investigation has read.                                         *)

Asserted == DOMAIN curated["assertions"]

Candidates == DOMAIN curated["claim_candidates"]

(* The names an object has read its first tables by.                       *)
Names(this, k) == {Reads[this][i][1] : i \in 1 .. k}

(* A statement that asserts something is about the subject asked for, and  *)
(* its claim is an assertion on file.                                      *)
Sound(statement, subject) ==
    IF Verifiable(statement)
    THEN statement.claim \in Asserted /\ Claim[statement.claim].subject = subject
    ELSE statement.claim = None

Placed(statement, subject) ==
    IF Verifiable(statement)
    THEN Claim[statement.claim].subject = subject /\ Claim[statement.claim].doc \in normalized
    ELSE statement.claim = None

ReaderTypeOK ==
    /\ stage \in DOMAIN Reads \cup {"none", "report", "done"}
    /\ DOMAIN result = DOMAIN NoResult

(* Nothing is taken from the tables while an investigation reads them.     *)
ZoneStays == stage \notin {"none", "done"} => pc \notin {"reset", "rebuild"}

HeldInOrder ==
    /\ stage \in DOMAIN Reads =>
        \E k \in 0 .. Len(Reads[stage]) - 1 : DOMAIN held = Names(stage, k)
    /\ stage \notin DOMAIN Reads => held = <<>>

(* What was read is still on file: tables only gain rows meanwhile.        *)
HeldIsOnFile ==
    /\ \A name \in DOMAIN held \cap {"known", "assertions"} : held[name] \subseteq Asserted
    /\ "claims" \in DOMAIN held => held["claims"] \subseteq Candidates

(* What the plan knows has an assertion, and every table read since has it.*)
Backed(part) ==
    \E a \in Asserted :
        /\ Claim[a].subject = part.subject
        /\ \A name \in DOMAIN held \cap {"claims", "assertions"} : a \in held[name]

PlanIsBacked ==
    stage \in {"coverage", "conclusion"} =>
        \A i \in DOMAIN result.plan : result.plan[i].known => Backed(result.plan[i])

PlanIsCovered ==
    stage \notin {"none", "facade", "plan", "coverage"} =>
        \A i \in DOMAIN result.plan : result.plan[i].known => i \notin result.coverage.gaps

SeedHasEvidence ==
    stage \notin {"none", "facade", "plan", "coverage", "conclusion"} =>
        \A i \in DOMAIN result.plan :
            result.plan[i].known /\ result.plan[i].subject = result.seed =>
                result.conclusion.evidence > 0

(* What the conclusion has predicates of has assertions that can be cited. *)
PredicatesAreAsserted ==
    stage = "statements" /\ result.conclusion.predicates # {} =>
        About(Asserted, result.seed) # {}

StatementsAreSound ==
    stage \in {"llm", "check", "audit"} =>
        \A i \in DOMAIN result.statements : Sound(result.statements[i], result.seed)

OutputIsSound ==
    stage = "check" =>
        /\ Len(result.output) \in Nat
        /\ DOMAIN result.output = 1 .. Len(result.output)
        /\ \A i \in DOMAIN result.output : Sound(result.output[i], result.seed)

(* What passed the audit stays where it was found.                         *)
TraceStands ==
    stage \in {"report", "done"} =>
        /\ DOMAIN result.trace = DOMAIN result.statements
        /\ \A i \in DOMAIN result.statements :
            /\ ValidStatement(result.statements[i], result.trace[i])
            /\ Placed(result.statements[i], result.seed)

ReportStands == stage = "done" => result.report.fallback_reason # "audit_rejected"

ReaderInv ==
    /\ ReaderTypeOK
    /\ ZoneStays
    /\ HeldInOrder
    /\ HeldIsOnFile
    /\ PlanIsBacked
    /\ PlanIsCovered
    /\ SeedHasEvidence
    /\ PredicatesAreAsserted
    /\ StatementsAreSound
    /\ OutputIsSound
    /\ TraceStands
    /\ ReportStands

(* The reads of a question, in their order.                                *)
LEMMA ReadsAre ==
    /\ DOMAIN Reads = {"facade", "plan", "coverage", "conclusion", "statements", "llm",
                       "check", "audit"}
    /\ Reads["facade"] = << <<"graph", "assertions">>, <<"claims", "claim_candidates">>,
                            <<"assertions", "assertions">>, <<"roots", "dup_clusters">>,
                            <<"additions", "dup_clusters">> >>
    /\ Reads["plan"] = << <<"known", "assertions">>, <<"forms", "entities">> >>
    /\ Reads["coverage"] = << <<"claims", "claim_candidates">>, <<"assertions", "assertions">> >>
    /\ Reads["conclusion"] = << <<"claims", "claim_candidates">>,
                                <<"conflicts", "conflict_candidates">>,
                                <<"assertions", "assertions">>, <<"roots", "dup_clusters">> >>
    /\ Reads["statements"] = << <<"assertions", "assertions">> >>
    /\ Reads["llm"] = << <<"assertions", "assertions">>, <<"claims", "claim_candidates">> >>
    /\ Reads["check"] = << <<"records", "extraction_records">> >>
    /\ Reads["audit"] = << <<"records", "extraction_records">> >>
  BY DEF Reads

(* An object keeps each table by a name of its own, and what it keeps by   *)
(* the same name is rows of the same table.                                *)
LEMMA NamesAreDistinct ==
    ASSUME NEW this \in DOMAIN Reads
    PROVE  /\ Len(Reads[this]) \in 1 .. 5
           /\ \A i, j \in 1 .. Len(Reads[this]) : Reads[this][i][1] = Reads[this][j][1] => i = j
           /\ \A i \in 1 .. Len(Reads[this]) :
                /\ Reads[this][i][1] \in {"known", "assertions"} => Reads[this][i][2] = "assertions"
                /\ Reads[this][i][1] = "claims" => Reads[this][i][2] = "claim_candidates"
<1>1. CASE this = "facade"
  <2>1. Reads[this] = << <<"graph", "assertions">>, <<"claims", "claim_candidates">>,
                         <<"assertions", "assertions">>, <<"roots", "dup_clusters">>,
                         <<"additions", "dup_clusters">> >>
    BY <1>1, ReadsAre
  <2> QED
    BY <2>1
<1>2. CASE this = "plan"
  <2>1. Reads[this] = << <<"known", "assertions">>, <<"forms", "entities">> >>
    BY <1>2, ReadsAre
  <2> QED
    BY <2>1
<1>3. CASE this = "coverage"
  <2>1. Reads[this] = << <<"claims", "claim_candidates">>, <<"assertions", "assertions">> >>
    BY <1>3, ReadsAre
  <2> QED
    BY <2>1
<1>4. CASE this = "conclusion"
  <2>1. Reads[this] = << <<"claims", "claim_candidates">>,
                         <<"conflicts", "conflict_candidates">>,
                         <<"assertions", "assertions">>, <<"roots", "dup_clusters">> >>
    BY <1>4, ReadsAre
  <2> QED
    BY <2>1
<1>5. CASE this = "llm"
  <2>1. Reads[this] = << <<"assertions", "assertions">>, <<"claims", "claim_candidates">> >>
    BY <1>5, ReadsAre
  <2> QED
    BY <2>1
<1>6. CASE this \in {"statements", "check", "audit"}
  <2>1. Reads[this] \in {<< <<"assertions", "assertions">> >>, << <<"records", "extraction_records">> >>}
    BY <1>6, ReadsAre
  <2> QED
    BY <2>1
<1> QED
  BY <1>1, <1>2, <1>3, <1>4, <1>5, <1>6, ReadsAre

(* Up to each read, as many names are read.                                *)
LEMMA NamesCount ==
    ASSUME NEW this \in DOMAIN Reads, NEW k \in 0 .. Len(Reads[this])
    PROVE  IsFiniteSet(Names(this, k)) /\ Cardinality(Names(this, k)) = k
<1> DEFINE Counted(n) == IsFiniteSet(Names(this, n)) /\ Cardinality(Names(this, n)) = n
<1>1. Len(Reads[this]) \in 1 .. 5
  BY NamesAreDistinct
<1>2. Counted(0)
  <2>1. Names(this, 0) = {}
    BY DEF Names
  <2> QED
    BY <2>1, FS_EmptySet
<1>3. ASSUME NEW n \in Nat, n < Len(Reads[this]), Counted(n) PROVE Counted(n + 1)
  <2>1. Names(this, n + 1) = Names(this, n) \cup {Reads[this][n + 1][1]}
    <3>1. 1 .. (n + 1) = (1 .. n) \cup {n + 1}
      BY <1>3
    <3> QED
      BY <3>1 DEF Names
  <2>2. Reads[this][n + 1][1] \notin Names(this, n)
    <3> SUFFICES ASSUME NEW i \in 1 .. n, Reads[this][i][1] = Reads[this][n + 1][1] PROVE FALSE
      BY DEF Names
    <3>1. i \in 1 .. Len(Reads[this]) /\ n + 1 \in 1 .. Len(Reads[this])
      BY <1>1, <1>3
    <3>2. i = n + 1
      BY <3>1, NamesAreDistinct
    <3> QED
      BY <3>2
  <2> QED
    BY <1>3, <2>1, <2>2, FS_AddElement
<1> HIDE DEF Counted
<1>4. ASSUME NEW n \in {1, 2, 3, 4, 5}, n <= Len(Reads[this]) PROVE Counted(n)
  <2>1. Counted(1)
    <3>1. 0 < Len(Reads[this])
      BY <1>1
    <3> QED
      BY <1>2, <1>3, <3>1
  <2>2. 2 <= Len(Reads[this]) => Counted(2)
    BY <1>1, <2>1, <1>3
  <2>3. 3 <= Len(Reads[this]) => Counted(3)
    BY <1>1, <2>2, <1>3
  <2>4. 4 <= Len(Reads[this]) => Counted(4)
    BY <1>1, <2>3, <1>3
  <2>5. 5 <= Len(Reads[this]) => Counted(5)
    BY <1>1, <2>4, <1>3
  <2> QED
    BY <1>4, <2>1, <2>2, <2>3, <2>4, <2>5
<1>5. k = 0 \/ (k \in {1, 2, 3, 4, 5} /\ k <= Len(Reads[this]))
  <2>1. PICK n \in 1 .. 5 : n = Len(Reads[this])
    BY <1>1
  <2>2. k \in 0 .. n
    BY <2>1
  <2>3. k = 0 \/ (k \in {1, 2, 3, 4, 5} /\ k <= n)
    BY <2>2
  <2> QED
    BY <2>1, <2>3
<1> QED
  BY <1>2, <1>4, <1>5 DEF Counted

(* What a read of each table returns.                                      *)
LEMMA RowsAre ==
    /\ Rows("assertions") = Asserted
    /\ Rows("claim_candidates") = Candidates
    /\ Rows("extraction_records") = DOMAIN curated["extraction_records"]
  BY Zenon DEF Rows, Asserted, Candidates

(* What the object at work holds with its next table.                      *)
LEMMA NextIsRead ==
    ASSUME HeldInOrder, HeldIsOnFile, NEW this \in DOMAIN Reads, stage = this,
           NEW k, k = Cardinality(DOMAIN held)
    PROVE  /\ k \in 0 .. Len(Reads[this]) - 1
           /\ DOMAIN held = Names(this, k)
           /\ DOMAIN AndNext = Names(this, k + 1)
           /\ \A name \in DOMAIN held : AndNext[name] = held[name]
           /\ Reads[this][k + 1][1] \notin DOMAIN held
           /\ AndNext[Reads[this][k + 1][1]] = Rows(Reads[this][k + 1][2])
           /\ \A name \in DOMAIN AndNext \cap {"known", "assertions"} :
                AndNext[name] \subseteq Asserted
           /\ "claims" \in DOMAIN AndNext => AndNext["claims"] \subseteq Candidates
<1>1. PICK n \in 0 .. Len(Reads[this]) - 1 : DOMAIN held = Names(this, n)
  BY DEF HeldInOrder
<1>2. Len(Reads[this]) \in 1 .. 5
  BY NamesAreDistinct
<1>3. n = k
  BY <1>1, <1>2, NamesCount
<1> DEFINE next == Reads[this][k + 1]
<1>4. Names(this, k + 1) = Names(this, k) \cup {next[1]}
  <2>1. 1 .. (k + 1) = (1 .. k) \cup {k + 1}
    BY <1>1, <1>3
  <2> QED
    BY <2>1 DEF Names
<1>5. next[1] \notin Names(this, k)
  <2> SUFFICES ASSUME NEW i \in 1 .. k, Reads[this][i][1] = next[1] PROVE FALSE
    BY DEF Names
  <2>1. i \in 1 .. Len(Reads[this]) /\ k + 1 \in 1 .. Len(Reads[this])
    BY <1>1, <1>2, <1>3
  <2>2. i = k + 1
    BY <2>1, NamesAreDistinct
  <2> QED
    BY <1>1, <1>3, <2>2
<1>6. /\ next[1] \in {"known", "assertions"} => next[2] = "assertions"
      /\ next[1] = "claims" => next[2] = "claim_candidates"
  BY <1>1, <1>2, <1>3, NamesAreDistinct
<1>7. AndNext = [name \in DOMAIN held \cup {next[1]} |->
                    IF name \in DOMAIN held THEN held[name] ELSE Rows(next[2])]
  BY DEF AndNext
<1> HIDE DEF next
<1>8. /\ DOMAIN AndNext = DOMAIN held \cup {next[1]}
      /\ \A name \in DOMAIN held : AndNext[name] = held[name]
      /\ AndNext[next[1]] = Rows(next[2])
  <2> HIDE DEF Names
  <2> QED
    BY <1>1, <1>3, <1>5, <1>7
<1>9. \A name \in DOMAIN AndNext \cap {"known", "assertions"} : AndNext[name] \subseteq Asserted
  BY <1>6, <1>8, RowsAre DEF HeldIsOnFile
<1>10. "claims" \in DOMAIN AndNext => AndNext["claims"] \subseteq Candidates
  BY <1>6, <1>8, RowsAre DEF HeldIsOnFile
<1> QED
  BY <1>1, <1>3, <1>4, <1>5, <1>8, <1>9, <1>10 DEF next

-------------------------------------------------------------------------------
(* Picking from a sequence.                                                *)

(* A set of naturals that is not empty has a least element: otherwise the  *)
(* bounds below it, of which there are finitely many, would be closed under*)
(* the successor.                                                          *)
LEMMA LeastNatural ==
    ASSUME NEW S, S \subseteq Nat, S # {}
    PROVE  \E m \in S : \A n \in S : m <= n
<1> DEFINE L == {k \in Nat : \A n \in S : k <= n}
           next == [k \in L |-> k + 1]
<1>1. SUFFICES ASSUME \A m \in S : \E n \in S : n < m PROVE FALSE
  OBVIOUS
<1>2. IsFiniteSet(L)
  <2>1. PICK x \in S : TRUE
    OBVIOUS
  <2>2. L \subseteq 0 .. x /\ IsFiniteSet(0 .. x)
    BY FS_Interval
  <2> QED
    BY <2>2, FS_Subset
<1>3. 0 \in L
  OBVIOUS
<1>4. next \in [L -> L \ {0}]
  BY <1>1
<1>5. IsFiniteSet(L \ {0}) /\ Cardinality(L \ {0}) < Cardinality(L)
  <2> HIDE DEF L
  <2>1. Cardinality(L) \in Nat
    BY <1>2, FS_CardinalityType
  <2>2. IsFiniteSet(L \ {0}) /\ Cardinality(L \ {0}) = Cardinality(L) - 1
    BY <1>2, <1>3, FS_RemoveElement
  <2> QED
    BY <2>1, <2>2
<1>6. \E j, k \in L : j # k /\ next[j] = next[k]
  <2> HIDE DEF L, next
  <2> QED
    BY <1>2, <1>4, <1>5, FS_PigeonHole
<1> QED
  BY <1>6

PickedUpTo(s, S, n, f) ==
    f = [k \in 0 .. n |->
            IF k = 0 THEN <<>>
            ELSE IF s[k] \in S THEN Append(f[k - 1], s[k]) ELSE f[k - 1]]

(* The function that picks a list's elements, one further.                 *)
LEMMA PickingGoesOn ==
    ASSUME NEW s, NEW S, NEW m \in Nat, NEW f, PickedUpTo(s, S, m, f)
    PROVE  \E g : PickedUpTo(s, S, m + 1, g)
<1> DEFINE last == IF s[m + 1] \in S THEN Append(f[m], s[m + 1]) ELSE f[m]
           g == [k \in 0 .. (m + 1) |-> IF k = m + 1 THEN last ELSE f[k]]
<1>1. ASSUME NEW k \in 0 .. (m + 1)
      PROVE  g[k] = IF k = 0 THEN <<>>
                    ELSE IF s[k] \in S THEN Append(g[k - 1], s[k]) ELSE g[k - 1]
  <2>1. CASE k = m + 1
    BY <2>1
  <2>2. CASE k \in 0 .. m
    <3>1. g[k] = f[k] /\ (k # 0 => g[k - 1] = f[k - 1])
      BY <2>2
    <3> HIDE DEF g
    <3> QED
      BY <2>2, <3>1 DEF PickedUpTo
  <2> QED
    BY <2>1, <2>2
<1>2. g = [k \in 0 .. (m + 1) |-> g[k]]
  OBVIOUS
<1> HIDE DEF g
<1>3. PickedUpTo(s, S, m + 1, g)
  BY <1>1, <1>2 DEF PickedUpTo
<1> QED
  BY <1>3

(* So it exists.                                                           *)
LEMMA PickingEnds ==
    ASSUME NEW s, NEW S, NEW n \in Nat
    PROVE  \E f : PickedUpTo(s, S, n, f)
<1> DEFINE Bad == {m \in Nat : ~ \E f : PickedUpTo(s, S, m, f)}
<1>1. SUFFICES ASSUME n \in Bad PROVE FALSE
  OBVIOUS
<1>2. PICK m \in Bad : \A k \in Bad : m <= k
  BY <1>1, LeastNatural
<1>3. m # 0
  <2>1. PickedUpTo(s, S, 0, [k \in 0 .. 0 |-> <<>>])
    BY DEF PickedUpTo
  <2> QED
    BY <2>1
<1>4. m - 1 \in Nat /\ m - 1 \notin Bad
  BY <1>2, <1>3
<1>5. \E f : PickedUpTo(s, S, (m - 1) + 1, f)
  BY <1>4, PickingGoesOn
<1> QED
  BY <1>2, <1>5

(* What is picked are elements, of the set.                                *)
LEMMA PickedAreElements ==
    ASSUME NEW s, NEW S, Len(s) \in Nat
    PROVE  Picked(s, S) \in Seq({s[n] : n \in 1 .. Len(s)} \cap S)
<1> DEFINE upTo == CHOOSE f : PickedUpTo(s, S, Len(s), f)
           T == {s[n] : n \in 1 .. Len(s)} \cap S
           Bad == {n \in 0 .. Len(s) : upTo[n] \notin Seq(T)}
<1>1. PickedUpTo(s, S, Len(s), upTo)
  BY PickingEnds
<1>2. Picked(s, S) = upTo[Len(s)]
  BY DEF Picked, PickedUpTo
<1> HIDE DEF upTo
<1>3. Bad = {}
  <2> SUFFICES ASSUME NEW n \in Bad PROVE FALSE
    OBVIOUS
  <2>1. Bad \in SUBSET Nat
    OBVIOUS
  <2> HIDE DEF Bad
  <2>2. PICK m \in Bad : \A k \in Bad : m <= k
    BY <2>1, LeastNatural
  <2> USE DEF Bad
  <2>3. m # 0
    BY <1>1 DEF PickedUpTo
  <2>4. m - 1 \in 0 .. Len(s) /\ m - 1 \notin Bad
    BY <2>2, <2>3
  <2>5. upTo[m - 1] \in Seq(T)
    BY <2>4
  <2>6. upTo[m] = IF s[m] \in S THEN Append(upTo[m - 1], s[m]) ELSE upTo[m - 1]
    BY <1>1, <2>2, <2>3 DEF PickedUpTo
  <2>7. s[m] \in S => s[m] \in T
    BY <2>2, <2>3
  <2>8. upTo[m] \notin Seq(T)
    BY <2>2
  <2> HIDE DEF T, Bad
  <2>9. s[m] \in S => Append(upTo[m - 1], s[m]) \in Seq(T)
    BY <2>5, <2>7, AppendProperties
  <2> QED
    BY <2>5, <2>6, <2>8, <2>9
<1> QED
  BY <1>2, <1>3

-------------------------------------------------------------------------------
(* The steps of an investigation.                                          *)

(* What the corpus promises an investigation.                              *)
LEMMA CorpusFacts ==
    ASSUME ClaimsAreExtracted, CorpusInv
    PROVE  /\ Asserted \subseteq Candidates
           /\ Asserted \subseteq DOMAIN curated["extraction_records"]
           /\ Candidates \subseteq DOMAIN Claim
           /\ \A c \in Candidates : Claim[c].doc \in normalized
           /\ normalized \subseteq Docs
           /\ IsFiniteSet(DOMAIN Claim) /\ DOMAIN Claim \subseteq Nat
           /\ Docs \subseteq Nat /\ IsFiniteSet(Docs) /\ None \notin Nat
<1>1. IsFiniteSet(DOMAIN Claim) /\ DOMAIN Claim \subseteq Nat
  <2>1. DOMAIN Claim = 1 .. Len(Claim) /\ Len(Claim) \in Nat
    BY LenProperties DEF ClaimsAreExtracted
  <2> QED
    BY <2>1, FS_Interval
<1> QED
  BY <1>1, RulesAssumption, CorpusAssumption, ReaderAssumption
     DEF CorpusInv, CorpusTypeOK, AssertionsStand, Asserted, Candidates

(* Each step of a question keeps the invariant: it is asked.               *)
LEMMA OpenKeepsReader ==
    ASSUME ReaderInv, NEW r, Open(r), UNCHANGED corpus
    PROVE  ReaderInv'
<1> USE DEF ReaderInv
<1>1. /\ stage \in {"none", "done"} /\ stage' = "facade" /\ result' = NoResult
      /\ UNCHANGED <<held, pc, curated, normalized>>
      /\ pc \notin {"reset", "rebuild"}
  BY DEF Open, corpus, promoter
<1>2. DOMAIN held = {} /\ Names("facade", 0) = {} /\ Len(Reads["facade"]) = 5
  BY <1>1, ReadsAre DEF HeldInOrder, Names
<1>3. HeldInOrder'
  BY <1>1, <1>2, ReadsAre DEF HeldInOrder, Names
<1> QED
  BY <1>1, <1>2, <1>3, ReadsAre
     DEF ReaderTypeOK, ZoneStays, HeldIsOnFile, PlanIsBacked, PlanIsCovered, SeedHasEvidence,
         PredicatesAreAsserted, StatementsAreSound, OutputIsSound, TraceStands, ReportStands

(* A table is read, while the corpus is what it is now.                    *)
LEMMA ReadKeepsReader ==
    ASSUME ClaimsAreExtracted, CorpusInv, ReaderInv, Read, UNCHANGED corpus
    PROVE  ReaderInv'
<1> USE DEF ReaderInv
<1>1. /\ stage \in DOMAIN Reads
      /\ Cardinality(DOMAIN held) + 1 < Len(Reads[stage])
      /\ held' = AndNext
      /\ UNCHANGED <<stage, result, pc, curated, normalized>>
  BY DEF Read, corpus, promoter
<1>2. PICK k : k = Cardinality(DOMAIN held)
  OBVIOUS
<1>3. /\ k \in 0 .. Len(Reads[stage]) - 1
      /\ DOMAIN AndNext = Names(stage, k + 1)
      /\ \A name \in DOMAIN held : AndNext[name] = held[name]
      /\ Reads[stage][k + 1][1] \notin DOMAIN held
      /\ AndNext[Reads[stage][k + 1][1]] = Rows(Reads[stage][k + 1][2])
      /\ \A name \in DOMAIN AndNext \cap {"known", "assertions"} :
           AndNext[name] \subseteq Asserted
      /\ "claims" \in DOMAIN AndNext => AndNext["claims"] \subseteq Candidates
  BY <1>1, <1>2, NextIsRead
<1>4. UNCHANGED <<Asserted, Candidates>>
  BY <1>1 DEF Asserted, Candidates
<1>5. HeldInOrder'
  <2>1. k + 1 \in 0 .. Len(Reads[stage]) - 1
    BY <1>1, <1>2, <1>3, NamesAreDistinct
  <2>2. DOMAIN held' = Names(stage, k + 1)'
    BY <1>1, <1>3 DEF Names
  <2> QED
    BY <1>1, <2>1, <2>2 DEF HeldInOrder
<1>6. HeldIsOnFile'
  BY <1>1, <1>3, <1>4 DEF HeldIsOnFile
<1>7. PlanIsBacked'
  <2> SUFFICES ASSUME stage \in {"coverage", "conclusion"},
                      NEW i \in DOMAIN result.plan, result.plan[i].known
               PROVE  Backed(result.plan[i])'
    BY <1>1 DEF PlanIsBacked
  <2>1. PICK a \in Asserted :
          /\ Claim[a].subject = result.plan[i].subject
          /\ \A name \in DOMAIN held \cap {"claims", "assertions"} : a \in held[name]
    BY DEF PlanIsBacked, Backed
  <2>2. a \in Rows("assertions") /\ a \in Rows("claim_candidates")
    BY <2>1, RowsAre, CorpusFacts
  <2>3. DOMAIN AndNext = DOMAIN held \cup {Reads[stage][k + 1][1]}
    BY <1>2 DEF AndNext
  <2>4. /\ Reads[stage][k + 1][1] = "assertions" => Reads[stage][k + 1][2] = "assertions"
        /\ Reads[stage][k + 1][1] = "claims" => Reads[stage][k + 1][2] = "claim_candidates"
    BY <1>1, <1>3, NamesAreDistinct
  <2>5. \A name \in DOMAIN AndNext \cap {"claims", "assertions"} : a \in AndNext[name]
    BY <1>3, <2>1, <2>2, <2>3, <2>4
  <2> QED
    BY <1>1, <1>4, <2>1, <2>5 DEF Backed
<1> QED
  BY <1>1, <1>4, <1>5, <1>6, <1>7
     DEF ReaderTypeOK, ZoneStays, PlanIsCovered, SeedHasEvidence, About,
         PredicatesAreAsserted, StatementsAreSound, OutputIsSound, TraceStands, ReportStands,
         Sound, Placed

(* What the steps that end an object's work have in common.                *)
LEMMA ThroughLeads ==
    ASSUME ReaderInv, NEW this \in DOMAIN Reads, NEW next, Through(this, next),
           next \in DOMAIN Reads \cup {"report"}, UNCHANGED corpus
    PROVE  /\ stage = this /\ stage' = next
           /\ Cardinality(DOMAIN held) + 1 = Len(Reads[this])
           /\ held' = <<>> /\ UNCHANGED <<pc, curated, normalized>>
           /\ UNCHANGED <<Asserted, Candidates>>
           /\ ZoneStays' /\ HeldInOrder' /\ HeldIsOnFile'
<1>1. /\ stage = this /\ stage' = next /\ held' = <<>>
      /\ Cardinality(DOMAIN held) + 1 = Len(Reads[this])
      /\ UNCHANGED <<pc, curated, normalized>>
  BY DEF Through, corpus, promoter
<1>2. ZoneStays'
  <2>1. this \notin {"none", "done"}
    BY ReadsAre
  <2> QED
    BY <1>1, <2>1 DEF ReaderInv, ZoneStays
<1>3. HeldInOrder'
  <2>1. Names(next, 0) = {} /\ DOMAIN <<>> = {}
    BY DEF Names
  <2>2. next \in DOMAIN Reads => 0 \in 0 .. Len(Reads[next]) - 1
    <3> SUFFICES ASSUME next \in DOMAIN Reads PROVE 0 \in 0 .. Len(Reads[next]) - 1
      OBVIOUS
    <3>1. PICK n \in 1 .. 5 : n = Len(Reads[next])
      BY NamesAreDistinct
    <3> QED
      BY <3>1
  <2> QED
    <3>1. DOMAIN held' = Names(next, 0)
      BY <1>1, <2>1
    <3>2. stage' \in DOMAIN Reads =>
            \E k \in 0 .. Len(Reads[stage']) - 1 : DOMAIN held' = Names(stage', k)
      BY <1>1, <2>2, <3>1
    <3>3. stage' \notin DOMAIN Reads => held' = <<>>
      BY <1>1
    <3> QED
      BY <3>2, <3>3 DEF HeldInOrder
<1>4. HeldIsOnFile'
  BY <1>1 DEF HeldIsOnFile
<1> QED
  BY <1>1, <1>2, <1>3, <1>4 DEF Asserted, Candidates

(* The tables an object has when it comes to its result.                   *)
LEMMA LastIsRead ==
    ASSUME ReaderInv, NEW this \in DOMAIN Reads, stage = this,
           Cardinality(DOMAIN held) + 1 = Len(Reads[this]),
           NEW view, view = AndNext
    PROVE  /\ this = "plan" => view["known"] \subseteq Asserted
           /\ this = "coverage" =>
                /\ view["assertions"] = Asserted
                /\ "claims" \in DOMAIN held /\ view["claims"] = held["claims"]
           /\ this = "conclusion" =>
                /\ {"claims", "assertions"} \subseteq DOMAIN held
                /\ view["claims"] = held["claims"] /\ view["claims"] \subseteq Candidates
                /\ view["assertions"] = held["assertions"]
                /\ view["assertions"] \subseteq Asserted
           /\ this = "statements" => view["assertions"] = Asserted
           /\ this = "llm" => view["assertions"] \subseteq Asserted
           /\ this \in {"check", "audit"} =>
                view["records"] = DOMAIN curated["extraction_records"]
<1> USE DEF ReaderInv
<1>1. PICK k : k = Cardinality(DOMAIN held)
  OBVIOUS
<1>2. /\ DOMAIN held = Names(this, k)
      /\ DOMAIN view = Names(this, k + 1)
      /\ \A name \in DOMAIN held : view[name] = held[name]
      /\ view[Reads[this][k + 1][1]] = Rows(Reads[this][k + 1][2])
      /\ \A name \in DOMAIN view \cap {"known", "assertions"} : view[name] \subseteq Asserted
      /\ "claims" \in DOMAIN view => view["claims"] \subseteq Candidates
  BY <1>1, NextIsRead
<1>3. Len(Reads[this]) \in 1 .. 5 /\ k + 1 = Len(Reads[this]) /\ k \in Nat
  <2>1. k \in 0 .. Len(Reads[this]) - 1
    BY <1>1, NextIsRead
  <2>2. Len(Reads[this]) \in 1 .. 5
    BY NamesAreDistinct
  <2> QED
    BY <1>1, <2>1, <2>2
<1>4. \A i \in 1 .. k : Reads[this][i][1] \in DOMAIN held
  BY <1>2 DEF Names
<1>5. \A i \in 1 .. k + 1 : Reads[this][i][1] \in DOMAIN view
  BY <1>2 DEF Names
<1>6. CASE this = "plan"
  <2>1. k = 1 /\ Reads[this][1][1] = "known"
    BY <1>3, <1>6, ReadsAre
  <2> QED
    BY <1>2, <1>5, <1>6, <2>1
<1>7. CASE this = "coverage"
  <2>1. /\ k = 1 /\ Reads[this][1][1] = "claims" /\ Reads[this][2][1] = "assertions"
        /\ Reads[this][2][2] = "assertions"
    BY <1>3, <1>7, ReadsAre
  <2> QED
    BY <1>2, <1>4, <1>7, <2>1, RowsAre
<1>8. CASE this = "conclusion"
  <2>1. k = 3 /\ Reads[this][1][1] = "claims" /\ Reads[this][3][1] = "assertions"
    BY <1>3, <1>8, ReadsAre
  <2> QED
    BY <1>2, <1>4, <1>5, <1>8, <2>1
<1>9. CASE this = "statements"
  <2>1. k = 0 /\ Reads[this][1] = <<"assertions", "assertions">>
    BY <1>3, <1>9, ReadsAre
  <2> QED
    BY <1>2, <1>9, <2>1, RowsAre
<1>10. CASE this = "llm"
  <2>1. k = 1 /\ Reads[this][1][1] = "assertions"
    BY <1>3, <1>10, ReadsAre
  <2> QED
    BY <1>2, <1>5, <1>10, <2>1
<1>11. CASE this \in {"check", "audit"}
  <2>1. Reads[this] = << <<"records", "extraction_records">> >>
    BY <1>11, ReadsAre
  <2>2. k = 0 /\ Reads[this][1] = <<"records", "extraction_records">>
    BY <1>3, <2>1
  <2> QED
    BY <1>2, <1>11, <2>2, RowsAre
<1> QED
  BY <1>6, <1>7, <1>8, <1>9, <1>10, <1>11

(* The facade joins what was read.                                         *)
LEMMA FacadeKeepsReader ==
    ASSUME ReaderInv, Facade, UNCHANGED corpus
    PROVE  ReaderInv'
<1>1. Through("facade", "plan") /\ DOMAIN result' = DOMAIN result
  BY DEF Facade
<1>2. /\ stage' = "plan" /\ ZoneStays' /\ HeldInOrder' /\ HeldIsOnFile'
  BY <1>1, ThroughLeads, ReadsAre
<1> QED
  BY <1>1, <1>2, ReadsAre
     DEF ReaderInv, ReaderTypeOK, PlanIsBacked, PlanIsCovered, SeedHasEvidence,
         PredicatesAreAsserted, StatementsAreSound, OutputIsSound, TraceStands, ReportStands

(* The planner knows the subjects of assertions.                           *)
LEMMA PlanKnows ==
    ASSUME NEW asked, NEW known, NEW forms
    PROVE  \E all : Decompose(asked, known, forms) =
               [i \in DOMAIN all |->
                   [subject |-> all[i].subject, known |-> all[i].subject \in known]]
  BY Zenon DEF Decompose

(* The planner matches forms.                                              *)
LEMMA PlanKeepsReader ==
    ASSUME ReaderInv, Plan, UNCHANGED corpus
    PROVE  ReaderInv'
<1>1. PICK view : view = AndNext
  OBVIOUS
<1>2. PICK plan :
        /\ plan = Decompose(request, {Claim[a].subject : a \in view["known"]}, view["forms"])
        /\ result' = [result EXCEPT !.plan = plan, !.seed = Seed(request, plan)]
  BY <1>1 DEF Plan
<1>3. /\ stage = "plan" /\ stage' = "coverage" /\ held' = <<>>
      /\ Cardinality(DOMAIN held) + 1 = Len(Reads["plan"])
      /\ ZoneStays' /\ HeldInOrder' /\ HeldIsOnFile' /\ UNCHANGED Asserted
  BY ThroughLeads, ReadsAre DEF Plan
<1>4. view["known"] \subseteq Asserted
  BY <1>1, <1>3, LastIsRead, ReadsAre
<1>5. DOMAIN result' = DOMAIN result /\ result'.plan = plan
  BY <1>2 DEF ReaderInv, ReaderTypeOK, NoResult
<1>6. \A i \in DOMAIN plan : plan[i].known => \E a \in Asserted : Claim[a].subject = plan[i].subject
  <2>1. PICK known, forms : known = {Claim[a].subject : a \in view["known"]}
                            /\ plan = Decompose(request, known, forms)
    BY <1>2
  <2>2. \E all : Decompose(request, known, forms) =
               [i \in DOMAIN all |->
                   [subject |-> all[i].subject, known |-> all[i].subject \in known]]
    BY PlanKnows
  <2>3. PICK all : plan = [i \in DOMAIN all |->
                   [subject |-> all[i].subject, known |-> all[i].subject \in known]]
    BY <2>1, <2>2
  <2>4. ASSUME NEW i \in DOMAIN plan, plan[i].known
        PROVE  plan[i].subject \in known
    <3>1. plan[i] = [subject |-> all[i].subject, known |-> all[i].subject \in known]
      BY <2>3
    <3>2. PICK part, s : part = plan[i] /\ s = all[i].subject
      OBVIOUS
    <3>3. part = [subject |-> s, known |-> s \in known]
      BY <3>1, <3>2
    <3>4. part.subject = s
      BY <3>3, SMT
    <3>5. part.known => s \in known
      BY <3>3, Zenon
    <3> QED
      BY <2>4, <3>2, <3>4, <3>5
  <2> QED
    BY <1>4, <2>1, <2>4
<1>7. PlanIsBacked'
  <2>1. DOMAIN held' = {}
    BY <1>3
  <2> QED
    BY <1>3, <1>5, <1>6, <2>1 DEF PlanIsBacked, Backed
<1> QED
  BY <1>3, <1>5, <1>7, ReadsAre
     DEF ReaderInv, ReaderTypeOK, PlanIsCovered, SeedHasEvidence,
         PredicatesAreAsserted, StatementsAreSound, OutputIsSound, TraceStands, ReportStands

(* A claim supports itself.                                                *)
LEMMA ClaimSupportsItself ==
    ASSUME NEW claims, NEW a \in claims
    PROVE  Claim[a].doc \in SupportingDocs(claims, a)
  BY DEF SupportingDocs, SameFact

(* The evidence is collected.                                              *)
LEMMA RunKeepsReader ==
    ASSUME ReaderInv, Run, UNCHANGED corpus
    PROVE  ReaderInv'
<1>1. PICK view : view = AndNext
  OBVIOUS
<1>2. PICK coverage :
        /\ coverage = Coverage(view, result.plan)
        /\ result' = [result EXCEPT !.coverage = coverage]
  BY <1>1 DEF Run
<1>3. /\ stage = "coverage" /\ stage' = "conclusion" /\ held' = <<>>
      /\ Cardinality(DOMAIN held) + 1 = Len(Reads["coverage"])
      /\ ZoneStays' /\ HeldInOrder' /\ HeldIsOnFile' /\ UNCHANGED Asserted
  BY ThroughLeads, ReadsAre DEF Run
<1>4. /\ view["assertions"] = Asserted
      /\ "claims" \in DOMAIN held /\ view["claims"] = held["claims"]
  BY <1>1, <1>3, LastIsRead, ReadsAre
<1>5. DOMAIN result' = DOMAIN result /\ result'.coverage = coverage /\ result'.plan = result.plan
  BY <1>2 DEF ReaderInv, ReaderTypeOK, NoResult
<1>6. coverage.gaps = {i \in DOMAIN result.plan : ~Covered(view, result.plan[i].subject)}
  BY <1>2 DEF Coverage
<1>7. ASSUME NEW i \in DOMAIN result.plan, result.plan[i].known
      PROVE  Covered(view, result.plan[i].subject) /\ \E a \in Asserted : Claim[a].subject = result.plan[i].subject
  <2>1. PICK a \in Asserted : Claim[a].subject = result.plan[i].subject /\ a \in held["claims"]
    BY <1>3, <1>4, <1>7 DEF ReaderInv, PlanIsBacked, Backed
  <2>2. a \in About(view.assertions, result.plan[i].subject)
    BY <1>4, <2>1 DEF About
  <2>3. SupportingDocs(view.claims, a) # {}
    BY <1>4, <2>1, ClaimSupportsItself
  <2> QED
    BY <2>1, <2>2, <2>3 DEF Covered
<1>8. PlanIsBacked'
  <2>1. DOMAIN held' = {}
    BY <1>3
  <2> QED
    BY <1>3, <1>5, <1>7, <2>1 DEF PlanIsBacked, Backed
<1>9. PlanIsCovered'
  BY <1>3, <1>5, <1>6, <1>7 DEF PlanIsCovered
<1> QED
  BY <1>3, <1>5, <1>8, <1>9, ReadsAre
     DEF ReaderInv, ReaderTypeOK, SeedHasEvidence,
         PredicatesAreAsserted, StatementsAreSound, OutputIsSound, TraceStands, ReportStands

(* The conclusion about a subject with an assertion that was read counts a *)
(* document, and without one has nothing to say.                           *)
LEMMA ConclusionRests ==
    ASSUME ClaimsAreExtracted, CorpusInv, NEW view, NEW subject,
           view.claims \subseteq Candidates
    PROVE  /\ About(view.assertions, subject) = {} => Conclusion(view, subject).predicates = {}
           /\ \A a \in About(view.assertions, subject) \cap view.claims :
                Conclusion(view, subject).evidence > 0
<1>1. ASSUME About(view.assertions, subject) = {} PROVE Conclusion(view, subject).predicates = {}
  BY <1>1 DEF Conclusion, NoConclusion
<1>2. ASSUME NEW a \in About(view.assertions, subject) \cap view.claims
      PROVE  Conclusion(view, subject).evidence > 0
  <2> DEFINE docs == UNION {SupportingDocs(view.claims, b) : b \in About(view.assertions, subject)}
  <2>1. Conclusion(view, subject).evidence = Cardinality(docs)
    BY <1>2 DEF Conclusion
  <2>2. docs \subseteq Docs
    <3>1. \A c \in view.claims : Claim[c].doc \in Docs
      BY CorpusFacts
    <3> QED
      BY <3>1 DEF SupportingDocs
  <2>3. Claim[a].doc \in docs
    BY <1>2, ClaimSupportsItself
  <2> HIDE DEF docs
  <2>4. IsFiniteSet(docs)
    BY <2>2, CorpusFacts, FS_Subset
  <2>5. Cardinality(docs) \in Nat /\ Cardinality(docs) # 0
    BY <2>3, <2>4, FS_CardinalityType, FS_EmptySet
  <2> QED
    BY <2>1, <2>5
<1> QED
  BY <1>1, <1>2

(* The conclusion is chosen among claims that were read.                   *)
LEMMA SynthesizeKeepsReader ==
    ASSUME ClaimsAreExtracted, CorpusInv, ReaderInv, Synthesize, UNCHANGED corpus
    PROVE  ReaderInv'
<1>1. PICK view : view = AndNext
  OBVIOUS
<1>2. PICK conclusion :
        /\ conclusion = Conclusion(view, result.seed)
        /\ result' = [result EXCEPT !.conclusion = conclusion]
  BY <1>1 DEF Synthesize
<1>3. /\ stage = "conclusion" /\ stage' = "statements"
      /\ Cardinality(DOMAIN held) + 1 = Len(Reads["conclusion"])
      /\ ZoneStays' /\ HeldInOrder' /\ HeldIsOnFile' /\ UNCHANGED Asserted
  BY ThroughLeads, ReadsAre DEF Synthesize
<1>4. /\ {"claims", "assertions"} \subseteq DOMAIN held
      /\ view["claims"] = held["claims"] /\ view["claims"] \subseteq Candidates
      /\ view["assertions"] = held["assertions"]
      /\ view["assertions"] \subseteq Asserted
  BY <1>1, <1>3, LastIsRead, ReadsAre
<1>5. /\ DOMAIN result' = DOMAIN result /\ result'.conclusion = conclusion
      /\ result'.plan = result.plan /\ result'.seed = result.seed
      /\ result'.coverage = result.coverage
  BY <1>2 DEF ReaderInv, ReaderTypeOK, NoResult
<1>6. ASSUME NEW i \in DOMAIN result.plan, result.plan[i].known,
             result.plan[i].subject = result.seed
      PROVE  conclusion.evidence > 0
  <2>1. PICK a \in Asserted : /\ Claim[a].subject = result.seed
                              /\ a \in held["claims"] /\ a \in held["assertions"]
    BY <1>3, <1>4, <1>6 DEF ReaderInv, PlanIsBacked, Backed
  <2>2. a \in About(view.assertions, result.seed) \cap view.claims
    BY <1>4, <2>1 DEF About
  <2> QED
    BY <1>2, <1>4, <2>2, ConclusionRests
<1>7. SeedHasEvidence'
  BY <1>3, <1>5, <1>6 DEF SeedHasEvidence
<1>8. PredicatesAreAsserted'
  <2>1. conclusion.predicates # {} => About(view.assertions, result.seed) # {}
    BY <1>2, <1>4, ConclusionRests
  <2> QED
    BY <1>3, <1>4, <1>5, <2>1 DEF PredicatesAreAsserted, About
<1>9. PlanIsCovered'
  BY <1>3, <1>5 DEF ReaderInv, PlanIsCovered
<1> QED
  BY <1>3, <1>5, <1>7, <1>8, <1>9, ReadsAre
     DEF ReaderInv, ReaderTypeOK, PlanIsBacked, StatementsAreSound, OutputIsSound,
         TraceStands, ReportStands

(* A statement for a predicate cites an assertion about the subject.       *)
LEMMA StatementsCite ==
    ASSUME ClaimsAreExtracted, CorpusInv, NEW subject, NEW Predicates,
           Predicates # {} => About(Asserted, subject) # {},
           NEW predicates \in SetToSeqs(Predicates),
           NEW ids \in SetToSeqs(About(Asserted, subject)),
           NEW i \in DOMAIN Statements(predicates, ids)
    PROVE  Sound(Statements(predicates, ids)[i], subject)
<1> DEFINE about == About(Asserted, subject)
<1>1. IsFiniteSet(about)
  <2>1. about \subseteq DOMAIN Claim
    BY CorpusFacts DEF About
  <2> QED
    BY <2>1, CorpusFacts, FS_Subset
<1>2. about # {}
  <2>1. predicates[i] \in Predicates
    BY DEF Statements, SetToSeqs
  <2> QED
    BY <2>1
<1>3. Cardinality(about) \in Nat /\ Cardinality(about) # 0
  <2> HIDE DEF about
  <2> QED
    BY <1>1, <1>2, FS_CardinalityType, FS_EmptySet
<1>4. ids \in [1 .. Cardinality(about) -> about]
  BY DEF SetToSeqs
<1>5. PICK n : n = Cardinality(about)
  OBVIOUS
<1>6. n \in Nat /\ n # 0 /\ ids \in [1 .. n -> about] /\ Len(ids) = n /\ ids # <<>>
  BY <1>3, <1>4, <1>5
<1>7. i \in Int
  BY DEF Statements, SetToSeqs
<1>8. ((i - 1) % Len(ids)) + 1 \in 1 .. n
  BY <1>6, <1>7
<1>9. Statements(predicates, ids)[i] =
        [modality |-> "asserted", about |-> predicates[i], claim |-> ids[((i - 1) % Len(ids)) + 1]]
  BY <1>6 DEF Statements
<1>10. PICK c \in about : c = ids[((i - 1) % Len(ids)) + 1]
  BY <1>6, <1>8
<1> QED
  BY <1>9, <1>10 DEF Sound, Verifiable, About

(* Its statements cite evidence.                                           *)
LEMMA StateKeepsReader ==
    ASSUME ClaimsAreExtracted, CorpusInv, ReaderInv, State, UNCHANGED corpus
    PROVE  ReaderInv'
<1>1. PICK view : view = AndNext
  OBVIOUS
<1>2. PICK next, statements, predicates, ids :
        /\ Through("statements", next) /\ next \in {"llm", "audit"}
        /\ predicates \in SetToSeqs(result.conclusion.predicates)
        /\ ids \in SetToSeqs(About(view["assertions"], result.seed))
        /\ statements = Statements(predicates, ids)
        /\ result' = [result EXCEPT !.statements = statements]
  BY <1>1 DEF State
<1>3. /\ stage = "statements" /\ stage' = next
      /\ Cardinality(DOMAIN held) + 1 = Len(Reads["statements"])
      /\ ZoneStays' /\ HeldInOrder' /\ HeldIsOnFile' /\ UNCHANGED Asserted
  BY <1>2, ThroughLeads, ReadsAre
<1>4. view["assertions"] = Asserted
  BY <1>1, <1>3, LastIsRead, ReadsAre
<1>5. /\ DOMAIN result' = DOMAIN result /\ result'.statements = statements
      /\ result'.plan = result.plan /\ result'.seed = result.seed
      /\ result'.coverage = result.coverage /\ result'.conclusion = result.conclusion
  BY <1>2 DEF ReaderInv, ReaderTypeOK, NoResult
<1>6. StatementsAreSound'
  <2>1. result.conclusion.predicates # {} => About(Asserted, result.seed) # {}
    BY <1>3 DEF ReaderInv, PredicatesAreAsserted
  <2>2. \A i \in DOMAIN statements : Sound(statements[i], result.seed)
    BY <1>2, <1>4, <2>1, StatementsCite
  <2> QED
    BY <1>3, <1>5, <2>2 DEF StatementsAreSound, Sound
<1>7. PlanIsCovered' /\ SeedHasEvidence'
  BY <1>2, <1>3, <1>5 DEF ReaderInv, PlanIsCovered, SeedHasEvidence
<1> QED
  BY <1>2, <1>3, <1>5, <1>6, <1>7, ReadsAre
     DEF ReaderInv, ReaderTypeOK, PlanIsBacked, PredicatesAreAsserted, OutputIsSound,
         TraceStands, ReportStands

(* What is kept of a model's answer cites the evidence it was given.       *)
LEMMA KeptCite ==
    ASSUME NEW output, output \in Seq([modality : STRING, about : STRING,
                                       claim : Nat \cup {None}]),
           NEW evidence, NEW subject, evidence \subseteq About(Asserted, subject),
           NEW kept, kept = Kept(output, evidence)
    PROVE  /\ Len(kept) \in Nat /\ DOMAIN kept = 1 .. Len(kept)
           /\ \A i \in DOMAIN kept : Sound(kept[i], subject)
<1> DEFINE allowed == {s \in ToSet(output) : Allowed(s, evidence)}
           T == {output[n] : n \in 1 .. Len(output)} \cap allowed
<1>1. PICK picked \in Seq(T) : picked = Picked(output, allowed)
  <2>1. Len(output) \in Nat
    BY LenProperties
  <2> HIDE DEF allowed
  <2> QED
    BY <2>1, PickedAreElements
<1>2. kept = [i \in DOMAIN picked |->
                IF Verifiable(picked[i]) THEN picked[i] ELSE [picked[i] EXCEPT !.claim = None]]
  BY <1>1 DEF Kept
<1>3. DOMAIN picked = 1 .. Len(picked) /\ Len(picked) \in Nat
  BY <1>1, LenProperties
<1>4. Len(kept) = Len(picked) /\ DOMAIN kept = 1 .. Len(kept)
  BY <1>2, <1>3
<1>5. ASSUME NEW i \in DOMAIN kept PROVE Sound(kept[i], subject)
  <2>1. picked[i] \in T
    BY <1>1, <1>2, ElementOfSeq, <1>3
  <2>2. PICK n \in 1 .. Len(output) : picked[i] = output[n]
    BY <2>1
  <2>3. picked[i] \in [modality : STRING, about : STRING, claim : Nat \cup {None}]
    <3> DEFINE Statement == [modality : STRING, about : STRING, claim : Nat \cup {None}]
    <3>1. output \in Seq(Statement)
      OBVIOUS
    <3> HIDE DEF Statement
    <3>2. output[n] \in Statement
      BY <3>1, ElementOfSeq
    <3> QED
      BY <2>2, <3>2 DEF Statement
  <2>4. Allowed(picked[i], evidence)
    BY <2>1
  <2>5. CASE Verifiable(picked[i])
    <3>1. kept[i] = picked[i] /\ picked[i].claim \in evidence
      BY <1>2, <2>4, <2>5 DEF Allowed, Verifiable
    <3> QED
      BY <2>5, <3>1 DEF Sound, About
  <2>6. CASE ~Verifiable(picked[i])
    <3>1. kept[i] = [picked[i] EXCEPT !.claim = None]
      BY <1>2, <2>6
    <3>2. kept[i].claim = None /\ kept[i].modality = picked[i].modality
      BY <2>3, <3>1
    <3> QED
      BY <2>6, <3>2 DEF Sound, Verifiable
  <2> QED
    BY <2>5, <2>6
<1> QED
  BY <1>3, <1>4, <1>5

(* The model is asked.                                                     *)
LEMMA AskModelKeepsReader ==
    ASSUME ReaderInv, AskModel, UNCHANGED corpus
    PROVE  ReaderInv'
<1>1. PICK view : view = AndNext
  OBVIOUS
<1>2. PICK output, evidence, kept :
        /\ output \in Outputs
        /\ evidence = EvidenceRows(view, result.seed)
        /\ kept = IF evidence = {} THEN <<>> ELSE Kept(output, evidence)
        /\ Through("llm", IF kept = <<>> THEN "audit" ELSE "check")
        /\ result' = [result EXCEPT !.output = kept]
  BY <1>1 DEF AskModel
<1>3. PICK next \in {"audit", "check"} :
        /\ stage = "llm" /\ stage' = next
        /\ Cardinality(DOMAIN held) + 1 = Len(Reads["llm"])
        /\ ZoneStays' /\ HeldInOrder' /\ HeldIsOnFile' /\ UNCHANGED Asserted
  <2>1. PICK next \in {"audit", "check"} : Through("llm", next)
    BY <1>2
  <2> QED
    BY <2>1, ThroughLeads, ReadsAre
<1>4. evidence \subseteq About(Asserted, result.seed)
  <2>1. view["assertions"] \subseteq Asserted
    BY <1>1, <1>3, LastIsRead, ReadsAre
  <2> QED
    BY <1>2, <2>1 DEF EvidenceRows, About
<1>5. /\ DOMAIN result' = DOMAIN result /\ result'.output = kept
      /\ result'.plan = result.plan /\ result'.seed = result.seed
      /\ result'.coverage = result.coverage /\ result'.conclusion = result.conclusion
      /\ result'.statements = result.statements
  BY <1>2 DEF ReaderInv, ReaderTypeOK, NoResult
<1>6. OutputIsSound'
  <2>1. /\ Len(kept) \in Nat /\ DOMAIN kept = 1 .. Len(kept)
        /\ \A i \in DOMAIN kept : Sound(kept[i], result.seed)
    <3>1. CASE evidence = {}
      BY <1>2, <3>1
    <3>2. CASE evidence # {}
      BY <1>2, <1>4, <3>2, KeptCite, ReaderAssumption
    <3> QED
      BY <3>1, <3>2
  <2> QED
    BY <1>3, <1>5, <2>1 DEF OutputIsSound, Sound
<1>7. StatementsAreSound'
  BY <1>3, <1>5 DEF ReaderInv, StatementsAreSound, Sound
<1>8. PlanIsCovered' /\ SeedHasEvidence'
  BY <1>3, <1>5 DEF ReaderInv, PlanIsCovered, SeedHasEvidence
<1> QED
  BY <1>3, <1>5, <1>6, <1>7, <1>8, ReadsAre
     DEF ReaderInv, ReaderTypeOK, PlanIsBacked, PredicatesAreAsserted, TraceStands, ReportStands

(* Its output is checked against the evidence.                             *)
LEMMA CheckOutputKeepsReader ==
    ASSUME ReaderInv, CheckOutput, UNCHANGED corpus
    PROVE  ReaderInv'
<1>1. PICK output, S, statements :
        /\ output = result.output /\ statements = Picked(output, S)
        /\ result' = [result EXCEPT !.statements = statements, !.llm_used = TRUE]
  BY DEF CheckOutput
<1>2. /\ stage = "check" /\ stage' = "audit"
      /\ ZoneStays' /\ HeldInOrder' /\ HeldIsOnFile' /\ UNCHANGED Asserted
  BY ThroughLeads, ReadsAre DEF CheckOutput
<1>3. /\ DOMAIN result' = DOMAIN result /\ result'.statements = statements
      /\ result'.plan = result.plan /\ result'.seed = result.seed
      /\ result'.coverage = result.coverage /\ result'.conclusion = result.conclusion
  BY <1>1 DEF ReaderInv, ReaderTypeOK, NoResult
<1>4. StatementsAreSound'
  <2>1. /\ Len(output) \in Nat /\ DOMAIN output = 1 .. Len(output)
        /\ \A i \in DOMAIN output : Sound(output[i], result.seed)
    BY <1>1, <1>2 DEF ReaderInv, OutputIsSound
  <2>2. statements \in Seq({output[n] : n \in 1 .. Len(output)} \cap S)
    BY <1>1, <2>1, PickedAreElements
  <2>3. ASSUME NEW i \in DOMAIN statements PROVE Sound(statements[i], result.seed)
    <3>1. i \in 1 .. Len(statements)
      BY <2>2, LenProperties
    <3>2. statements[i] \in {output[n] : n \in 1 .. Len(output)}
      BY <2>2, <3>1, ElementOfSeq
    <3> QED
      BY <2>1, <3>2
  <2> QED
    BY <1>2, <1>3, <2>3 DEF StatementsAreSound, Sound
<1>5. PlanIsCovered' /\ SeedHasEvidence'
  BY <1>2, <1>3 DEF ReaderInv, PlanIsCovered, SeedHasEvidence
<1> QED
  BY <1>2, <1>3, <1>4, <1>5, ReadsAre
     DEF ReaderInv, ReaderTypeOK, PlanIsBacked, PredicatesAreAsserted, OutputIsSound,
         TraceStands, ReportStands

(* The record of a claim that is an assertion is found.                    *)
LEMMA SoundIsTraced ==
    ASSUME ClaimsAreExtracted, CorpusInv, NEW subject, NEW s, Sound(s, subject),
           NEW records, records = DOMAIN curated["extraction_records"],
           NEW row, row = TraceRow(s, records)
    PROVE  ValidStatement(s, row) /\ Placed(s, subject)
<1>1. CASE Verifiable(s)
  <2>1. s.claim \in Asserted /\ Claim[s.claim].subject = subject
    BY <1>1 DEF Sound
  <2>2. /\ s.claim \in records /\ Claim[s.claim].doc \in normalized
        /\ s.claim # None /\ Claim[s.claim].doc # None
    BY <2>1, CorpusFacts
  <2>3. SpanForClaim(s.claim, records) = Claim[s.claim].doc
    BY <2>2 DEF SpanForClaim
  <2>4. row.claim = s.claim /\ row.span = Claim[s.claim].doc
    BY <1>1, <2>3 DEF TraceRow
  <2>5. row.verified
    BY <1>1, <2>2, <2>3 DEF TraceRow
  <2> QED
    BY <1>1, <2>1, <2>2, <2>4, <2>5 DEF ValidStatement, Placed
<1>2. CASE ~Verifiable(s)
  <2>1. s.claim = None
    BY <1>2 DEF Sound
  <2>2. row.claim = s.claim /\ row.span = None
    BY <1>2 DEF TraceRow
  <2>3. row.verified
    BY <1>2 DEF TraceRow
  <2> QED
    BY <1>2, <2>1, <2>2, <2>3 DEF ValidStatement, Placed
<1> QED
  BY <1>1, <1>2

(* The result is audited against the tables as they are now.               *)
LEMMA AuditResultKeepsReader ==
    ASSUME ClaimsAreExtracted, CorpusInv, ReaderInv, AuditResult, UNCHANGED corpus
    PROVE  ReaderInv'
<1>1. PICK view, trace :
        /\ view = AndNext
        /\ trace = Trace(result.statements, view["records"])
        /\ result' = [result EXCEPT !.trace = trace]
  BY DEF AuditResult
<1>2. /\ stage = "audit" /\ stage' = "report" /\ UNCHANGED normalized
      /\ Cardinality(DOMAIN held) + 1 = Len(Reads["audit"])
      /\ ZoneStays' /\ HeldInOrder' /\ HeldIsOnFile'
  BY ThroughLeads, ReadsAre DEF AuditResult
<1>3. /\ DOMAIN result' = DOMAIN result /\ result'.trace = trace
      /\ result'.plan = result.plan /\ result'.seed = result.seed
      /\ result'.coverage = result.coverage /\ result'.conclusion = result.conclusion
      /\ result'.statements = result.statements
  BY <1>1 DEF ReaderInv, ReaderTypeOK, NoResult
<1>4. TraceStands'
  <2>1. PICK records : records = view["records"] /\ records = DOMAIN curated["extraction_records"]
    BY <1>1, <1>2, LastIsRead, ReadsAre
  <2>2. /\ DOMAIN trace = DOMAIN result.statements
        /\ \A i \in DOMAIN trace : trace[i] = TraceRow(result.statements[i], records)
    BY <1>1, <2>1 DEF Trace
  <2>3. ASSUME NEW i \in DOMAIN result.statements
        PROVE  ValidStatement(result.statements[i], trace[i]) /\ Placed(result.statements[i], result.seed)
    <3>1. Sound(result.statements[i], result.seed)
      BY <1>2 DEF ReaderInv, StatementsAreSound
    <3> QED
      BY <2>1, <2>2, <3>1, SoundIsTraced
  <2> QED
    BY <1>2, <1>3, <2>2, <2>3 DEF TraceStands, Placed
<1>5. PlanIsCovered' /\ SeedHasEvidence'
  BY <1>2, <1>3 DEF ReaderInv, PlanIsCovered, SeedHasEvidence
<1> QED
  BY <1>2, <1>3, <1>4, <1>5, ReadsAre
     DEF ReaderInv, ReaderTypeOK, PlanIsBacked, PredicatesAreAsserted, StatementsAreSound,
         OutputIsSound, ReportStands

(* A report all of whose statements passed the audit is not sent back.     *)
LEMMA EligibleIsNotRejected ==
    ASSUME NEW answer \in Answers, NEW statements, NEW trace, NEW coverage,
           Eligible(statements, trace) = DOMAIN statements
    PROVE  Generate(answer, statements, trace, coverage).fallback_reason # "audit_rejected"
<1> DEFINE reason == FallbackReason(answer, DOMAIN statements, Eligible(statements, trace))
<1>1. reason # "audit_rejected"
  <2>1. answer.fault # "none" => reason = answer.fault
    BY Zenon DEF FallbackReason
  <2>2. answer.fault = "none" => reason \in {"none", "invalid_draft"}
    <3>1. ASSUME answer.fault = "none"
          PROVE  reason = IF WellFormed(answer.draft, DOMAIN statements) THEN "none" ELSE "invalid_draft"
      BY <3>1, Zenon DEF FallbackReason
    <3> QED
      BY <3>1
  <2> QED
    BY <2>1, <2>2, ReaderAssumption
<1>2. Generate(answer, statements, trace, coverage).fallback_reason = reason
  BY DEF Generate
<1> QED
  BY <1>1, <1>2

(* The report is drawn up.                                                 *)
LEMMA ReportKeepsReader ==
    ASSUME ReaderInv, Report, UNCHANGED corpus
    PROVE  ReaderInv'
<1> USE DEF ReaderInv
<1>1. PICK answer, report :
        /\ answer \in Answers
        /\ report = Generate(answer, result.statements, result.trace, result.coverage)
        /\ result' = [result EXCEPT !.report = report]
  BY DEF Report
<1>2. /\ stage = "report" /\ stage' = "done"
      /\ UNCHANGED <<held, pc, curated, normalized>>
  BY DEF Report, corpus, promoter
<1>3. /\ DOMAIN result' = DOMAIN result /\ result'.report = report
      /\ result'.plan = result.plan /\ result'.seed = result.seed
      /\ result'.coverage = result.coverage /\ result'.conclusion = result.conclusion
      /\ result'.statements = result.statements /\ result'.trace = result.trace
  BY <1>1 DEF ReaderTypeOK, NoResult
<1>4. ReportStands'
  <2>1. Eligible(result.statements, result.trace) = DOMAIN result.statements
    BY <1>2 DEF TraceStands, Eligible
  <2>2. PICK statements, trace, coverage :
          statements = result.statements /\ trace = result.trace /\ coverage = result.coverage
    OBVIOUS
  <2>3. report.fallback_reason # "audit_rejected"
    BY <1>1, <2>1, <2>2, EligibleIsNotRejected
  <2> QED
    BY <1>3, <2>3 DEF ReportStands
<1>5. PlanIsCovered' /\ SeedHasEvidence'
  BY <1>2, <1>3 DEF PlanIsCovered, SeedHasEvidence
<1>6. TraceStands'
  BY <1>2, <1>3 DEF TraceStands, Placed
<1>7. ZoneStays' /\ HeldInOrder' /\ HeldIsOnFile'
  BY <1>2, ReadsAre DEF ZoneStays, HeldInOrder, HeldIsOnFile, Asserted, Candidates
<1> QED
  BY <1>2, <1>3, <1>4, <1>5, <1>6, <1>7, ReadsAre
     DEF ReaderTypeOK, PlanIsBacked, PredicatesAreAsserted, StatementsAreSound, OutputIsSound

(* Promotions go on meanwhile: tables and normalized documents are added.  *)
LEMMA PromoteGrows ==
    ASSUME ClaimsAreExtracted, CorpusInv, Promote
    PROVE  /\ Asserted \subseteq Asserted' /\ Candidates \subseteq Candidates'
           /\ normalized \subseteq normalized'
           /\ stage \notin {"none", "done"} /\ pc \notin {"reset", "rebuild"} =>
                pc' \notin {"reset", "rebuild"}
<1>1. CASE UNCHANGED curated
  <2>1. normalized \subseteq normalized'
    BY DEF Promote, Deliver, Normalize, RunChain, Reconcile, CommitTable, Confirm, BreakOff
  <2>2. pc \notin {"reset", "rebuild"} => pc' \notin {"reset", "rebuild"}
    BY DEF Promote, Deliver, Begin, Normalize, RunChain, Reconcile, CommitTable, Confirm,
       BreakOff, Finished, promoter
  <2> QED
    BY <1>1, <2>1, <2>2 DEF Asserted, Candidates
<1>2. CASE RunChain \/ Reconcile \/ CommitTable
  <2>1. Grows(curated, curated')
    BY <1>2, RunChainKeeps, ReconcileKeeps, CommitTableKeeps
  <2>2. UNCHANGED normalized /\ pc' \notin {"reset", "rebuild"}
    BY <1>2 DEF RunChain, Reconcile, CommitTable, promoter
  <2> QED
    BY <2>1, <2>2, TablesAre DEF Grows, Asserted, Candidates
<1> QED
  BY <1>1, <1>2 DEF Promote, Deliver, Normalize, Confirm, BreakOff

(* A batch in between takes nothing away from under a question.            *)
LEMMA PromoteKeepsReader ==
    ASSUME ClaimsAreExtracted, CorpusInv, ReaderInv, Promote, UNCHANGED reader
    PROVE  ReaderInv'
<1> USE DEF ReaderInv
<1>1. UNCHANGED <<stage, held, result>>
  BY DEF reader
<1>2. /\ Asserted \subseteq Asserted' /\ Candidates \subseteq Candidates'
      /\ normalized \subseteq normalized'
      /\ ZoneStays'
  BY <1>1, PromoteGrows DEF ZoneStays
<1>3. HeldInOrder' /\ HeldIsOnFile'
  <2>1. HeldInOrder'
    BY <1>1 DEF HeldInOrder
  <2>2. HeldIsOnFile'
    BY <1>1, <1>2 DEF HeldIsOnFile
  <2> QED
    BY <2>1, <2>2
<1>4. PlanIsBacked' /\ PredicatesAreAsserted'
  BY <1>1, <1>2 DEF PlanIsBacked, Backed, PredicatesAreAsserted, About
<1>5. StatementsAreSound' /\ OutputIsSound'
  BY <1>1, <1>2 DEF StatementsAreSound, OutputIsSound, Sound
<1>6. TraceStands'
  BY <1>1, <1>2 DEF TraceStands, Placed
<1> QED
  BY <1>1, <1>2, <1>3, <1>4, <1>5, <1>6
     DEF ReaderTypeOK, PlanIsCovered, SeedHasEvidence, ReportStands

(* A rebuild waits for no question.                                        *)
LEMMA RebuildKeepsReader ==
    ASSUME CorpusInv, ReaderInv, stage \in {"none", "done"}, Rebuild, UNCHANGED reader
    PROVE  ReaderInv'
<1> USE DEF ReaderInv
<1>1. UNCHANGED <<stage, held, result>>
  BY DEF reader
<1>2. normalized \subseteq normalized'
  BY DEF Rebuild, RebuildNormalized, ResetCurated, RebuildReconcile, RebuildDocument,
     CorpusInv, CorpusTypeOK
<1>3. DOMAIN held = {}
  BY ReadsAre DEF HeldInOrder
<1>4. HeldInOrder' /\ HeldIsOnFile' /\ ZoneStays'
  BY <1>1, <1>3, ReadsAre DEF HeldInOrder, HeldIsOnFile, ZoneStays
<1>5. TraceStands'
  BY <1>1, <1>2 DEF TraceStands, Placed
<1> QED
  BY <1>1, <1>4, <1>5
     DEF ReaderTypeOK, PlanIsBacked, PlanIsCovered, SeedHasEvidence, PredicatesAreAsserted,
         StatementsAreSound, OutputIsSound, ReportStands

(* Every step keeps the invariant.                                         *)
LEMMA NextReaderInv ==
    ASSUME ClaimsAreExtracted, CorpusInv, ReaderInv, [Next]_vars
    PROVE  ReaderInv'
<1>1. CASE UNCHANGED <<normalized, curated, pc, reader>>
  <2>1. UNCHANGED <<stage, held, result, curated, normalized, pc>>
    BY <1>1 DEF reader
  <2>2. UNCHANGED <<Asserted, Candidates>>
    BY <2>1 DEF Asserted, Candidates
  <2>3. HeldInOrder' /\ HeldIsOnFile'
    <3>1. HeldInOrder'
      BY <2>1 DEF ReaderInv, HeldInOrder
    <3>2. HeldIsOnFile'
      BY <2>1, <2>2 DEF ReaderInv, HeldIsOnFile
    <3> QED
      BY <3>1, <3>2
  <2>4. PlanIsBacked' /\ PredicatesAreAsserted'
    BY <2>1, <2>2 DEF ReaderInv, PlanIsBacked, Backed, PredicatesAreAsserted, About
  <2>5. StatementsAreSound' /\ OutputIsSound' /\ TraceStands'
    BY <2>1, <2>2 DEF ReaderInv, StatementsAreSound, OutputIsSound, TraceStands, Sound, Placed
  <2> QED
    BY <2>1, <2>3, <2>4, <2>5
       DEF ReaderInv, ReaderTypeOK, ZoneStays, PlanIsCovered, SeedHasEvidence, ReportStands
<1>2. CASE Promote /\ UNCHANGED reader
  BY <1>2, PromoteKeepsReader
<1>3. CASE stage \in {"none", "done"} /\ Rebuild /\ UNCHANGED reader
  BY <1>3, RebuildKeepsReader
<1>4. CASE Investigate /\ UNCHANGED corpus
  BY <1>4, OpenKeepsReader, ReadKeepsReader, FacadeKeepsReader, PlanKeepsReader,
     RunKeepsReader, SynthesizeKeepsReader, StateKeepsReader, AskModelKeepsReader,
     CheckOutputKeepsReader, AuditResultKeepsReader, ReportKeepsReader DEF Investigate
<1>5. CASE Evaluate /\ UNCHANGED reader
  BY <1>1, <1>5 DEF Evaluate, RunBreaksOff, corpus, promoter
<1> QED
  BY <1>1, <1>2, <1>3, <1>4, <1>5 DEF Next, vars, corpus, promoter

(* What an investigation under way holds and has announced is on file,     *)
(* whatever is promoted meanwhile.                                         *)
THEOREM ReaderInvariance ==
    ASSUME ClaimsAreExtracted
    PROVE  Spec => []ReaderInv
<1>1. Init => ReaderInv
  BY ReadsAre
     DEF Init, ReaderInit, ReaderInv, ReaderTypeOK, ZoneStays, HeldInOrder, HeldIsOnFile,
         PlanIsBacked, PlanIsCovered, SeedHasEvidence, PredicatesAreAsserted,
         StatementsAreSound, OutputIsSound, TraceStands, ReportStands
<1>2. CorpusInv /\ ReaderInv /\ [Next]_vars => ReaderInv'
  BY NextReaderInv
<1> QED
  BY <1>1, <1>2, CorpusInvariance, PTL DEF Spec

(* And it implies the two properties the run checks.                       *)
LEMMA ReaderInvSuffices == ReaderInv => ConclusionIsFounded /\ ReportIsTraceable
<1> SUFFICES ASSUME ReaderInv, stage = "done"
             PROVE  ConclusionIsFounded /\ ReportIsTraceable
  BY DEF ConclusionIsFounded, ReportIsTraceable
<1> USE DEF ReaderInv
<1>1. ConclusionIsFounded
  BY DEF ConclusionIsFounded, PlanIsCovered, SeedHasEvidence
<1>2. Blocked(result.trace) = {}
  BY DEF TraceStands, ValidStatement, Blocked
<1>3. ReportIsTraceable
  BY <1>2 DEF ReportIsTraceable, TraceStands, Placed, ReportStands
<1> QED
  BY <1>1, <1>3

(* What the plan of a finished investigation calls known was covered, and  *)
(* its conclusion about it rests on a document: later steps of             *)
(* InvestigationService see at least what earlier ones did.                *)
THEOREM ConclusionsAreFounded ==
    ASSUME ClaimsAreExtracted
    PROVE  Spec => []ConclusionIsFounded
  BY ReaderInvariance, ReaderInvSuffices, PTL

(* Whatever a finished report asserts is traced to the record its claim    *)
(* was extracted with, in a document of the normalized zone that is about  *)
(* the subject asked for, and no statement is sent back by the audit.      *)
THEOREM ReportsAreTraceable ==
    ASSUME ClaimsAreExtracted
    PROVE  Spec => []ReportIsTraceable
  BY ReaderInvariance, ReaderInvSuffices, PTL

-------------------------------------------------------------------------------
(* Classes of claims.                                                      *)

IsSymmetric(same) == \A x, y : <<x, y>> \in same => <<y, x>> \in same

IsClosed(S, same) == \A p \in same : p[1] \in S => p[2] \in S

(* The classes, by what they are.                                          *)
LEMMA ClassesAre ==
    ASSUME NEW set, NEW same, NEW S
    PROVE  S \in MinimalClosed(set, same) <=>
             /\ S \subseteq set /\ S # {} /\ IsClosed(S, same)
             /\ \A T : T \subseteq S /\ T # {} /\ IsClosed(T, same) => T = S
<1> DEFINE candidates == {T \in (SUBSET set) \ {{}} : IsClosed(T, same)}
<1>1. MinimalClosed(set, same) = {T \in candidates : ~\E U \in candidates : U # T /\ U \subseteq T}
  BY DEF MinimalClosed, IsClosed
<1>2. \A T : T \in candidates <=> T \subseteq set /\ T # {} /\ IsClosed(T, same)
  OBVIOUS
<1> HIDE DEF candidates
<1> QED
  BY <1>1, <1>2

(* Every element is in a class: the least closed set with it, as what such *)
(* a set has besides a smaller closed one would be closed too.             *)
LEMMA ClassExists ==
    ASSUME NEW set, NEW same, same \subseteq set \X set, IsSymmetric(same), NEW c \in set
    PROVE  \E S \in MinimalClosed(set, same) : c \in S
<1> DEFINE with == {T \in SUBSET set : c \in T /\ IsClosed(T, same)}
           least == {x \in set : \A T \in with : x \in T}
<1>1. set \in with
  BY DEF IsClosed
<1>2. c \in least /\ least \subseteq set
  OBVIOUS
<1>3. ASSUME NEW p \in same, p[1] \in least PROVE p[2] \in least
  <2>1. p[2] \in set
    OBVIOUS
  <2>2. ASSUME NEW T \in with PROVE p[2] \in T
    <3>1. p[1] \in T
      BY <1>3
    <3> QED
      BY <3>1 DEF IsClosed
  <2> QED
    BY <2>1, <2>2
<1>4. ASSUME NEW T, T \subseteq least, T # {}, IsClosed(T, same) PROVE T = least
  <2>1. CASE c \in T
    <3>1. T \in with
      BY <1>2, <1>4, <2>1
    <3> QED
      BY <1>4, <3>1
  <2>2. CASE c \notin T
    <3>1. ASSUME NEW p \in same, p[1] \in least \ T PROVE p[2] \in least \ T
      <4>1. p[2] \in least
        BY <1>3, <3>1
      <4>2. p = <<p[1], p[2]>>
        OBVIOUS
      <4>3. <<p[2], p[1]>> \in same
        BY <4>2 DEF IsSymmetric
      <4>4. p[2] \in T => p[1] \in T
        BY <1>4, <4>3 DEF IsClosed
      <4> QED
        BY <3>1, <4>1, <4>4
    <3>2. least \ T \in with
      BY <1>2, <2>2, <3>1 DEF IsClosed
    <3>3. least \subseteq least \ T
      BY <3>2
    <3> QED
      BY <1>4, <3>3
  <2> QED
    BY <2>1, <2>2
<1>5. IsClosed(least, same)
  BY <1>3 DEF IsClosed
<1> HIDE DEF least
<1>6. least \in MinimalClosed(set, same)
  BY <1>2, <1>4, <1>5, ClassesAre
<1> QED
  BY <1>2, <1>6

(* A class for pairs that are the same by a finer rule is connected by the *)
(* rule.                                                                   *)
LEMMA ClassIsConnected ==
    ASSUME NEW set, NEW same, \A p \in same : SameClaim(Claim[p[1]], Claim[p[2]]),
           NEW S \in MinimalClosed(set, same)
    PROVE  Connected(S)
<1> DEFINE all == {p \in S \X S : SameClaim(Claim[p[1]], Claim[p[2]])}
<1>1. /\ S \subseteq set /\ S # {} /\ IsClosed(S, same)
      /\ \A T : T \subseteq S /\ T # {} /\ IsClosed(T, same) => T = S
  BY ClassesAre
<1>2. IsClosed(S, all)
  BY DEF IsClosed
<1>3. ASSUME NEW T, T \subseteq S, T # {}, IsClosed(T, all) PROVE T = S
  <2>1. ASSUME NEW p \in same, p[1] \in T PROVE p[2] \in T
    <3>1. p[1] \in S /\ p[2] \in S
      BY <1>1, <1>3, <2>1 DEF IsClosed
    <3>2. <<p[1], p[2]>> \in all
      BY <3>1
    <3> QED
      BY <1>3, <2>1, <3>2 DEF IsClosed
  <2> QED
    BY <1>1, <1>3, <2>1 DEF IsClosed
<1>4. S \in MinimalClosed(S, all)
  BY <1>1, <1>2, <1>3, ClassesAre
<1>5. ASSUME NEW T \in MinimalClosed(S, all) PROVE T = S
  <2>1. T \subseteq S /\ T # {} /\ IsClosed(T, all)
    BY ClassesAre
  <2> QED
    BY <1>3, <2>1
<1>6. MinimalClosed(S, all) = {S}
  BY <1>4, <1>5
<1> QED
  BY <1>6 DEF Connected

(* The classes of a block.                                                 *)
ClassesOf(block) ==
    LET claim == [c \in block |-> Claim[c]]
        read == {claim[c] : c \in block}
    IN  MinimalClosed(block, {p \in block \X block :
            ClaimsEquivalent(read, claim[p[1]], claim[p[2]])})

(* Claims are grouped block by block.                                      *)
LEMMA GroupingIsByBlock ==
    ASSUME NEW claims
    PROVE  CanonicalizeClaims(claims) = UNION {ClassesOf(block) : block \in BlocksOf(claims)}
  BY DEF CanonicalizeClaims, ClassesOf

(* Pairs that are grouped are the same by the rule, either way round.      *)
LEMMA EquivalentIsSame ==
    ASSUME NEW read, NEW x, NEW y
    PROVE  /\ ClaimsEquivalent(read, x, y) => SameClaim(x, y)
           /\ ClaimsEquivalent(read, x, y) => ClaimsEquivalent(read, y, x)
<1>1. Neighbours(read, x, y) => x.seg = y.seg /\ Neighbours(read, y, x)
  BY DEF Neighbours
<1>2. Overlap(x, y) => Overlap(y, x)
  BY DEF Overlap
<1> QED
  BY <1>1, <1>2 DEF ClaimsEquivalent, SameClaim

(* Each claim of a block is in a class of it, and classes are connected.   *)
LEMMA BlockIsGrouped ==
    ASSUME NEW block
    PROVE  /\ \A c \in block : \E class \in ClassesOf(block) : c \in class
           /\ \A class \in ClassesOf(block) : class \subseteq block /\ class # {} /\ Connected(class)
<1> DEFINE claim == [c \in block |-> Claim[c]]
           read == {claim[c] : c \in block}
           same == {p \in block \X block : ClaimsEquivalent(read, claim[p[1]], claim[p[2]])}
<1>1. ClassesOf(block) = MinimalClosed(block, same)
  BY DEF ClassesOf
<1>2. \A c \in block : claim[c] = Claim[c]
  OBVIOUS
<1> HIDE DEF claim, read
<1>3. same \subseteq block \X block /\ IsSymmetric(same)
  BY EquivalentIsSame DEF IsSymmetric
<1>4. \A p \in same : SameClaim(Claim[p[1]], Claim[p[2]])
  BY <1>2, EquivalentIsSame
<1> HIDE DEF same
<1>5. ASSUME NEW class \in ClassesOf(block)
      PROVE  class \subseteq block /\ class # {} /\ Connected(class)
  BY <1>1, <1>4, ClassesAre, ClassIsConnected
<1> QED
  BY <1>1, <1>3, <1>5, ClassExists

InBlock(claims, b) == {c \in claims : Block(c) = b}

(* The classes of some claims: a claim is in one, and that is one of its   *)
(* block.                                                                  *)
LEMMA ClaimsAreGrouped ==
    ASSUME NEW claims, NEW classes, classes = CanonicalizeClaims(claims)
    PROVE  /\ \A c \in claims : \E class \in classes : c \in class
           /\ \A class \in classes : \A c \in class :
                 c \in claims /\ class \in ClassesOf(InBlock(claims, Block(c))) /\ Connected(class)
           /\ \A c \in claims : ClassesOf(InBlock(claims, Block(c))) \subseteq classes
<1>1. classes = UNION {ClassesOf(block) : block \in BlocksOf(claims)}
  BY GroupingIsByBlock
<1>2. BlocksOf(claims) = {InBlock(claims, b) : b \in {Block(c) : c \in claims}}
  BY DEF BlocksOf, InBlock
<1>3. \A c \in claims : InBlock(claims, Block(c)) \in BlocksOf(claims) /\ c \in InBlock(claims, Block(c))
  BY <1>2 DEF InBlock
<1>4. ASSUME NEW class \in classes, NEW c \in class
      PROVE  c \in claims /\ class \in ClassesOf(InBlock(claims, Block(c))) /\ Connected(class)
  <2>1. PICK b : InBlock(claims, b) \in BlocksOf(claims) /\ class \in ClassesOf(InBlock(claims, b))
    BY <1>1, <1>2
  <2>2. class \subseteq InBlock(claims, b) /\ Connected(class)
    BY <2>1, BlockIsGrouped
  <2>3. c \in claims /\ Block(c) = b
    BY <2>2 DEF InBlock
  <2> QED
    BY <2>1, <2>2, <2>3
<1>5. \A c \in claims : ClassesOf(InBlock(claims, Block(c))) \subseteq classes
  BY <1>1, <1>3
<1>6. \A c \in claims : \E class \in classes : c \in class
  BY <1>3, <1>5, BlockIsGrouped
<1> QED
  BY <1>4, <1>5, <1>6

-------------------------------------------------------------------------------
(* Numbers in order.                                                       *)

(* What has been picked up to a place has every element of the set there.  *)
HasAllTo(s, S, n, picked) ==
    /\ picked \in Seq({s[i] : i \in 1 .. Len(s)})
    /\ \A j \in 1 .. n : s[j] \in S => \E i \in DOMAIN picked : picked[i] = s[j]

(* It has every one there, one place further.                              *)
LEMMA NextIsPicked ==
    ASSUME NEW s, NEW S, Len(s) \in Nat, NEW m \in 1 .. Len(s), NEW picked,
           HasAllTo(s, S, m - 1, picked), NEW now,
           now = IF s[m] \in S THEN Append(picked, s[m]) ELSE picked
    PROVE  HasAllTo(s, S, m, now)
<1> DEFINE T == {s[i] : i \in 1 .. Len(s)}
<1>1. s[m] \in T /\ picked \in Seq(T)
  BY DEF HasAllTo
<1>2. \A j \in 1 .. m : j = m \/ j \in 1 .. m - 1
  OBVIOUS
<1>3. CASE s[m] \notin S
  <2>1. now = picked
    BY <1>3
  <2> QED
    BY <1>2, <1>3, <2>1 DEF HasAllTo
<1>4. CASE s[m] \in S
  <2> HIDE DEF T
  <2>1. now = Append(picked, s[m])
    BY <1>4
  <2>2. Len(picked) \in Nat /\ DOMAIN picked = 1 .. Len(picked)
    BY <1>1
  <2>3. /\ now \in Seq(T) /\ DOMAIN now = 1 .. Len(picked) + 1
        /\ now[Len(picked) + 1] = s[m]
        /\ \A i \in 1 .. Len(picked) : now[i] = picked[i]
    BY <1>1, <2>1, <2>2, AppendProperties
  <2>4. ASSUME NEW j \in 1 .. m, s[j] \in S PROVE \E i \in DOMAIN now : now[i] = s[j]
    <3>1. CASE j = m
      BY <2>2, <2>3, <3>1
    <3>2. CASE j \in 1 .. m - 1
      <4>1. PICK i \in DOMAIN picked : picked[i] = s[j]
        BY <2>4, <3>2 DEF HasAllTo
      <4> QED
        BY <2>2, <2>3, <4>1
    <3> QED
      BY <1>2, <3>1, <3>2
  <2> QED
    BY <2>3, <2>4 DEF HasAllTo, T
<1> QED
  BY <1>3, <1>4

(* Picking leaves no element of the set out.                               *)
LEMMA AllArePicked ==
    ASSUME NEW s, NEW S, Len(s) \in Nat
    PROVE  HasAllTo(s, S, Len(s), Picked(s, S))
<1> DEFINE upTo == CHOOSE f : PickedUpTo(s, S, Len(s), f)
           Bad == {n \in 0 .. Len(s) : ~HasAllTo(s, S, n, upTo[n])}
<1>1. PickedUpTo(s, S, Len(s), upTo)
  BY PickingEnds
<1>2. Picked(s, S) = upTo[Len(s)]
  BY DEF Picked, PickedUpTo
<1> HIDE DEF upTo
<1>3. Bad = {}
  <2> SUFFICES ASSUME NEW n \in Bad PROVE FALSE
    OBVIOUS
  <2>1. Bad \in SUBSET Nat
    OBVIOUS
  <2> HIDE DEF Bad
  <2>2. PICK m \in Bad : \A k \in Bad : m <= k
    BY <2>1, LeastNatural
  <2>3. m \in 0 .. Len(s) /\ ~HasAllTo(s, S, m, upTo[m])
    BY <2>2 DEF Bad
  <2>4. upTo[0] = <<>>
    BY <1>1 DEF PickedUpTo
  <2>5. HasAllTo(s, S, 0, <<>>)
    BY DEF HasAllTo
  <2>6. m # 0
    BY <2>3, <2>4, <2>5
  <2>7. m \in 1 .. Len(s) /\ m - 1 \in 0 .. Len(s) /\ m - 1 \notin Bad
    BY <2>2, <2>3, <2>6, <2>1
  <2>8. HasAllTo(s, S, m - 1, upTo[m - 1])
    BY <2>7 DEF Bad
  <2>9. upTo[m] = IF s[m] \in S THEN Append(upTo[m - 1], s[m]) ELSE upTo[m - 1]
    BY <1>1, <2>3, <2>6 DEF PickedUpTo
  <2> QED
    BY <2>3, <2>7, <2>8, <2>9, NextIsPicked
<1>4. Len(s) \in 0 .. Len(s) /\ Len(s) \notin Bad
  BY <1>3
<1> QED
  BY <1>2, <1>4

(* The numbers of a set in order are its numbers.                          *)
LEMMA InOrderHasAll ==
    ASSUME NEW n \in Nat, NEW S \in SUBSET (1 .. n)
    PROVE  InOrder(S) \in Seq(S) /\ ToSet(InOrder(S)) = S
<1>1. CASE S = {}
  BY <1>1 DEF InOrder, ToSet
<1>2. CASE S # {}
  <2> DEFINE over == {k \in Nat : \A m \in S : m <= k}
             last == CHOOSE k \in S : \A m \in S : m <= k
  <2>1. n \in over
    OBVIOUS
  <2>2. PICK k \in over : \A l \in over : k <= l
    BY <2>1, LeastNatural
  <2>3. k \in S
    <3>1. CASE k = 0
      <4>1. PICK m \in S : TRUE
        BY <1>2
      <4>2. m \in 1 .. n /\ m <= k
        BY <2>2, <4>1
      <4> QED
        BY <3>1, <4>2
    <3>2. CASE k # 0
      <4>1. ASSUME k \notin S PROVE FALSE
        <5>1. k - 1 \in Nat /\ \A m \in S : m <= k - 1
          BY <2>2, <3>2, <4>1
        <5>2. k - 1 \in over
          BY <5>1
        <5> QED
          BY <2>2, <5>2
      <4> QED
        BY <4>1
    <3> QED
      BY <3>1, <3>2
  <2>4. last \in S /\ \A m \in S : m <= last
    BY <2>2, <2>3
  <2> HIDE DEF last
  <2>5. PICK s : s = [i \in 1 .. last |-> i]
    OBVIOUS
  <2>6. last \in Nat /\ Len(s) = last /\ \A i \in 1 .. last : s[i] = i
    BY <2>4, <2>5
  <2>7. InOrder(S) = Picked(s, S)
    BY <1>2, <2>5 DEF InOrder, last
  <2>8. {s[i] : i \in 1 .. Len(s)} \cap S = S
    <3>1. ASSUME NEW c \in S PROVE c \in {s[i] : i \in 1 .. Len(s)}
      <4>1. c \in 1 .. last /\ c = s[c]
        BY <2>4, <2>6
      <4> QED
        BY <2>6, <4>1
    <3> QED
      BY <3>1
  <2>9. Picked(s, S) \in Seq({s[i] : i \in 1 .. Len(s)} \cap S)
    BY <2>6, PickedAreElements
  <2>10. InOrder(S) \in Seq(S)
    BY <2>7, <2>8, <2>9
  <2>11. HasAllTo(s, S, Len(s), InOrder(S))
    BY <2>6, <2>7, AllArePicked
  <2>12. ASSUME NEW c \in S PROVE c \in ToSet(InOrder(S))
    <3>1. c \in 1 .. Len(s) /\ s[c] = c
      BY <2>4, <2>6
    <3>2. PICK i \in DOMAIN InOrder(S) : InOrder(S)[i] = c
      BY <2>11, <3>1 DEF HasAllTo
    <3> QED
      BY <3>2 DEF ToSet
  <2>13. ToSet(InOrder(S)) \subseteq S
    BY <2>10 DEF ToSet
  <2> QED
    BY <2>10, <2>12, <2>13
<1> QED
  BY <1>1, <1>2

-------------------------------------------------------------------------------
(* Conflicts.                                                              *)

(* The first place with a member of a set is one.                          *)
LEMMA FirstIsMember ==
    ASSUME NEW s, Len(s) \in Nat, DOMAIN s = 1 .. Len(s), NEW c \in ToSet(s),
           NEW members, c \in members
    PROVE  FirstOf(s, members) \in 1 .. Len(s) /\ s[FirstOf(s, members)] \in members
<1> DEFINE places == {i \in DOMAIN s : s[i] \in members}
<1>1. PICK i \in places : TRUE
  BY DEF ToSet
<1>2. places \subseteq Nat
  OBVIOUS
<1> HIDE DEF places
<1>3. \E m \in places : \A k \in places : m <= k
  BY <1>1, <1>2, LeastNatural
<1>4. Min(places) \in places
  BY <1>3 DEF Min
<1> QED
  BY <1>4 DEF FirstOf, places

(* Which pairs are written, in one order or the other.                     *)
LEMMA PairsAre ==
    ASSUME NEW s, Len(s) \in Nat, DOMAIN s = 1 .. Len(s), NEW block, NEW bucket
    PROVE  /\ \A p \in ConflictPairs(s, block, bucket) :
                /\ p \in ToSet(s) \X ToSet(s)
                /\ block[p[1]] = block[p[2]] /\ bucket[p[1]] # bucket[p[2]]
           /\ \A c, d \in ToSet(s) : block[c] = block[d] /\ bucket[c] # bucket[d] =>
                \/ <<c, d>> \in ConflictPairs(s, block, bucket)
                \/ <<d, c>> \in ConflictPairs(s, block, bucket)
<1> DEFINE members(c) == {o \in ToSet(s) : block[o] = block[c] /\ bucket[o] = bucket[c]}
           first(c) == FirstOf(s, members(c))
<1>1. ConflictPairs(s, block, bucket) =
        {p \in ToSet(s) \X ToSet(s) :
            /\ block[p[1]] = block[p[2]] /\ bucket[p[1]] # bucket[p[2]]
            /\ first(p[1]) < first(p[2])}
  BY DEF ConflictPairs
<1>2. ASSUME NEW c \in ToSet(s), NEW d \in ToSet(s), block[c] = block[d], bucket[c] # bucket[d]
      PROVE  first(c) < first(d) \/ first(d) < first(c)
  <2>1. c \in members(c) /\ d \in members(d)
    OBVIOUS
  <2>2. /\ first(c) \in 1 .. Len(s) /\ s[first(c)] \in members(c)
        /\ first(d) \in 1 .. Len(s) /\ s[first(d)] \in members(d)
    BY <2>1, FirstIsMember
  <2>3. bucket[s[first(c)]] = bucket[c] /\ bucket[s[first(d)]] = bucket[d]
    BY <2>2
  <2> HIDE DEF first
  <2>4. first(c) # first(d)
    BY <1>2, <2>3
  <2> QED
    BY <2>2, <2>4
<1> HIDE DEF first
<1>3. ASSUME NEW c \in ToSet(s), NEW d \in ToSet(s), block[c] = block[d], bucket[c] # bucket[d]
      PROVE  \/ <<c, d>> \in ConflictPairs(s, block, bucket)
             \/ <<d, c>> \in ConflictPairs(s, block, bucket)
  BY <1>1, <1>2, <1>3
<1> QED
  BY <1>1, <1>3

(* Two claims that contradict each other as find_conflicts has it.         *)
Contradict(c, d) ==
    /\ Block(c) = Block(d)
    /\ \/ Claim[c].polarity # Claim[d].polarity
       \/ /\ Claim[c].object # None /\ Claim[d].object # None
          /\ Claim[c].object # Claim[d].object

(* What it finds among some claims, in whatever order it reads them: those *)
(* pairs, each in one order or the other.                                  *)
LEMMA ConflictsAre ==
    ASSUME NEW set, NEW claims \in Seq(set)
    PROVE  /\ \A p \in DOMAIN ConflictRows(claims) : \E c, d \in ToSet(claims) :
                p = <<c, d>> /\ Contradict(c, d)
           /\ \A c, d \in ToSet(claims) : Contradict(c, d) =>
                \/ <<c, d>> \in DOMAIN ConflictRows(claims)
                \/ <<d, c>> \in DOMAIN ConflictRows(claims)
<1> DEFINE S == ToSet(claims)
           block == [c \in S |-> BlockOf(Claim[c])]
           polarity == [c \in S |-> Claim[c].polarity]
           value == [c \in S |-> <<Claim[c].polarity, Claim[c].object>>]
           named == {c \in S : Claim[c].object # None}
           valued == Picked(claims, named)
           opposed == ConflictPairs(claims, block, polarity)
           differing == {p \in ConflictPairs(valued, block, value) :
                            polarity[p[1]] = polarity[p[2]]}
           byPolarity == {[a |-> p[1], b |-> p[2], type |-> "polarity"] : p \in opposed}
           byValue == {[a |-> p[1], b |-> p[2], type |-> "value_conflict"] : p \in differing}
<1>1. ConflictCandidates(Claim, claims) = byPolarity \cup byValue
  BY DEF ConflictCandidates
<1>2. /\ Len(claims) \in Nat /\ DOMAIN claims = 1 .. Len(claims)
      /\ \A i \in DOMAIN claims : claims[i] \in S
  BY DEF ToSet
<1>3. /\ Len(valued) \in Nat /\ DOMAIN valued = 1 .. Len(valued) /\ ToSet(valued) = named
  <2> HIDE DEF named
  <2>1. valued \in Seq({claims[n] : n \in 1 .. Len(claims)} \cap named)
    BY <1>2, PickedAreElements
  <2>2. HasAllTo(claims, named, Len(claims), valued)
    BY <1>2, AllArePicked
  <2>3. ASSUME NEW c \in named PROVE c \in ToSet(valued)
    <3>1. PICK i \in DOMAIN claims : claims[i] = c
      BY <2>3 DEF named, ToSet
    <3>2. PICK j \in DOMAIN valued : valued[j] = c
      BY <1>2, <2>2, <2>3, <3>1 DEF HasAllTo
    <3> QED
      BY <3>2 DEF ToSet
  <2> HIDE DEF valued
  <2>4. ToSet(valued) \subseteq named
    BY <2>1 DEF ToSet
  <2> QED
    BY <2>1, <2>3, <2>4
<1>4. \A c \in S : block[c] = Block(c) /\ polarity[c] = Claim[c].polarity
        /\ value[c] = <<Claim[c].polarity, Claim[c].object>>
  BY DEF Block
<1>5. named \subseteq S /\ \A c \in S : c \in named <=> Claim[c].object # None
  OBVIOUS
<1> HIDE DEF S, block, polarity, value, named, valued
<1>6. /\ \A p \in opposed : /\ p \in S \X S
                            /\ block[p[1]] = block[p[2]] /\ polarity[p[1]] # polarity[p[2]]
      /\ \A c, d \in S : block[c] = block[d] /\ polarity[c] # polarity[d] =>
            <<c, d>> \in opposed \/ <<d, c>> \in opposed
  BY <1>2, PairsAre DEF S
<1>7. /\ \A p \in ConflictPairs(valued, block, value) :
            /\ p \in named \X named
            /\ block[p[1]] = block[p[2]] /\ value[p[1]] # value[p[2]]
      /\ \A c, d \in named : block[c] = block[d] /\ value[c] # value[d] =>
            \/ <<c, d>> \in ConflictPairs(valued, block, value)
            \/ <<d, c>> \in ConflictPairs(valued, block, value)
  BY <1>3, PairsAre
<1>8. DOMAIN ConflictRows(claims) = {<<k.a, k.b>> : k \in byPolarity \cup byValue}
  BY <1>1 DEF ConflictRows, ByPair
<1>9. {<<k.a, k.b>> : k \in byPolarity \cup byValue} =
        {<<p[1], p[2]>> : p \in opposed \cup differing}
  <2> HIDE DEF opposed, differing
  <2>1. ASSUME NEW k \in byPolarity \cup byValue
        PROVE  <<k.a, k.b>> \in {<<p[1], p[2]>> : p \in opposed \cup differing}
    OBVIOUS
  <2>2. ASSUME NEW p \in opposed
        PROVE  <<p[1], p[2]>> \in {<<k.a, k.b>> : k \in byPolarity \cup byValue}
    <3>1. PICK k : k = [a |-> p[1], b |-> p[2], type |-> "polarity"]
      OBVIOUS
    <3>2. k \in byPolarity /\ k.a = p[1] /\ k.b = p[2]
      BY <3>1
    <3> QED
      BY <3>2
  <2>3. ASSUME NEW p \in differing
        PROVE  <<p[1], p[2]>> \in {<<k.a, k.b>> : k \in byPolarity \cup byValue}
    <3>1. PICK k : k = [a |-> p[1], b |-> p[2], type |-> "value_conflict"]
      OBVIOUS
    <3>2. k \in byValue /\ k.a = p[1] /\ k.b = p[2]
      BY <3>1
    <3> QED
      BY <3>2
  <2> QED
    BY <2>1, <2>2, <2>3
<1>10. DOMAIN ConflictRows(claims) = {<<p[1], p[2]>> : p \in opposed \cup differing}
  BY <1>8, <1>9
<1>11. ASSUME NEW p \in opposed \cup differing
       PROVE  p[1] \in S /\ p[2] \in S /\ Contradict(p[1], p[2])
  <2>1. CASE p \in opposed
    BY <1>4, <1>6, <2>1 DEF Contradict
  <2>2. CASE p \in differing
    <3>1. /\ p[1] \in named /\ p[2] \in named
          /\ block[p[1]] = block[p[2]] /\ value[p[1]] # value[p[2]]
          /\ polarity[p[1]] = polarity[p[2]]
      BY <1>7, <2>2
    <3> QED
      BY <1>4, <1>5, <3>1 DEF Contradict
  <2> QED
    BY <1>11, <2>1, <2>2
<1>12. ASSUME NEW c \in S, NEW d \in S, Contradict(c, d)
       PROVE  <<c, d>> \in opposed \cup differing \/ <<d, c>> \in opposed \cup differing
  <2>1. CASE Claim[c].polarity # Claim[d].polarity
    BY <1>4, <1>6, <1>12, <2>1 DEF Contradict
  <2>2. CASE Claim[c].polarity = Claim[d].polarity
    <3>1. c \in named /\ d \in named /\ Claim[c].object # Claim[d].object
          /\ Block(c) = Block(d)
      BY <1>5, <1>12, <2>2 DEF Contradict
    <3>2. value[c] # value[d] /\ polarity[c] = polarity[d] /\ block[c] = block[d]
      BY <1>4, <2>2, <3>1
    <3> QED
      BY <1>7, <3>1, <3>2
  <2> QED
    BY <2>1, <2>2
<1> HIDE DEF opposed, differing
<1>13. ASSUME NEW q \in DOMAIN ConflictRows(claims)
       PROVE  \E c, d \in S : q = <<c, d>> /\ Contradict(c, d)
  <2>1. PICK p \in opposed \cup differing : q = <<p[1], p[2]>>
    BY <1>10
  <2> QED
    BY <1>11, <2>1
<1>14. ASSUME NEW c \in S, NEW d \in S, <<c, d>> \in opposed \cup differing
       PROVE  <<c, d>> \in DOMAIN ConflictRows(claims)
  BY <1>10, <1>14
<1> QED
  BY <1>12, <1>13, <1>14 DEF S

-------------------------------------------------------------------------------
(* Claims judged together.                                                 *)

(* How a claim on file is judged with the others: in a canonical claim of  *)
(* its block, with the rows that say so, and in a row for each claim it    *)
(* contradicts.                                                            *)
Judged(table, members, canonicals, pairs, c) ==
    /\ c \in table[c].canonical
    /\ table[c].canonical \in ClassesOf(InBlock(DOMAIN table, Block(c)))
    /\ <<c, table[c].canonical>> \in members
    /\ table[c].canonical \in canonicals
    /\ \A d \in DOMAIN table : Contradict(c, d) => <<c, d>> \in pairs \/ <<d, c>> \in pairs

(* More rows judge no less.                                                *)
LEMMA JudgedWithMore ==
    ASSUME NEW table, NEW m1, NEW m2, m1 \subseteq m2, NEW c1, NEW c2, c1 \subseteq c2,
           NEW p1, NEW p2, p1 \subseteq p2, NEW c, Judged(table, m1, c1, p1, c)
    PROVE  Judged(table, m2, c2, p2, c)
  BY DEF Judged

(* Claims of other blocks do not matter.                                   *)
LEMMA JudgedInItsBlock ==
    ASSUME NEW old, NEW new, NEW c, c \in DOMAIN old, old[c] = new[c],
           InBlock(DOMAIN old, Block(c)) = InBlock(DOMAIN new, Block(c)),
           NEW members, NEW canonicals, NEW pairs,
           Judged(old, members, canonicals, pairs, c)
    PROVE  Judged(new, members, canonicals, pairs, c)
<1>1. ASSUME NEW d \in DOMAIN new, Contradict(c, d) PROVE d \in DOMAIN old
  <2>1. d \in InBlock(DOMAIN new, Block(c))
    BY <1>1 DEF Contradict, InBlock
  <2> QED
    BY <2>1 DEF InBlock
<1> QED
  BY <1>1 DEF Judged

(* Grouping whole blocks, and looking for conflicts among their claims,    *)
(* judges each of them.                                                    *)
LEMMA TogetherAllAreJudged ==
    ASSUME NEW table, NEW claims \in SUBSET DOMAIN table,
           \A c \in claims : \A d \in DOMAIN table : Block(d) = Block(c) => d \in claims,
           NEW classes, classes = CanonicalizeClaims(claims),
           \A c \in claims : table[c].canonical = CHOOSE class \in classes : c \in class,
           NEW order \in Seq(claims), ToSet(order) = claims,
           NEW c \in claims
    PROVE  Judged(table, DOMAIN MemberRows(classes), DOMAIN CanonicalRows(classes),
                  DOMAIN ConflictRows(order), c)
<1>1. PICK class : class = table[c].canonical
  OBVIOUS
<1>2. class \in classes /\ c \in class
  BY <1>1, ClaimsAreGrouped
<1>3. class \in ClassesOf(InBlock(claims, Block(c)))
  BY <1>2, ClaimsAreGrouped
<1>4. InBlock(claims, Block(c)) = InBlock(DOMAIN table, Block(c))
  BY DEF InBlock
<1>5. <<c, class>> \in DOMAIN MemberRows(classes)
  BY <1>2 DEF MemberRows
<1>6. class \in DOMAIN CanonicalRows(classes)
  BY <1>2 DEF CanonicalRows
<1>7. ASSUME NEW d \in DOMAIN table, Contradict(c, d)
      PROVE  <<c, d>> \in DOMAIN ConflictRows(order) \/ <<d, c>> \in DOMAIN ConflictRows(order)
  <2>1. d \in claims
    BY <1>7 DEF Contradict
  <2> QED
    BY <1>7, <2>1, ConflictsAre
<1> QED
  BY <1>1, <1>2, <1>3, <1>4, <1>5, <1>6, <1>7 DEF Judged

(* The rows a grouping has: members of what they are members of.           *)
LEMMA MembersAreConnected ==
    ASSUME NEW claims, NEW row \in DOMAIN MemberRows(CanonicalizeClaims(claims))
    PROVE  row[1] \in row[2] /\ Connected(row[2])
<1>1. PICK classes : classes = CanonicalizeClaims(claims)
  OBVIOUS
<1>2. PICK class \in classes : \E c \in class : row = <<c, class>>
  BY <1>1 DEF MemberRows
<1> QED
  BY <1>1, <1>2, ClaimsAreGrouped

-------------------------------------------------------------------------------
(* Copies.                                                                 *)

(* Copies repeat each other.                                               *)
LEMMA SimilarIsSymmetric ==
    ASSUME NEW d, NEW e, Similar(d, e)
    PROVE  Similar(e, d)
<1>1. CASE <<d, e>> \in Near
  <2>1. <<<<d, e>>[2], <<d, e>>[1]>> \in Near
    BY <1>1, RulesAssumption
  <2> QED
    BY <2>1 DEF Similar
<1>2. CASE SameText(d, e)
  BY <1>2 DEF Similar, SameText
<1> QED
  BY <1>1, <1>2 DEF Similar

Share(clusters, d, e) == \E cluster \in clusters : {d, e} \subseteq cluster

(* Clustering the whole corpus puts copies into one cluster: what is near  *)
(* one of the documents with a text is near the one that stands for them.  *)
LEMMA CopiesAreClustered ==
    ASSUME NEW d \in Docs, NEW e \in Docs, Similar(d, e)
    PROVE  Share(CascadeCluster(Docs), d, e)
<1> DEFINE texts == {{x \in Docs : SameText(y, x)} : y \in Docs}
           group(text) == text \cup {x \in Docs : <<Min(text), x>> \in Near}
           groups == {group(text) : text \in texts}
           same == UNION {g \X g : g \in groups}
           mine == {x \in Docs : SameText(d, x)}
<1>1. CascadeCluster(Docs) = MinimalClosed(Docs, same)
  BY DEF CascadeCluster
<1>2. mine \in texts /\ d \in mine
  BY DEF SameText
<1>3. group(mine) \in groups
  BY <1>2
<1>4. Min(mine) \in mine
  <2>1. mine \subseteq Nat /\ mine # {}
    BY <1>2, RulesAssumption
  <2> HIDE DEF mine
  <2>2. \E m \in mine : \A n \in mine : m <= n
    BY <2>1, LeastNatural
  <2> QED
    BY <2>2 DEF Min
<1>5. e \in group(mine)
  <2>1. CASE SameText(d, e)
    BY <2>1
  <2>2. CASE <<d, e>> \in Near /\ ~SameText(d, e)
    <3>1. PICK r : r = Min(mine)
      OBVIOUS
    <3>2. r \in Docs /\ Document[d].sentences = Document[r].sentences
      BY <1>4, <3>1 DEF SameText
    <3>3. e \in Docs \ {r}
      BY <2>2, <3>2 DEF SameText
    <3>4. <<r, e>> \in Near
      BY <2>2, <3>2, <3>3, RulesAssumption
    <3> QED
      BY <3>1, <3>4
  <2> QED
    BY <2>1, <2>2 DEF Similar
<1>6. \A g \in groups : g \subseteq Docs
  OBVIOUS
<1> HIDE DEF mine, texts, group
<1>7. <<d, e>> \in same
  <2>1. d \in group(mine) /\ e \in group(mine)
    BY <1>2, <1>5 DEF group
  <2> QED
    BY <1>3, <2>1
<1>8. same \subseteq Docs \X Docs /\ IsSymmetric(same)
  BY <1>6 DEF IsSymmetric
<1> HIDE DEF same, groups
<1>9. PICK class \in MinimalClosed(Docs, same) : d \in class
  BY <1>8, ClassExists
<1>10. IsClosed(class, same)
  BY <1>9, ClassesAre
<1>11. e \in class
  BY <1>7, <1>9, <1>10 DEF IsClosed
<1> QED
  BY <1>1, <1>9, <1>11 DEF Share

-------------------------------------------------------------------------------
(* The order of a rebuild.                                                 *)

(* The claims of the documents a rebuild has run through, in that order.   *)
RunUpTo(s, n, f) ==
    f = [k \in 0 .. n |-> IF k = 0 THEN <<>> ELSE f[k - 1] \o InOrder(DocClaims[s[k]])]

(* The function that runs through them, one document further.              *)
LEMMA RunningGoesOn ==
    ASSUME NEW s, NEW m \in Nat, NEW f, RunUpTo(s, m, f)
    PROVE  \E g : RunUpTo(s, m + 1, g)
<1> DEFINE last == f[m] \o InOrder(DocClaims[s[m + 1]])
           g == [k \in 0 .. (m + 1) |-> IF k = m + 1 THEN last ELSE f[k]]
<1>1. ASSUME NEW k \in 0 .. (m + 1)
      PROVE  g[k] = IF k = 0 THEN <<>> ELSE g[k - 1] \o InOrder(DocClaims[s[k]])
  <2>1. CASE k = m + 1
    <3> HIDE DEF last
    <3>1. g[k] = last /\ g[m] = f[m] /\ k # 0 /\ k - 1 = m
      BY <2>1
    <3> HIDE DEF g
    <3> QED
      BY <2>1, <3>1 DEF last
  <2>2. CASE k \in 0 .. m
    <3>1. g[k] = f[k] /\ (k # 0 => g[k - 1] = f[k - 1])
      BY <2>2
    <3> HIDE DEF g
    <3> QED
      BY <2>2, <3>1 DEF RunUpTo
  <2> QED
    BY <2>1, <2>2
<1>2. g = [k \in 0 .. (m + 1) |-> g[k]]
  OBVIOUS
<1> HIDE DEF g
<1>3. RunUpTo(s, m + 1, g)
  BY <1>1, <1>2 DEF RunUpTo
<1> QED
  BY <1>3

(* So it exists.                                                           *)
LEMMA RunningEnds ==
    ASSUME NEW s, NEW n \in Nat
    PROVE  \E f : RunUpTo(s, n, f)
<1> DEFINE Bad == {m \in Nat : ~ \E f : RunUpTo(s, m, f)}
<1>1. SUFFICES ASSUME n \in Bad PROVE FALSE
  OBVIOUS
<1>2. PICK m \in Bad : \A k \in Bad : m <= k
  BY <1>1, LeastNatural
<1>3. m # 0
  <2>1. RunUpTo(s, 0, [k \in 0 .. 0 |-> <<>>])
    BY DEF RunUpTo
  <2> QED
    BY <2>1
<1>4. m - 1 \in Nat /\ m - 1 \notin Bad
  BY <1>2, <1>3
<1>5. \E f : RunUpTo(s, (m - 1) + 1, f)
  BY <1>4, RunningGoesOn
<1> QED
  BY <1>2, <1>5

(* The claims of a document, in their order.                               *)
LEMMA ClaimsInOrder ==
    ASSUME ClaimsAreExtracted, NEW d \in Docs
    PROVE  /\ InOrder(DocClaims[d]) \in Seq(DOMAIN Claim)
           /\ ToSet(InOrder(DocClaims[d])) = DocClaims[d]
<1>1. DOMAIN Claim = 1 .. Len(Claim) /\ Len(Claim) \in Nat
  BY DEF ClaimsAreExtracted
<1>2. DocClaims[d] \in SUBSET (1 .. Len(Claim))
  BY <1>1 DEF DocClaims
<1>3. InOrder(DocClaims[d]) \in Seq(DocClaims[d]) /\ ToSet(InOrder(DocClaims[d])) = DocClaims[d]
  BY <1>1, <1>2, InOrderHasAll
<1>4. Seq(DocClaims[d]) \subseteq Seq(DOMAIN Claim)
  BY <1>1, <1>2
<1> QED
  BY <1>3, <1>4

(* What it runs through are the claims of the documents, no more or less.  *)
LEMMA RunHasAll ==
    ASSUME ClaimsAreExtracted, NEW s \in Seq(Docs), NEW f, RunUpTo(s, Len(s), f)
    PROVE  /\ f[Len(s)] \in Seq(DOMAIN Claim)
           /\ ToSet(f[Len(s)]) = UNION {DocClaims[d] : d \in ToSet(s)}
<1> DEFINE All(n) == UNION {DocClaims[s[i]] : i \in 1 .. n}
           Good(n) == f[n] \in Seq(DOMAIN Claim) /\ ToSet(f[n]) = All(n)
           Bad == {n \in 0 .. Len(s) : ~Good(n)}
<1>0. Len(s) \in Nat /\ DOMAIN s = 1 .. Len(s) /\ \A i \in 1 .. Len(s) : s[i] \in Docs
  OBVIOUS
<1>1. Bad = {}
  <2> SUFFICES ASSUME NEW n \in Bad PROVE FALSE
    OBVIOUS
  <2>1. Bad \in SUBSET Nat
    OBVIOUS
  <2> HIDE DEF Bad
  <2>2. PICK m \in Bad : \A k \in Bad : m <= k
    BY <2>1, LeastNatural
  <2>3. m \in 0 .. Len(s) /\ ~Good(m)
    BY <2>2 DEF Bad
  <2>4. f[0] = <<>>
    BY <1>0 DEF RunUpTo
  <2>5. Good(0)
    BY <2>4 DEF ToSet
  <2>6. m # 0
    BY <2>3, <2>5
  <2> HIDE DEF Good
  <2>7. m \in 1 .. Len(s) /\ m - 1 \in 0 .. Len(s) /\ m - 1 \notin Bad
    BY <1>0, <2>2, <2>3, <2>6
  <2>8. Good(m - 1)
    BY <2>7 DEF Bad
  <2>9. PICK before, added : before = f[m - 1] /\ added = InOrder(DocClaims[s[m]])
    OBVIOUS
  <2>10. f[m] = before \o added
    BY <1>0, <2>3, <2>6, <2>9 DEF RunUpTo
  <2>11. before \in Seq(DOMAIN Claim) /\ ToSet(before) = All(m - 1)
    BY <2>8, <2>9 DEF Good
  <2>12. added \in Seq(DOMAIN Claim) /\ ToSet(added) = DocClaims[s[m]]
    BY <1>0, <2>7, <2>9, ClaimsInOrder
  <2>13. /\ before \o added \in Seq(DOMAIN Claim)
         /\ ToSet(before \o added) = ToSet(before) \cup ToSet(added)
    <3>1. /\ Len(before) \in Nat /\ DOMAIN before = 1 .. Len(before)
          /\ Len(added) \in Nat /\ DOMAIN added = 1 .. Len(added)
      BY <2>11, <2>12
    <3>2. PICK both : both = before \o added
      OBVIOUS
    <3>3. /\ both \in Seq(DOMAIN Claim) /\ DOMAIN both = 1 .. Len(before) + Len(added)
          /\ \A i \in 1 .. Len(before) + Len(added) :
               both[i] = IF i <= Len(before) THEN before[i] ELSE added[i - Len(before)]
      BY <2>11, <2>12, <3>2, ConcatProperties
    <3>4. ASSUME NEW i \in DOMAIN both PROVE both[i] \in ToSet(before) \cup ToSet(added)
      <4>1. CASE i <= Len(before)
        BY <3>1, <3>3, <4>1 DEF ToSet
      <4>2. CASE ~(i <= Len(before))
        <5>1. i - Len(before) \in DOMAIN added /\ both[i] = added[i - Len(before)]
          BY <3>1, <3>3, <4>2
        <5> QED
          BY <5>1 DEF ToSet
      <4> QED
        BY <4>1, <4>2
    <3>5. ASSUME NEW i \in DOMAIN before PROVE before[i] \in ToSet(both)
      <4>1. i \in DOMAIN both /\ both[i] = before[i]
        BY <3>1, <3>3
      <4> QED
        BY <4>1 DEF ToSet
    <3>6. ASSUME NEW i \in DOMAIN added PROVE added[i] \in ToSet(both)
      <4>1. i + Len(before) \in DOMAIN both /\ both[i + Len(before)] = added[i]
        BY <3>1, <3>3
      <4> QED
        BY <4>1 DEF ToSet
    <3>7. ToSet(both) \subseteq ToSet(before) \cup ToSet(added)
      BY <3>4 DEF ToSet
    <3>8. ToSet(before) \subseteq ToSet(both) /\ ToSet(added) \subseteq ToSet(both)
      BY <3>5, <3>6 DEF ToSet
    <3> QED
      BY <3>2, <3>3, <3>7, <3>8
  <2>14. All(m) = All(m - 1) \cup DocClaims[s[m]]
    <3>1. \A i \in 1 .. m : i = m \/ i \in 1 .. m - 1
      BY <2>3
    <3>2. m \in 1 .. m /\ 1 .. m - 1 \subseteq 1 .. m
      BY <2>7
    <3> QED
      BY <3>1, <3>2
  <2> HIDE DEF All
  <2>15. Good(m)
    BY <2>10, <2>11, <2>12, <2>13, <2>14 DEF Good
  <2> QED
    BY <2>3, <2>15
<1> HIDE DEF Good
<1>2. Good(Len(s))
  <2>1. Len(s) \in 0 .. Len(s)
    BY <1>0
  <2> QED
    BY <1>1, <2>1
<1>3. All(Len(s)) = UNION {DocClaims[d] : d \in ToSet(s)}
  BY <1>0 DEF ToSet
<1> QED
  BY <1>2, <1>3 DEF Good

-------------------------------------------------------------------------------
(* What a corpus owes its judgement.                                       *)

(* Blocks with a claim of a document that is owed.                         *)
OpenBlocks == {Block(c) : c \in UNION {DocClaims[d] : d \in owed}}

OnFile == curated["claim_candidates"]

(* Rows of a table, committed or to be.                                    *)
Written(t) == DOMAIN curated[t] \cup DOMAIN buffer[t]

GroupingTables == {"member_of", "canonical_claims", "conflict_candidates"}

HaveCanonical(table) == \A c \in DOMAIN table : "canonical" \in DOMAIN table[c]

(* The gate lets every claim through, and a claim names its group.         *)
ClaimsAreComplete == AllPromoted(OnFile) /\ HaveCanonical(OnFile)

ClosedAreJudged ==
    \A c \in DOMAIN OnFile : Block(c) \notin OpenBlocks =>
        Judged(OnFile, DOMAIN curated["member_of"], DOMAIN curated["canonical_claims"],
               DOMAIN curated["conflict_candidates"], c)

(* A batch has judged its blocks once it commits.                          *)
BatchIsJudged ==
    pc = "commit" => \A c \in Touched(OnFile) :
        Judged(OnFile, Written("member_of"), Written("canonical_claims"),
               Written("conflict_candidates"), c)

MembersStand ==
    \A row \in Written("member_of") : row[1] \in row[2] /\ Connected(row[2])

ConflictsStand == \A p \in Written("conflict_candidates") : Contradict(p[1], p[2])

SignaturesAreOfDocs == Written("dup_signatures") \subseteq Docs

(* A batch has found the copies of its documents once it has run its chain.*)
BatchShares ==
    pc \in {"reconcile", "commit"} =>
        \A d \in batch : \A e \in Confirmed \cup batch :
            d # e /\ Similar(d, e) => Share(Written("dup_clusters"), d, e)

JudgingInv ==
    /\ ClaimsAreComplete
    /\ ClosedAreJudged
    /\ BatchIsJudged
    /\ MembersStand
    /\ ConflictsStand

CopiesInv ==
    /\ SignaturesAreOfDocs
    /\ BatchShares
    /\ CopiesShareACluster

(* What else the chain writes: claims without a group, and none of the     *)
(* tables of the reconciliation.                                           *)
LEMMA ChainLeaves ==
    ASSUME NEW order, NEW chain, chain = ChainRows(order)
    PROVE  /\ HaveCanonical(chain["claim_candidates"])
           /\ \A t \in GroupingTables \cup {"dup_signatures", "dup_clusters"} : chain[t] = NoRows
<1> DEFINE docs == ToSet(order)
           claims == UNION {DocClaims[d] : d \in docs}
           provenance == ProvenanceRows(claims)
           promoted == {c \in claims : GateClaim(Claim[c], {provenance[c]})}
<1>1. chain = [t \in Tables |->
            CASE t = "mentions" -> MentionRows(docs)
              [] t = "entities" -> EntityRows(order)
              [] t = "extraction_records" -> provenance
              [] t = "claim_candidates" -> ClaimRows(claims, promoted)
              [] t = "assertions" -> AssertionRows(promoted)
              [] OTHER -> NoRows]
  BY Zenon DEF ChainRows
<1> HIDE DEF docs, claims, provenance, promoted
<1>2. \A t \in GroupingTables \cup {"dup_signatures", "dup_clusters"} :
        t \in Tables /\ t \notin {"mentions", "entities", "extraction_records",
                                  "claim_candidates", "assertions"}
  BY TablesAre DEF GroupingTables
<1>3. ASSUME NEW t \in GroupingTables \cup {"dup_signatures", "dup_clusters"}
      PROVE  chain[t] = NoRows
  BY <1>1, <1>2, Zenon
<1>4. chain["claim_candidates"] = ClaimRows(claims, promoted)
  <2>1. "claim_candidates" \in Tables
    BY TablesAre
  <2> QED
    BY <1>1, <2>1, Zenon
<1>5. HaveCanonical(ClaimRows(claims, promoted))
  BY DEF HaveCanonical, ClaimRows
<1> QED
  BY <1>3, <1>4, <1>5

(* What the step that runs it does to the tables.                          *)
LEMMA RunChainWrites ==
    ASSUME ClaimsAreExtracted, CorpusInv, RunChain
    PROVE  /\ \E rows :
                /\ OnFile' = CommitRows("claim_candidates", OnFile, rows)
                /\ DOMAIN rows = UNION {DocClaims[d] : d \in batch}
                /\ HaveStatus(rows) /\ AllPromoted(rows) /\ HaveCanonical(rows)
           /\ \A t \in Tables \ {"claim_candidates"} : curated'[t] = curated[t]
           /\ \A t \in GroupingTables : buffer'[t] = NoRows
           /\ buffer'["dup_signatures"] = SignatureRows(batch)
           /\ buffer'["dup_clusters"] = ClusterRows(CopyGroups)
<1>1. PICK order \in SetToSeqs(batch) : BufferChain(ChainRows(order))
  BY DEF RunChain
<1>2. PICK chain : chain = ChainRows(order)
  OBVIOUS
<1>3. ToSet(order) = batch /\ batch \subseteq Docs
  BY <1>1, OrderCovers DEF CorpusInv, CorpusTypeOK
<1>4. /\ DOMAIN chain = Tables
      /\ HaveStatus(chain["claim_candidates"]) /\ AllPromoted(chain["claim_candidates"])
      /\ DOMAIN chain["claim_candidates"] = UNION {DocClaims[d] : d \in batch}
  BY <1>2, <1>3, ChainWrites
<1>5. /\ HaveCanonical(chain["claim_candidates"])
      /\ \A t \in GroupingTables : chain[t] = NoRows
  BY <1>2, ChainLeaves
<1>6. /\ curated' = [curated EXCEPT !["claim_candidates"] =
                       CommitRows("claim_candidates", @, chain["claim_candidates"])]
      /\ buffer' = [chain EXCEPT !["claim_candidates"] = NoRows,
                                 !["dup_signatures"] = SignatureRows(batch),
                                 !["dup_bands"] = BandRows(batch),
                                 !["dup_clusters"] = ClusterRows(CopyGroups)]
  BY <1>1, <1>2 DEF BufferChain
<1>7. DOMAIN curated = Tables
  BY DEF CorpusInv, CorpusTypeOK
<1>8. /\ OnFile' = CommitRows("claim_candidates", OnFile, chain["claim_candidates"])
      /\ \A t \in Tables \ {"claim_candidates"} : curated'[t] = curated[t]
  BY <1>6, <1>7, TablesAre DEF OnFile
<1>9. /\ \A t \in GroupingTables : buffer'[t] = chain[t]
      /\ buffer'["dup_signatures"] = SignatureRows(batch)
      /\ buffer'["dup_clusters"] = ClusterRows(CopyGroups)
  BY <1>4, <1>6, TablesAre DEF GroupingTables
<1> QED
  BY <1>4, <1>5, <1>8, <1>9

(* Claims on file are claims of documents in the zone.                     *)
LEMMA FiledAreClaims ==
    ASSUME CorpusInv, NEW c \in DOMAIN OnFile
    PROVE  c \in DOMAIN Claim /\ Claim[c].doc \in normalized /\ Claim[c].doc \in Docs
           /\ c \in DocClaims[Claim[c].doc]
<1>1. c \in DOMAIN Claim /\ Claim[c].doc \in normalized /\ Claim[c].doc \in Docs
  BY DEF CorpusInv, AssertionsStand, CorpusTypeOK, OnFile
<1> QED
  BY <1>1 DEF DocClaims

(* Steps that leave the claims alone and lose no row close no block.       *)
LEMMA StillJudged ==
    ASSUME ClosedAreJudged, OnFile' = OnFile, owed \subseteq owed',
           \A t \in GroupingTables : DOMAIN curated[t] \subseteq DOMAIN curated'[t]
    PROVE  ClosedAreJudged'
<1>1. OpenBlocks \subseteq OpenBlocks'
  BY DEF OpenBlocks
<1>2. /\ DOMAIN curated["member_of"] \subseteq DOMAIN curated'["member_of"]
      /\ DOMAIN curated["canonical_claims"] \subseteq DOMAIN curated'["canonical_claims"]
      /\ DOMAIN curated["conflict_candidates"] \subseteq DOMAIN curated'["conflict_candidates"]
  BY DEF GroupingTables
<1>3. ASSUME NEW c \in DOMAIN OnFile, Block(c) \notin OpenBlocks'
      PROVE  Judged(OnFile, DOMAIN curated'["member_of"], DOMAIN curated'["canonical_claims"],
                    DOMAIN curated'["conflict_candidates"], c)
  <2>1. Judged(OnFile, DOMAIN curated["member_of"], DOMAIN curated["canonical_claims"],
               DOMAIN curated["conflict_candidates"], c)
    BY <1>1, <1>3 DEF ClosedAreJudged
  <2> QED
    BY <1>2, <2>1, JudgedWithMore
<1> QED
  BY <1>3 DEF ClosedAreJudged

-------------------------------------------------------------------------------
(* The steps that judge.                                                   *)

(* Steps that leave the curated tables alone, and write nothing.           *)
LEMMA QuietStepsJudge ==
    ASSUME JudgingInv, curated' = curated, owed \subseteq owed', pc' # "commit",
           \A t \in GroupingTables : DOMAIN buffer'[t] \subseteq DOMAIN buffer[t]
    PROVE  JudgingInv'
<1>1. OnFile' = OnFile
  BY DEF OnFile
<1>2. ClosedAreJudged'
  BY <1>1, StillJudged DEF JudgingInv
<1>3. Written("member_of")' \subseteq Written("member_of")
      /\ Written("conflict_candidates")' \subseteq Written("conflict_candidates")
  BY DEF Written, GroupingTables
<1>4. MembersStand' /\ ConflictsStand'
  BY <1>3 DEF JudgingInv, MembersStand, ConflictsStand
<1> QED
  BY <1>1, <1>2, <1>4 DEF JudgingInv, ClaimsAreComplete, BatchIsJudged

(* What a commit of claims leaves on file.                                 *)
LEMMA ClaimsCommitted ==
    ASSUME NEW table, HaveCanonical(table), AllPromoted(table),
           NEW rows, HaveCanonical(rows), AllPromoted(rows),
           NEW r, r = CommitRows("claim_candidates", table, rows)
    PROVE  /\ DOMAIN r = DOMAIN table \cup DOMAIN rows
           /\ \A c \in DOMAIN rows : r[c] = rows[c]
           /\ \A c \in DOMAIN table \ DOMAIN rows : r[c] = table[c]
           /\ HaveCanonical(r) /\ AllPromoted(r)
<1>1. "claim_candidates" \in Replaced
  BY DEF Replaced
<1>2. /\ DOMAIN r = DOMAIN table \cup DOMAIN rows
      /\ \A c \in DOMAIN rows : r[c] = rows[c]
      /\ \A c \in DOMAIN table \ DOMAIN rows : r[c] = table[c]
  BY <1>1 DEF CommitRows
<1> QED
  BY <1>2 DEF HaveCanonical, AllPromoted

(* The chain of a batch: its claims are of open blocks.                    *)
LEMMA RunChainJudges ==
    ASSUME ClaimsAreExtracted, CorpusInv, JudgingInv, RunChain
    PROVE  JudgingInv'
<1>1. PICK rows :
        /\ OnFile' = CommitRows("claim_candidates", OnFile, rows)
        /\ DOMAIN rows = UNION {DocClaims[d] : d \in batch}
        /\ HaveStatus(rows) /\ AllPromoted(rows) /\ HaveCanonical(rows)
  BY RunChainWrites
<1>2. \A t \in GroupingTables : curated'[t] = curated[t] /\ buffer'[t] = NoRows
  BY RunChainWrites, TablesAre DEF GroupingTables
<1>3. /\ DOMAIN OnFile' = DOMAIN OnFile \cup DOMAIN rows
      /\ \A c \in DOMAIN OnFile \ DOMAIN rows : OnFile'[c] = OnFile[c]
      /\ ClaimsAreComplete'
  <2>1. PICK table, r : table = OnFile /\ r = OnFile'
    OBVIOUS
  <2>2. r = CommitRows("claim_candidates", table, rows)
    BY <1>1, <2>1
  <2>3. HaveCanonical(table) /\ AllPromoted(table)
    BY <2>1 DEF JudgingInv, ClaimsAreComplete
  <2>4. /\ DOMAIN r = DOMAIN table \cup DOMAIN rows
        /\ \A c \in DOMAIN table \ DOMAIN rows : r[c] = table[c]
        /\ HaveCanonical(r) /\ AllPromoted(r)
    BY <1>1, <2>2, <2>3, ClaimsCommitted
  <2> QED
    BY <2>1, <2>4 DEF ClaimsAreComplete
<1>4. pc = "chain" /\ pc' = "reconcile" /\ owed' = owed /\ batch \subseteq owed
  BY DEF RunChain, CorpusInv, BatchIsOwed
<1>5. ASSUME NEW n \in DOMAIN rows PROVE Block(n) \in OpenBlocks
  BY <1>1, <1>4 DEF OpenBlocks
<1>6. ASSUME NEW c \in DOMAIN OnFile', Block(c) \notin OpenBlocks
      PROVE  Judged(OnFile', DOMAIN curated'["member_of"], DOMAIN curated'["canonical_claims"],
                    DOMAIN curated'["conflict_candidates"], c)
  <2>1. c \in DOMAIN OnFile /\ OnFile[c] = OnFile'[c]
    BY <1>3, <1>5, <1>6
  <2>2. InBlock(DOMAIN OnFile, Block(c)) = InBlock(DOMAIN OnFile', Block(c))
    BY <1>3, <1>5, <1>6 DEF InBlock
  <2>3. Judged(OnFile, DOMAIN curated["member_of"], DOMAIN curated["canonical_claims"],
               DOMAIN curated["conflict_candidates"], c)
    BY <1>6, <2>1 DEF JudgingInv, ClosedAreJudged
  <2>4. /\ curated'["member_of"] = curated["member_of"]
        /\ curated'["canonical_claims"] = curated["canonical_claims"]
        /\ curated'["conflict_candidates"] = curated["conflict_candidates"]
    BY <1>2 DEF GroupingTables
  <2> QED
    BY <2>1, <2>2, <2>3, <2>4, JudgedInItsBlock
<1>7. OpenBlocks' = OpenBlocks
  BY <1>4 DEF OpenBlocks
<1>8. ClosedAreJudged'
  BY <1>6, <1>7 DEF ClosedAreJudged
<1>9. DOMAIN NoRows = {}
  BY DEF NoRows
<1>10. /\ Written("member_of")' \subseteq Written("member_of")
       /\ Written("conflict_candidates")' \subseteq Written("conflict_candidates")
  BY <1>2, <1>9 DEF Written, GroupingTables
<1>11. MembersStand' /\ ConflictsStand'
  BY <1>10 DEF JudgingInv, MembersStand, ConflictsStand
<1>12. BatchIsJudged'
  BY <1>4 DEF BatchIsJudged
<1> QED
  BY <1>3, <1>8, <1>11, <1>12 DEF JudgingInv

(* Every claim that is grouped is in a class, and no other.                *)
LEMMA GroupedAreAssigned ==
    ASSUME NEW table, NEW claims, claims \subseteq DOMAIN table,
           NEW classes, classes = CanonicalizeClaims(claims),
           HaveCanonical(table), NEW rows, rows = Assigned(table, classes)
    PROVE  /\ DOMAIN rows = claims
           /\ HaveCanonical(rows)
           /\ \A c \in claims : rows[c].canonical = CHOOSE class \in classes : c \in class
<1>1. UNION classes = claims
  BY ClaimsAreGrouped
<1>2. /\ DOMAIN rows = UNION classes
      /\ \A c \in UNION classes : rows[c] =
            [table[c] EXCEPT !.canonical = CHOOSE class \in classes : c \in class]
  BY DEF Assigned
<1>3. ASSUME NEW c \in claims
      PROVE  "canonical" \in DOMAIN rows[c] /\
             rows[c].canonical = CHOOSE class \in classes : c \in class
  <2>1. PICK row, class : row = table[c] /\ class = CHOOSE k \in classes : c \in k
    OBVIOUS
  <2>2. "canonical" \in DOMAIN row
    BY <2>1 DEF HaveCanonical
  <2>3. rows[c] = [row EXCEPT !.canonical = class]
    BY <1>1, <1>2, <2>1
  <2> QED
    BY <2>1, <2>2, <2>3
<1> QED
  BY <1>1, <1>2, <1>3 DEF HaveCanonical

(* The claims of the blocks a batch touches are whole blocks.              *)
LEMMA TouchedAreBlocks ==
    ASSUME NEW table, NEW c \in Touched(table), NEW d \in DOMAIN table, Block(d) = Block(c)
    PROVE  d \in Touched(table)
  BY DEF Touched

(* Claims on file, as a set of numbers.                                    *)
LEMMA FiledInOrder ==
    ASSUME ClaimsAreExtracted, CorpusInv, NEW S \in SUBSET DOMAIN OnFile
    PROVE  InOrder(S) \in Seq(S) /\ ToSet(InOrder(S)) = S
<1>1. DOMAIN Claim = 1 .. Len(Claim) /\ Len(Claim) \in Nat
  BY DEF ClaimsAreExtracted
<1>2. S \in SUBSET (1 .. Len(Claim))
  BY <1>1, FiledAreClaims
<1> QED
  BY <1>1, <1>2, InOrderHasAll

(* The reconciliation judges the blocks of the batch, and only those.      *)
LEMMA ReconcileJudges ==
    ASSUME ClaimsAreExtracted, CorpusInv, JudgingInv, Reconcile
    PROVE  JudgingInv'
<1>1. PICK claims, classes, rows, found :
        /\ claims = Touched(OnFile) /\ classes = CanonicalizeClaims(claims)
        /\ rows = Assigned(OnFile, classes) /\ found = ConflictRows(InOrder(claims))
  OBVIOUS
<1>2. Promoted(OnFile) \cap Touched(OnFile) = claims
  BY <1>1 DEF JudgingInv, ClaimsAreComplete, AllPromoted, Promoted, Touched
<1>3. /\ pc = "reconcile" /\ pc' = "commit" /\ UNCHANGED <<batch, owed>>
      /\ curated' = [curated EXCEPT !["claim_candidates"] = CommitRows("claim_candidates", @, rows)]
      /\ buffer' = [buffer EXCEPT !["canonical_claims"] = CanonicalRows(classes),
                                  !["member_of"] = MemberRows(classes),
                                  !["conflict_candidates"] = found]
  BY <1>1, <1>2 DEF Reconcile, OnFile
<1>4. /\ OnFile' = CommitRows("claim_candidates", OnFile, rows)
      /\ \A t \in GroupingTables : curated'[t] = curated[t]
      /\ buffer'["canonical_claims"] = CanonicalRows(classes)
      /\ buffer'["member_of"] = MemberRows(classes)
      /\ buffer'["conflict_candidates"] = found
  BY <1>3, TablesAre DEF CorpusInv, CorpusTypeOK, OnFile, GroupingTables
<1>5. claims \subseteq DOMAIN OnFile
  BY <1>1 DEF Touched
<1>6. /\ DOMAIN rows = claims /\ HaveCanonical(rows)
      /\ \A c \in claims : rows[c].canonical = CHOOSE class \in classes : c \in class
  BY <1>1, <1>5, GroupedAreAssigned DEF JudgingInv, ClaimsAreComplete
<1>7. AllPromoted(rows)
  <2>1. HaveStatus(OnFile) /\ claims \subseteq Promoted(OnFile)
    BY <1>2 DEF CorpusInv, OnFile
  <2> QED
    BY <1>1, <2>1, AssignmentKeeps
<1>8. /\ DOMAIN OnFile' = DOMAIN OnFile
      /\ \A c \in claims : OnFile'[c] = rows[c]
      /\ \A c \in DOMAIN OnFile \ claims : OnFile'[c] = OnFile[c]
      /\ ClaimsAreComplete'
  <2>1. PICK table, r : table = OnFile /\ r = OnFile'
    OBVIOUS
  <2>2. r = CommitRows("claim_candidates", table, rows)
    BY <1>4, <2>1
  <2>3. HaveCanonical(table) /\ AllPromoted(table)
    BY <2>1 DEF JudgingInv, ClaimsAreComplete
  <2>4. /\ DOMAIN r = DOMAIN table \cup DOMAIN rows
        /\ \A c \in DOMAIN rows : r[c] = rows[c]
        /\ \A c \in DOMAIN table \ DOMAIN rows : r[c] = table[c]
        /\ HaveCanonical(r) /\ AllPromoted(r)
    BY <1>6, <1>7, <2>2, <2>3, ClaimsCommitted
  <2> QED
    BY <1>5, <1>6, <2>1, <2>4 DEF ClaimsAreComplete
<1>9. \A c \in claims : \A d \in DOMAIN OnFile' : Block(d) = Block(c) => d \in claims
  BY <1>1, <1>8, TouchedAreBlocks
<1>10. ASSUME NEW c \in claims
       PROVE  Judged(OnFile', DOMAIN MemberRows(classes), DOMAIN CanonicalRows(classes),
                     DOMAIN found, c)
  <2>1. InOrder(claims) \in Seq(claims) /\ ToSet(InOrder(claims)) = claims
    BY <1>5, FiledInOrder
  <2>2. claims \in SUBSET DOMAIN OnFile'
    BY <1>5, <1>8
  <2>3. \A k \in claims : OnFile'[k].canonical = CHOOSE class \in classes : k \in class
    BY <1>6, <1>8
  <2>4. PICK table, order : table = OnFile' /\ order = InOrder(claims)
    OBVIOUS
  <2>5. Judged(table, DOMAIN MemberRows(classes), DOMAIN CanonicalRows(classes),
               DOMAIN ConflictRows(order), c)
    BY <1>1, <1>9, <2>1, <2>2, <2>3, <2>4, TogetherAllAreJudged
  <2> QED
    BY <1>1, <2>4, <2>5
<1>11. /\ DOMAIN MemberRows(classes) \subseteq Written("member_of")'
       /\ DOMAIN CanonicalRows(classes) \subseteq Written("canonical_claims")'
       /\ DOMAIN found \subseteq Written("conflict_candidates")'
  BY <1>4 DEF Written
<1>12. Touched(OnFile)' = claims
  BY <1>1, <1>3, <1>8 DEF Touched
<1>13. BatchIsJudged'
  <2>1. ASSUME NEW c \in claims
        PROVE  Judged(OnFile', Written("member_of")', Written("canonical_claims")',
                      Written("conflict_candidates")', c)
    BY <1>10, <1>11, JudgedWithMore
  <2> QED
    BY <1>12, <2>1 DEF BatchIsJudged
<1>14. ASSUME NEW c \in DOMAIN OnFile, Block(c) \notin OpenBlocks PROVE c \notin claims
  <2>1. ASSUME c \in claims PROVE FALSE
    <3>1. PICK n \in DOMAIN OnFile : Claim[n].doc \in batch /\ Block(n) = Block(c)
      BY <1>1, <2>1 DEF Touched
    <3>2. n \in DocClaims[Claim[n].doc] /\ batch \subseteq owed
      BY <1>3, FiledAreClaims DEF CorpusInv, BatchIsOwed
    <3> QED
      BY <1>14, <3>1, <3>2 DEF OpenBlocks
  <2> QED
    BY <2>1
<1>15. ClosedAreJudged'
  <2>1. ASSUME NEW c \in DOMAIN OnFile, Block(c) \notin OpenBlocks
        PROVE  Judged(OnFile', DOMAIN curated'["member_of"], DOMAIN curated'["canonical_claims"],
                      DOMAIN curated'["conflict_candidates"], c)
    <3>1. OnFile'[c] = OnFile[c]
      BY <1>8, <1>14, <2>1
    <3>2. Judged(OnFile, DOMAIN curated["member_of"], DOMAIN curated["canonical_claims"],
                 DOMAIN curated["conflict_candidates"], c)
      BY <2>1 DEF JudgingInv, ClosedAreJudged
    <3>3. /\ curated'["member_of"] = curated["member_of"]
          /\ curated'["canonical_claims"] = curated["canonical_claims"]
          /\ curated'["conflict_candidates"] = curated["conflict_candidates"]
      BY <1>4 DEF GroupingTables
    <3>4. InBlock(DOMAIN OnFile, Block(c)) = InBlock(DOMAIN OnFile', Block(c))
      BY <1>8
    <3> QED
      BY <3>1, <3>2, <3>3, <3>4, JudgedInItsBlock
  <2>2. OpenBlocks' = OpenBlocks
    BY <1>3 DEF OpenBlocks
  <2> QED
    BY <1>8, <2>1, <2>2 DEF ClosedAreJudged
<1>16. MembersStand'
  <2>1. ASSUME NEW row \in DOMAIN MemberRows(classes) PROVE row[1] \in row[2] /\ Connected(row[2])
    BY <1>1, <2>1, MembersAreConnected
  <2>2. Written("member_of")' = DOMAIN curated["member_of"] \cup DOMAIN MemberRows(classes)
    BY <1>4 DEF Written, GroupingTables
  <2>3. \A row \in DOMAIN curated["member_of"] : row[1] \in row[2] /\ Connected(row[2])
    BY DEF JudgingInv, MembersStand, Written
  <2> QED
    BY <2>1, <2>2, <2>3 DEF MembersStand
<1>17. ConflictsStand'
  <2>1. InOrder(claims) \in Seq(claims)
    BY <1>5, FiledInOrder
  <2>2. ASSUME NEW p \in DOMAIN found PROVE Contradict(p[1], p[2])
    <3>1. PICK c, d : p = <<c, d>> /\ Contradict(c, d)
      BY <1>1, <2>1, <2>2, ConflictsAre
    <3> QED
      BY <3>1
  <2>3. Written("conflict_candidates")' = DOMAIN curated["conflict_candidates"] \cup DOMAIN found
    BY <1>4 DEF Written, GroupingTables
  <2>4. \A p \in DOMAIN curated["conflict_candidates"] : Contradict(p[1], p[2])
    BY DEF JudgingInv, ConflictsStand, Written
  <2> QED
    BY <2>2, <2>3, <2>4 DEF ConflictsStand
<1> QED
  BY <1>8, <1>13, <1>15, <1>16, <1>17 DEF JudgingInv

(* A table that is committed moves: nothing is written that was not, and   *)
(* no row is lost.                                                         *)
LEMMA CommitMoves ==
    ASSUME CorpusInv, CommitTable
    PROVE  /\ \A u \in Tables : /\ Written(u)' = Written(u)
                                /\ DOMAIN curated[u] \subseteq DOMAIN curated'[u]
           /\ OnFile' = OnFile
           /\ pc = "commit" /\ UNCHANGED <<normalized, pc, batch, stream, owed>>
<1>1. PICK i \in Unwritten :
        /\ curated' = [curated EXCEPT ![TableOrder[i]] =
                         CommitRows(TableOrder[i], @, buffer[TableOrder[i]])]
        /\ buffer' = [buffer EXCEPT ![TableOrder[i]] = NoRows]
  BY DEF CommitTable
<1>2. PICK t : t = TableOrder[i]
  OBVIOUS
<1>3. t \in Tables /\ buffer[t] # NoRows
  BY <1>1, <1>2 DEF Unwritten, Tables, ToSet
<1>4. t # "claim_candidates"
  BY <1>3 DEF CorpusInv, ClaimsAreRead
<1>5. DOMAIN CommitRows(t, curated[t], buffer[t]) = DOMAIN curated[t] \cup DOMAIN buffer[t]
  BY DEF CommitRows
<1>6. DOMAIN curated = Tables /\ DOMAIN buffer = Tables
  BY DEF CorpusInv, CorpusTypeOK
<1>7. /\ DOMAIN curated'[t] = DOMAIN curated[t] \cup DOMAIN buffer[t]
      /\ buffer'[t] = NoRows
      /\ \A u \in Tables \ {t} : curated'[u] = curated[u] /\ buffer'[u] = buffer[u]
  BY <1>1, <1>2, <1>3, <1>5, <1>6
<1>8. DOMAIN NoRows = {}
  BY DEF NoRows
<1>9. ASSUME NEW u \in Tables
      PROVE  Written(u)' = Written(u) /\ DOMAIN curated[u] \subseteq DOMAIN curated'[u]
  <2>1. CASE u = t
    <3>1. /\ DOMAIN curated'[u] = DOMAIN curated[u] \cup DOMAIN buffer[u]
          /\ DOMAIN buffer'[u] = {}
      BY <1>7, <1>8, <2>1
    <3> QED
      BY <3>1 DEF Written
  <2>2. CASE u # t
    <3>1. curated'[u] = curated[u] /\ buffer'[u] = buffer[u]
      BY <1>7, <2>2
    <3> QED
      BY <3>1 DEF Written
  <2> QED
    BY <2>1, <2>2
<1>10. OnFile' = OnFile
  BY <1>4, <1>7, TablesAre DEF OnFile
<1> QED
  BY <1>9, <1>10 DEF CommitTable, promoter

(* So what was judged still is.                                            *)
LEMMA CommitTableJudges ==
    ASSUME CorpusInv, JudgingInv, CommitTable
    PROVE  JudgingInv'
<1>1. OnFile' = OnFile /\ pc = "commit" /\ UNCHANGED <<pc, batch, owed>>
  BY CommitMoves
<1>2. /\ Written("member_of")' = Written("member_of")
      /\ Written("canonical_claims")' = Written("canonical_claims")
      /\ Written("conflict_candidates")' = Written("conflict_candidates")
  BY CommitMoves, TablesAre
<1>3. \A t \in GroupingTables : DOMAIN curated[t] \subseteq DOMAIN curated'[t]
  BY CommitMoves, TablesAre DEF GroupingTables
<1>4. ClosedAreJudged'
  BY <1>1, <1>3, StillJudged DEF JudgingInv
<1>5. Touched(OnFile)' = Touched(OnFile)
  BY <1>1 DEF Touched
<1>6. BatchIsJudged'
  BY <1>1, <1>2, <1>5 DEF JudgingInv, BatchIsJudged
<1> QED
  BY <1>1, <1>2, <1>4, <1>6 DEF JudgingInv, ClaimsAreComplete, MembersStand, ConflictsStand

(* A batch is confirmed: what it closes it has judged.                     *)
LEMMA ConfirmJudges ==
    ASSUME CorpusInv, JudgingInv, Confirm
    PROVE  JudgingInv'
<1>1. \A t \in Tables : buffer[t] = NoRows
  BY DEF Confirm, Unwritten, Tables, ToSet
<1>2. \A t \in GroupingTables : DOMAIN buffer[t] = {}
  BY <1>1, TablesAre DEF NoRows, GroupingTables
<1>3. /\ Written("member_of") = DOMAIN curated["member_of"]
      /\ Written("canonical_claims") = DOMAIN curated["canonical_claims"]
      /\ Written("conflict_candidates") = DOMAIN curated["conflict_candidates"]
  BY <1>2 DEF Written, GroupingTables
<1>4. pc = "commit" /\ pc' = "idle" /\ owed' = owed \ batch /\ UNCHANGED <<curated, buffer>>
  BY DEF Confirm, Finished
<1>5. OnFile' = OnFile
  BY <1>4 DEF OnFile
<1>6. ASSUME NEW c \in DOMAIN OnFile, Block(c) \notin OpenBlocks'
      PROVE  Judged(OnFile, DOMAIN curated["member_of"], DOMAIN curated["canonical_claims"],
                    DOMAIN curated["conflict_candidates"], c)
  <2>1. CASE Block(c) \notin OpenBlocks
    BY <2>1 DEF JudgingInv, ClosedAreJudged
  <2>2. CASE Block(c) \in OpenBlocks
    <3>1. PICK d \in owed : \E n \in DocClaims[d] : Block(c) = Block(n)
      BY <2>2 DEF OpenBlocks
    <3>2. PICK n \in DocClaims[d] : Block(n) = Block(c)
      BY <3>1
    <3>3. d \in batch
      BY <1>4, <1>6, <3>2 DEF OpenBlocks
    <3>4. n \in DOMAIN OnFile
      BY <1>4, <3>3 DEF CorpusInv, BatchStands, ClaimsStand, Promoted, OnFile
    <3>5. d \in Docs
      BY <3>3 DEF CorpusInv, CorpusTypeOK
    <3>6. Claim[n].doc = d
      BY <3>5 DEF DocClaims
    <3>7. c \in Touched(OnFile)
      BY <3>2, <3>3, <3>4, <3>6 DEF Touched
    <3> QED
      BY <1>3, <1>4, <3>7 DEF JudgingInv, BatchIsJudged
  <2> QED
    BY <2>1, <2>2
<1>7. ClosedAreJudged'
  BY <1>4, <1>5, <1>6 DEF ClosedAreJudged
<1>8. MembersStand' /\ ConflictsStand'
  BY <1>4 DEF JudgingInv, MembersStand, ConflictsStand, Written
<1> QED
  BY <1>4, <1>5, <1>7, <1>8 DEF JudgingInv, ClaimsAreComplete, BatchIsJudged

(* While every document is owed no block is closed.                        *)
LEMMA AllAreOpen ==
    ASSUME CorpusInv', Docs \subseteq owed'
    PROVE  ClosedAreJudged'
<1>1. ASSUME NEW c \in DOMAIN OnFile' PROVE Block(c) \in OpenBlocks'
  <2>1. c \in DOMAIN Claim /\ Claim[c].doc \in Docs
    BY DEF CorpusInv, AssertionsStand, CorpusTypeOK, OnFile
  <2>2. c \in DocClaims[Claim[c].doc] /\ Claim[c].doc \in owed'
    BY <2>1 DEF DocClaims
  <2> QED
    BY <2>2 DEF OpenBlocks
<1> QED
  BY <1>1 DEF ClosedAreJudged

(* A rebuild empties the tables: nothing is on file to be judged.          *)
LEMMA ResetJudges ==
    ASSUME CorpusInv, JudgingInv, ResetCurated
    PROVE  JudgingInv'
<1>1. /\ pc = "reset" /\ pc' = "rebuild" /\ UNCHANGED <<buffer, owed>>
      /\ curated' = [t \in Tables |-> NoRows]
  BY DEF ResetCurated
<1>2. \A t \in Tables : curated'[t] = NoRows
  BY <1>1
<1>3. OnFile' = NoRows
  BY <1>2, TablesAre DEF OnFile
<1>4. DOMAIN NoRows = {}
  BY DEF NoRows
<1>5. /\ Written("member_of")' \subseteq Written("member_of")
      /\ Written("conflict_candidates")' \subseteq Written("conflict_candidates")
  BY <1>1, <1>2, <1>4, TablesAre DEF Written
<1>6. ClosedAreJudged'
  BY <1>3, <1>4 DEF ClosedAreJudged
<1>7. MembersStand' /\ ConflictsStand'
  BY <1>5 DEF JudgingInv, MembersStand, ConflictsStand
<1>8. ClaimsAreComplete'
  BY <1>3, <1>4 DEF ClaimsAreComplete, AllPromoted, HaveCanonical
<1> QED
  BY <1>1, <1>6, <1>7, <1>8 DEF JudgingInv, BatchIsJudged

(* It runs the chain of a document, and groups nothing yet.                *)
LEMMA RebuildDocumentJudges ==
    ASSUME ClaimsAreExtracted, CorpusInv, JudgingInv, NEW d \in Docs, RebuildDocument(d)
    PROVE  JudgingInv'
<1>1. PICK chain : chain = ChainRows(<<d>>)
  OBVIOUS
<1>2. ToSet(<<d>>) = {d}
  BY DEF ToSet
<1>3. AllPromoted(chain["claim_candidates"])
  BY <1>1, <1>2, ChainWrites
<1>4. /\ HaveCanonical(chain["claim_candidates"])
      /\ \A t \in GroupingTables : chain[t] = NoRows
  BY <1>1, ChainLeaves
<1>5. \A t \in Tables : curated'[t] = CommitRows(t, curated[t], chain[t])
  BY <1>1 DEF RebuildDocument, CommitAll
<1>6. pc = "rebuild" /\ UNCHANGED <<buffer, pc, batch, owed>>
  BY DEF RebuildDocument
<1>7. ClaimsAreComplete'
  <2>1. PICK table, rows, r :
          table = OnFile /\ rows = chain["claim_candidates"] /\ r = OnFile'
    OBVIOUS
  <2>2. r = CommitRows("claim_candidates", table, rows)
    BY <1>5, <2>1, TablesAre DEF OnFile
  <2>3. HaveCanonical(table) /\ AllPromoted(table)
    BY <2>1 DEF JudgingInv, ClaimsAreComplete
  <2>4. HaveCanonical(rows) /\ AllPromoted(rows)
    BY <1>3, <1>4, <2>1
  <2>5. HaveCanonical(r) /\ AllPromoted(r)
    BY <2>2, <2>3, <2>4, ClaimsCommitted
  <2> QED
    BY <2>1, <2>5 DEF ClaimsAreComplete
<1>8. DOMAIN NoRows = {}
  BY DEF NoRows
<1>9. ASSUME NEW t \in GroupingTables PROVE Written(t)' = Written(t)
  <2>1. t \in Tables
    BY TablesAre DEF GroupingTables
  <2>2. PICK table, rows : table = curated[t] /\ rows = chain[t]
    OBVIOUS
  <2>3. curated'[t] = CommitRows(t, table, rows)
    BY <1>5, <2>1, <2>2
  <2>4. DOMAIN curated'[t] = DOMAIN table \cup DOMAIN rows
    BY <2>3 DEF CommitRows
  <2>5. DOMAIN rows = {}
    BY <1>4, <1>8, <2>2
  <2> QED
    BY <1>6, <2>2, <2>4, <2>5 DEF Written
<1>10. MembersStand' /\ ConflictsStand'
  BY <1>9 DEF JudgingInv, MembersStand, ConflictsStand, GroupingTables
<1>11. ClosedAreJudged'
  <2>1. CorpusInv'
    BY RebuildDocumentKeeps
  <2>2. Docs \subseteq owed'
    BY <1>6 DEF CorpusInv, RebuildOwesAll
  <2> QED
    BY <2>1, <2>2, AllAreOpen
<1> QED
  BY <1>6, <1>7, <1>10, <1>11 DEF JudgingInv, BatchIsJudged

(* What the end of a rebuild writes: over all claims, in some order.       *)
LEMMA RebuildWrites ==
    ASSUME ClaimsAreExtracted, CorpusInv, RebuildReconcile
    PROVE  /\ \E order \in Seq(DOMAIN Claim) :
                /\ ToSet(order) = DOMAIN OnFile
                /\ \A t \in Tables :
                     curated'[t] = CommitRows(t, curated[t], ReconciledRows(OnFile, order)[t])
           /\ DOMAIN OnFile = UNION {DocClaims[d] : d \in Docs}
           /\ pc' = "idle" /\ UNCHANGED <<normalized, buffer>> /\ owed' = {} /\ batch' = {}
<1> DEFINE upTo == CHOOSE f : RunUpTo(stream, Len(stream), f)
<1>1. stream \in Seq(Docs) /\ Len(stream) \in Nat /\ ToSet(stream) = Docs /\ pc = "rebuild"
  BY DEF CorpusInv, CorpusTypeOK, RebuildReconcile
<1>2. RunUpTo(stream, Len(stream), upTo)
  BY <1>1, RunningEnds
<1>3. PICK order : order = upTo[Len(stream)]
  OBVIOUS
<1>4. CommitAll(ReconciledRows(OnFile, order))
  BY <1>3 DEF RebuildReconcile, RunUpTo, OnFile
<1> HIDE DEF upTo
<1>5. order \in Seq(DOMAIN Claim) /\ ToSet(order) = UNION {DocClaims[d] : d \in Docs}
  BY <1>1, <1>2, <1>3, RunHasAll
<1>6. ASSUME NEW c \in DOMAIN OnFile PROVE c \in UNION {DocClaims[d] : d \in Docs}
  BY FiledAreClaims
<1>7. ASSUME NEW d \in Docs PROVE DocClaims[d] \subseteq DOMAIN OnFile
  BY <1>1 DEF CorpusInv, StreamStands, ClaimsStand, Promoted, OnFile
<1>8. DOMAIN OnFile = UNION {DocClaims[d] : d \in Docs}
  BY <1>6, <1>7
<1>9. \A t \in Tables : curated'[t] = CommitRows(t, curated[t], ReconciledRows(OnFile, order)[t])
  BY <1>4 DEF CommitAll
<1> QED
  BY <1>5, <1>8, <1>9 DEF RebuildReconcile, Finished

(* The rows of the tables that hold the judgement.                         *)
LEMMA ReconciledAre ==
    ASSUME NEW claims, NEW order, NEW classes, classes = CanonicalizeClaims(Promoted(claims)),
           NEW rows, rows = ReconciledRows(claims, order)
    PROVE  /\ rows["dup_signatures"] = SignatureRows(Docs)
           /\ rows["dup_clusters"] = ClusterRows(CascadeCluster(Docs))
           /\ rows["canonical_claims"] = CanonicalRows(classes)
           /\ rows["member_of"] = MemberRows(classes)
           /\ rows["conflict_candidates"] = ConflictRows(order)
           /\ rows["claim_candidates"] = Assigned(claims, classes)
<1>1. rows = [t \in Tables |->
            CASE t = "dup_signatures" -> SignatureRows(Docs)
              [] t = "dup_bands" -> BandRows(Docs)
              [] t = "dup_clusters" -> ClusterRows(CascadeCluster(Docs))
              [] t = "canonical_claims" -> CanonicalRows(classes)
              [] t = "member_of" -> MemberRows(classes)
              [] t = "conflict_candidates" -> ConflictRows(order)
              [] t = "claim_candidates" -> Assigned(claims, classes)
              [] OTHER -> NoRows]
  BY Zenon DEF ReconciledRows
<1>2. {"dup_signatures", "dup_clusters", "canonical_claims", "member_of",
       "conflict_candidates", "claim_candidates"} \subseteq Tables
  BY TablesAre
<1> QED
  BY <1>1, <1>2, Zenon

(* The end of a rebuild judges all claims at once.                         *)
LEMMA RebuildReconcileJudges ==
    ASSUME ClaimsAreExtracted, CorpusInv, JudgingInv, RebuildReconcile
    PROVE  JudgingInv'
<1>1. PICK order \in Seq(DOMAIN Claim) :
        /\ ToSet(order) = DOMAIN OnFile
        /\ \A t \in Tables :
             curated'[t] = CommitRows(t, curated[t], ReconciledRows(OnFile, order)[t])
  BY RebuildWrites
<1>2. pc' = "idle" /\ buffer' = buffer
  BY RebuildWrites
<1>3. PICK table, claims, classes, final, rows :
        /\ table = OnFile /\ claims = DOMAIN OnFile
        /\ classes = CanonicalizeClaims(claims)
        /\ final = ReconciledRows(OnFile, order)
        /\ rows = Assigned(table, classes)
  OBVIOUS
<1>4. Promoted(OnFile) = claims
  BY <1>3 DEF JudgingInv, ClaimsAreComplete, AllPromoted, Promoted
<1>5. /\ final["canonical_claims"] = CanonicalRows(classes)
      /\ final["member_of"] = MemberRows(classes)
      /\ final["conflict_candidates"] = ConflictRows(order)
      /\ final["claim_candidates"] = rows
  BY <1>3, <1>4, ReconciledAre
<1>6. /\ curated'["canonical_claims"] =
           CommitRows("canonical_claims", curated["canonical_claims"], CanonicalRows(classes))
      /\ curated'["member_of"] = CommitRows("member_of", curated["member_of"], MemberRows(classes))
      /\ curated'["conflict_candidates"] =
           CommitRows("conflict_candidates", curated["conflict_candidates"], ConflictRows(order))
      /\ curated'["claim_candidates"] =
           CommitRows("claim_candidates", curated["claim_candidates"], rows)
  <2>1. \A t \in Tables : curated'[t] = CommitRows(t, curated[t], final[t])
    BY <1>1, <1>3
  <2> QED
    BY <1>5, <2>1, TablesAre
<1>7. /\ DOMAIN curated'["canonical_claims"] =
           DOMAIN curated["canonical_claims"] \cup DOMAIN CanonicalRows(classes)
      /\ DOMAIN curated'["member_of"] = DOMAIN curated["member_of"] \cup DOMAIN MemberRows(classes)
      /\ DOMAIN curated'["conflict_candidates"] =
           DOMAIN curated["conflict_candidates"] \cup DOMAIN ConflictRows(order)
  <2>1. DOMAIN curated'["canonical_claims"] =
          DOMAIN curated["canonical_claims"] \cup DOMAIN CanonicalRows(classes)
    BY <1>6 DEF CommitRows
  <2>2. DOMAIN curated'["member_of"] = DOMAIN curated["member_of"] \cup DOMAIN MemberRows(classes)
    BY <1>6 DEF CommitRows
  <2>3. DOMAIN curated'["conflict_candidates"] =
          DOMAIN curated["conflict_candidates"] \cup DOMAIN ConflictRows(order)
    BY <1>6 DEF CommitRows
  <2> QED
    BY <2>1, <2>2, <2>3
<1>8. HaveCanonical(table) /\ AllPromoted(table) /\ HaveStatus(table)
  BY <1>3 DEF JudgingInv, ClaimsAreComplete, CorpusInv, OnFile
<1>9. /\ DOMAIN rows = claims /\ HaveCanonical(rows)
      /\ \A c \in claims : rows[c].canonical = CHOOSE class \in classes : c \in class
  BY <1>3, <1>8, GroupedAreAssigned
<1>10. AllPromoted(rows)
  BY <1>3, <1>4, <1>8, AssignmentKeeps
<1>11. PICK r : r = OnFile'
  OBVIOUS
<1>12. r = CommitRows("claim_candidates", table, rows)
  BY <1>3, <1>6, <1>11 DEF OnFile
<1>13. /\ DOMAIN r = claims
       /\ \A c \in claims : r[c] = rows[c]
       /\ HaveCanonical(r) /\ AllPromoted(r)
  <2>1. HaveCanonical(table) /\ AllPromoted(table)
    BY <1>8
  <2>2. HaveCanonical(rows) /\ AllPromoted(rows)
    BY <1>9, <1>10
  <2>3. HaveCanonical(r) /\ AllPromoted(r)
    BY <1>12, <2>1, <2>2, ClaimsCommitted
  <2>4. DOMAIN r = DOMAIN table \cup DOMAIN rows /\ \A c \in DOMAIN rows : r[c] = rows[c]
    BY <1>12 DEF CommitRows, Replaced
  <2> QED
    BY <1>3, <1>9, <2>3, <2>4
<1>14. ASSUME NEW c \in claims
       PROVE  Judged(r, DOMAIN curated'["member_of"], DOMAIN curated'["canonical_claims"],
                     DOMAIN curated'["conflict_candidates"], c)
  <2>1. order \in Seq(claims) /\ ToSet(order) = claims
    <3>1. DOMAIN order = 1 .. Len(order) /\ Len(order) \in Nat
      OBVIOUS
    <3>2. ToSet(order) = claims
      BY <1>1, <1>3
    <3>3. \A i \in 1 .. Len(order) : order[i] \in claims
      BY <3>1, <3>2 DEF ToSet
    <3> QED
      BY <3>1, <3>2, <3>3
  <2>2. claims \in SUBSET DOMAIN r
    BY <1>13
  <2>3. \A k \in claims : r[k].canonical = CHOOSE class \in classes : k \in class
    BY <1>9, <1>13
  <2>4. \A k \in claims : \A d \in DOMAIN r : Block(d) = Block(k) => d \in claims
    BY <1>13
  <2>5. Judged(r, DOMAIN MemberRows(classes), DOMAIN CanonicalRows(classes),
               DOMAIN ConflictRows(order), c)
    BY <1>3, <2>1, <2>2, <2>3, <2>4, TogetherAllAreJudged
  <2>6. /\ DOMAIN MemberRows(classes) \subseteq DOMAIN curated'["member_of"]
        /\ DOMAIN CanonicalRows(classes) \subseteq DOMAIN curated'["canonical_claims"]
        /\ DOMAIN ConflictRows(order) \subseteq DOMAIN curated'["conflict_candidates"]
    BY <1>7
  <2> QED
    BY <2>5, <2>6, JudgedWithMore
<1>15. ClosedAreJudged'
  BY <1>11, <1>13, <1>14 DEF ClosedAreJudged
<1>16. ASSUME NEW row \in Written("member_of")' PROVE row[1] \in row[2] /\ Connected(row[2])
  <2>1. row \in Written("member_of") \/ row \in DOMAIN MemberRows(classes)
    BY <1>2, <1>7 DEF Written
  <2>2. CASE row \in Written("member_of")
    BY <2>2 DEF JudgingInv, MembersStand
  <2>3. CASE row \in DOMAIN MemberRows(classes)
    BY <1>3, <2>3, MembersAreConnected
  <2> QED
    BY <2>1, <2>2, <2>3
<1>17. ASSUME NEW p \in Written("conflict_candidates")' PROVE Contradict(p[1], p[2])
  <2>1. p \in Written("conflict_candidates") \/ p \in DOMAIN ConflictRows(order)
    BY <1>2, <1>7 DEF Written
  <2>2. CASE p \in Written("conflict_candidates")
    BY <2>2 DEF JudgingInv, ConflictsStand
  <2>3. CASE p \in DOMAIN ConflictRows(order)
    <3>1. PICK c, d : p = <<c, d>> /\ Contradict(c, d)
      BY <2>3, ConflictsAre
    <3> QED
      BY <3>1
  <2> QED
    BY <2>1, <2>2, <2>3
<1>18. ClaimsAreComplete' /\ MembersStand' /\ ConflictsStand'
  BY <1>11, <1>13, <1>16, <1>17 DEF ClaimsAreComplete, MembersStand, ConflictsStand
<1> QED
  BY <1>2, <1>15, <1>18 DEF JudgingInv, BatchIsJudged

(* At the beginning there is nothing to judge.                             *)
LEMMA InitJudges == Init => JudgingInv
<1> SUFFICES ASSUME Init PROVE JudgingInv
  OBVIOUS
<1>1. \A t \in Tables : curated[t] = NoRows /\ buffer[t] = NoRows
  BY DEF Init, CorpusInit
<1>2. DOMAIN NoRows = {}
  BY DEF NoRows
<1>3. OnFile = NoRows /\ Written("member_of") = {} /\ Written("conflict_candidates") = {}
  BY <1>1, <1>2, TablesAre DEF OnFile, Written
<1>4. pc = "idle"
  BY DEF Init, CorpusInit
<1> QED
  BY <1>2, <1>3, <1>4 DEF JudgingInv, ClaimsAreComplete, AllPromoted, HaveCanonical,
     ClosedAreJudged, BatchIsJudged, MembersStand, ConflictsStand

(* Every step judges what it closes.                                       *)
LEMMA NextJudges ==
    ASSUME ClaimsAreExtracted, CorpusInv, JudgingInv, [Next]_vars
    PROVE  JudgingInv'
<1>1. CASE UNCHANGED <<normalized, curated, buffer, pc, batch, stream, owed>>
  <2>1. /\ OnFile' = OnFile /\ OpenBlocks' = OpenBlocks
        /\ Touched(OnFile)' = Touched(OnFile)
        /\ Written("member_of")' = Written("member_of")
        /\ Written("canonical_claims")' = Written("canonical_claims")
        /\ Written("conflict_candidates")' = Written("conflict_candidates")
    BY <1>1 DEF OnFile, OpenBlocks, Touched, Written
  <2> QED
    BY <1>1, <2>1 DEF JudgingInv, ClaimsAreComplete, ClosedAreJudged, BatchIsJudged,
       MembersStand, ConflictsStand
<1>2. ASSUME NEW docs \in SUBSET Docs, Deliver(docs) PROVE JudgingInv'
  <2>1. curated' = curated /\ buffer' = buffer /\ owed \subseteq owed' /\ pc' # "commit"
    BY <1>2 DEF Deliver, Begin
  <2> QED
    BY <2>1, QuietStepsJudge
<1>3. CASE Normalize
  <2>1. curated' = curated /\ buffer' = buffer /\ owed \subseteq owed' /\ pc' # "commit"
    BY <1>3 DEF Normalize
  <2> QED
    BY <2>1, QuietStepsJudge
<1>4. CASE BreakOff
  <2>1. curated' = curated /\ owed \subseteq owed' /\ pc' # "commit"
    BY <1>4 DEF BreakOff, Finished
  <2>2. \A t \in GroupingTables : buffer'[t] = NoRows
    BY <1>4, TablesAre DEF BreakOff, GroupingTables
  <2>3. \A t \in GroupingTables : DOMAIN buffer'[t] \subseteq DOMAIN buffer[t]
    BY <2>2 DEF NoRows
  <2> QED
    BY <2>1, <2>3, QuietStepsJudge
<1>5. CASE RebuildNormalized
  <2>1. curated' = curated /\ buffer' = buffer /\ owed \subseteq owed' /\ pc' # "commit"
    BY <1>5 DEF RebuildNormalized, Begin
  <2> QED
    BY <2>1, QuietStepsJudge
<1>6. CASE Promote
  BY <1>2, <1>3, <1>4, <1>6, RunChainJudges, ReconcileJudges, CommitTableJudges, ConfirmJudges
     DEF Promote
<1>7. CASE Rebuild
  BY <1>5, <1>7, ResetJudges, RebuildDocumentJudges, RebuildReconcileJudges DEF Rebuild
<1>8. CASE Evaluate
  BY <1>1, <1>8 DEF Evaluate, RunBreaksOff, corpus, promoter
<1> QED
  BY <1>1, <1>6, <1>7, <1>8 DEF Next, vars, corpus, promoter

-------------------------------------------------------------------------------
(* Copies share a cluster.                                                 *)

(* A set of documents with two of them is a group of copies.               *)
LEMMA TwoAreAGroup ==
    ASSUME NEW S \in SUBSET Docs, NEW d \in S, NEW e \in S, d # e
    PROVE  Cardinality(S) > 1
<1>1. IsFiniteSet(S)
  BY CorpusAssumption, FS_Subset
<1>2. IsFiniteSet(S \ {d}) /\ Cardinality(S \ {d}) = Cardinality(S) - 1
  BY <1>1, FS_RemoveElement
<1>3. Cardinality(S) \in Nat /\ Cardinality(S \ {d}) \in Nat
  BY <1>1, <1>2, FS_CardinalityType
<1>4. Cardinality(S \ {d}) # 0
  <2>1. S \ {d} # {}
    OBVIOUS
  <2> QED
    BY <1>2, <2>1, FS_EmptySet
<1> QED
  BY <1>2, <1>3, <1>4

(* The groups of a batch have each of its documents with what it repeats,  *)
(* in the batch or confirmed before it.                                    *)
LEMMA BatchFindsCopies ==
    ASSUME CorpusInv, SignaturesAreOfDocs, pc = "chain", NEW d \in batch,
           NEW e \in Confirmed \cup batch, d # e, Similar(d, e)
    PROVE  \E group \in CopyGroups : {d, e} \subseteq group
<1>1. batch \subseteq Docs /\ Confirmed \subseteq Docs
  BY DEF CorpusInv, CorpusTypeOK, Confirmed
<1>2. DOMAIN curated["dup_signatures"] \subseteq Docs
  BY DEF SignaturesAreOfDocs, Written
<1>3. ASSUME NEW x \in batch PROVE {x} \cup EarlierCopies(x) \in SUBSET Docs
  BY <1>1, <1>2 DEF EarlierCopies, WithTextHash, WithBand
<1>4. ASSUME NEW x \in batch, NEW y \in EarlierCopies(x), x # y
      PROVE  \E group \in CopyGroups : {x, y} \subseteq group
  <2>1. PICK group : group = {x} \cup EarlierCopies(x)
    OBVIOUS
  <2>2. group \in SUBSET Docs /\ x \in group /\ y \in group
    BY <1>3, <2>1
  <2>3. Cardinality(group) > 1
    BY <1>4, <2>2, TwoAreAGroup
  <2> QED
    BY <2>1, <2>2, <2>3 DEF CopyGroups
<1>5. CASE e \in Confirmed
  <2>1. Whole(curated, e)
    BY <1>5 DEF CorpusInv, ConfirmedStands
  <2>2. e \in DOMAIN curated["dup_signatures"] /\ (Document[e].long => e \in DOMAIN curated["dup_bands"])
    BY <2>1, RowsOfTables DEF Whole, RowsStand
  <2>3. CASE SameText(d, e)
    <3>1. e \in EarlierCopies(d)
      BY <2>2, <2>3 DEF EarlierCopies, WithTextHash
    <3> QED
      BY <1>4, <3>1
  <2>4. CASE <<d, e>> \in Near
    <3>1. <<e, d>> \in Near
      <4>1. <<<<d, e>>[2], <<d, e>>[1]>> \in Near
        BY <2>4, RulesAssumption
      <4> QED
        BY <4>1
    <3>2. Document[<<e, d>>[1]].long
      BY <3>1, RulesAssumption
    <3>3. e \in EarlierCopies(d)
      BY <2>2, <2>4, <3>2 DEF EarlierCopies, WithBand
    <3> QED
      BY <1>4, <3>3
  <2> QED
    BY <2>3, <2>4 DEF Similar
<1>6. CASE e \in batch
  <2>1. d \in Nat /\ e \in Nat
    BY <1>1, <1>6, RulesAssumption
  <2>2. CASE e < d
    <3>1. e \in EarlierCopies(d)
      BY <1>6, <2>2 DEF EarlierCopies
    <3> QED
      BY <1>4, <3>1
  <2>3. CASE d < e
    <3>1. d \in EarlierCopies(e)
      BY <2>3, SimilarIsSymmetric DEF EarlierCopies
    <3>2. \E group \in CopyGroups : {e, d} \subseteq group
      BY <1>4, <1>6, <3>1
    <3> QED
      BY <3>2
  <2> QED
    BY <2>1, <2>2, <2>3
<1> QED
  BY <1>5, <1>6

(* At the beginning there are no copies.                                   *)
LEMMA InitCopies == Init => CopiesInv
<1> SUFFICES ASSUME Init PROVE CopiesInv
  OBVIOUS
<1>1. curated["dup_signatures"] = NoRows /\ buffer["dup_signatures"] = NoRows
  BY TablesAre DEF Init, CorpusInit
<1>2. Confirmed = {} /\ pc = "idle"
  BY DEF Init, CorpusInit, Confirmed
<1> QED
  BY <1>1, <1>2 DEF CopiesInv, SignaturesAreOfDocs, BatchShares, CopiesShareACluster, Written, NoRows

(* Steps between batches, and before their chain.                          *)
LEMMA QuietStepsShare ==
    ASSUME CopiesInv, curated' = curated,
           buffer' = buffer \/ buffer' = [t \in Tables |-> NoRows],
           Confirmed' \subseteq Confirmed, pc' \notin {"reconcile", "commit"}
    PROVE  CopiesInv'
<1>1. DOMAIN buffer'["dup_signatures"] \subseteq DOMAIN buffer["dup_signatures"]
  <2>1. CASE buffer' = [t \in Tables |-> NoRows]
    <3>1. buffer'["dup_signatures"] = NoRows
      BY <2>1, TablesAre
    <3> QED
      BY <3>1 DEF NoRows
  <2> QED
    BY <2>1
<1>2. SignaturesAreOfDocs'
  BY <1>1 DEF CopiesInv, SignaturesAreOfDocs, Written
<1> QED
  BY <1>2 DEF CopiesInv, BatchShares, CopiesShareACluster

(* The chain of a batch writes the groups of its documents.                *)
LEMMA RunChainShares ==
    ASSUME ClaimsAreExtracted, CorpusInv, CopiesInv, RunChain
    PROVE  CopiesInv'
<1>1. /\ curated'["dup_signatures"] = curated["dup_signatures"]
      /\ curated'["dup_clusters"] = curated["dup_clusters"]
      /\ buffer'["dup_signatures"] = SignatureRows(batch)
      /\ buffer'["dup_clusters"] = ClusterRows(CopyGroups)
  BY RunChainWrites, TablesAre
<1>2. pc = "chain" /\ batch' = batch /\ Confirmed' = Confirmed
  BY DEF RunChain, Confirmed
<1>3. DOMAIN SignatureRows(batch) = batch /\ DOMAIN ClusterRows(CopyGroups) = CopyGroups
  BY DEF SignatureRows, ClusterRows
<1>4. SignaturesAreOfDocs'
  BY <1>1, <1>3 DEF CopiesInv, SignaturesAreOfDocs, Written, CorpusInv, CorpusTypeOK
<1>5. CopyGroups \subseteq Written("dup_clusters")'
  BY <1>1, <1>3 DEF Written
<1>6. ASSUME NEW d \in batch, NEW e \in Confirmed \cup batch, d # e, Similar(d, e)
      PROVE  Share(Written("dup_clusters")', d, e)
  <2>1. PICK group \in CopyGroups : {d, e} \subseteq group
    BY <1>2, <1>6, BatchFindsCopies DEF CopiesInv
  <2> QED
    BY <1>5, <2>1 DEF Share
<1>7. BatchShares'
  BY <1>2, <1>6 DEF BatchShares
<1>8. CopiesShareACluster'
  BY <1>1, <1>2 DEF CopiesInv, CopiesShareACluster
<1> QED
  BY <1>4, <1>7, <1>8 DEF CopiesInv

(* The reconciliation writes other tables.                                 *)
LEMMA ReconcileShares ==
    ASSUME CorpusInv, CopiesInv, Reconcile
    PROVE  CopiesInv'
<1>1. PICK classes, rows, found :
        /\ curated' = [curated EXCEPT !["claim_candidates"] = rows]
        /\ buffer' = [buffer EXCEPT !["canonical_claims"] = CanonicalRows(classes),
                                    !["member_of"] = MemberRows(classes),
                                    !["conflict_candidates"] = found]
  BY DEF Reconcile
<1>2. /\ curated'["dup_signatures"] = curated["dup_signatures"]
      /\ curated'["dup_clusters"] = curated["dup_clusters"]
      /\ buffer'["dup_signatures"] = buffer["dup_signatures"]
      /\ buffer'["dup_clusters"] = buffer["dup_clusters"]
  BY <1>1, TablesAre DEF CorpusInv, CorpusTypeOK
<1>3. pc = "reconcile" /\ batch' = batch /\ Confirmed' = Confirmed
  BY DEF Reconcile, Confirmed
<1>4. /\ Written("dup_signatures")' = Written("dup_signatures")
      /\ Written("dup_clusters")' = Written("dup_clusters")
  BY <1>2 DEF Written
<1>5. SignaturesAreOfDocs' /\ BatchShares'
  BY <1>3, <1>4 DEF CopiesInv, SignaturesAreOfDocs, BatchShares
<1>6. CopiesShareACluster'
  BY <1>2, <1>3 DEF CopiesInv, CopiesShareACluster
<1> QED
  BY <1>5, <1>6 DEF CopiesInv

(* A table that is committed moves.                                        *)
LEMMA CommitTableShares ==
    ASSUME CorpusInv, CopiesInv, CommitTable
    PROVE  CopiesInv'
<1>1. /\ Written("dup_signatures")' = Written("dup_signatures")
      /\ Written("dup_clusters")' = Written("dup_clusters")
      /\ DOMAIN curated["dup_clusters"] \subseteq DOMAIN curated'["dup_clusters"]
  BY CommitMoves, TablesAre
<1>2. pc' = pc /\ batch' = batch /\ Confirmed' = Confirmed
  BY CommitMoves DEF Confirmed
<1>3. SignaturesAreOfDocs' /\ BatchShares'
  BY <1>1, <1>2 DEF CopiesInv, SignaturesAreOfDocs, BatchShares
<1>4. CopiesShareACluster'
  <2>1. ASSUME NEW d \in Confirmed, NEW e \in Confirmed, d # e, Similar(d, e)
        PROVE  \E cluster \in DOMAIN curated'["dup_clusters"] : {d, e} \subseteq cluster
    BY <1>1, <2>1 DEF CopiesInv, CopiesShareACluster
  <2> QED
    BY <1>2, <2>1 DEF CopiesShareACluster
<1> QED
  BY <1>3, <1>4 DEF CopiesInv

(* A batch is confirmed with its groups on file.                           *)
LEMMA ConfirmShares ==
    ASSUME CorpusInv, CopiesInv, Confirm
    PROVE  CopiesInv'
<1>1. buffer["dup_clusters"] = NoRows
  BY TablesAre DEF Confirm, Unwritten, Tables, ToSet
<1>2. Written("dup_clusters") = DOMAIN curated["dup_clusters"]
  BY <1>1 DEF Written, NoRows
<1>3. /\ pc = "commit" /\ pc' = "idle" /\ UNCHANGED <<curated, buffer>>
      /\ Confirmed' \subseteq Confirmed \cup batch
  BY DEF Confirm, Confirmed, Finished
<1>4. ASSUME NEW d \in Confirmed \cup batch, NEW e \in Confirmed \cup batch, d # e, Similar(d, e)
      PROVE  Share(DOMAIN curated["dup_clusters"], d, e)
  <2>1. CASE d \in batch
    BY <1>2, <1>3, <1>4, <2>1 DEF CopiesInv, BatchShares
  <2>2. CASE e \in batch
    <3>1. Similar(e, d)
      BY <1>4, SimilarIsSymmetric
    <3>2. Share(DOMAIN curated["dup_clusters"], e, d)
      BY <1>2, <1>3, <1>4, <2>2, <3>1 DEF CopiesInv, BatchShares
    <3> QED
      BY <3>2 DEF Share
  <2>3. CASE d \in Confirmed /\ e \in Confirmed
    BY <1>4, <2>3 DEF CopiesInv, CopiesShareACluster, Share
  <2> QED
    BY <2>1, <2>2, <2>3
<1>5. CopiesShareACluster'
  BY <1>3, <1>4 DEF CopiesShareACluster, Share
<1> QED
  BY <1>3, <1>5 DEF CopiesInv, SignaturesAreOfDocs, BatchShares, Written

(* A rebuild clusters the whole corpus, and owes every document till then. *)
LEMMA RebuildShares ==
    ASSUME ClaimsAreExtracted, CorpusInv, CopiesInv, Rebuild
    PROVE  CopiesInv'
<1>1. CASE RebuildNormalized
  <2>1. Confirmed' = {} /\ curated' = curated /\ buffer' = buffer /\ pc' = "reset"
    BY <1>1 DEF RebuildNormalized, Begin, Confirmed
  <2> QED
    BY <2>1, QuietStepsShare
<1>2. CASE ResetCurated
  <2>1. curated'["dup_signatures"] = NoRows /\ buffer' = buffer /\ pc' = "rebuild"
    BY <1>2, TablesAre DEF ResetCurated
  <2>2. Confirmed' = {}
    BY <1>2 DEF ResetCurated, CorpusInv, CorpusTypeOK, RebuildOwesAll, Confirmed
  <2>3. SignaturesAreOfDocs'
    BY <2>1 DEF CopiesInv, SignaturesAreOfDocs, Written, NoRows
  <2> QED
    BY <2>1, <2>2, <2>3 DEF CopiesInv, BatchShares, CopiesShareACluster
<1>3. ASSUME NEW d \in Docs, RebuildDocument(d) PROVE CopiesInv'
  <2>1. pc = "rebuild" /\ pc' = pc /\ buffer' = buffer /\ owed' = owed /\ normalized' = normalized
    BY <1>3 DEF RebuildDocument
  <2>2. Confirmed' = {}
    BY <2>1 DEF CorpusInv, CorpusTypeOK, RebuildOwesAll, Confirmed
  <2>3. PICK chain : chain = ChainRows(<<d>>)
    OBVIOUS
  <2>4. chain["dup_signatures"] = NoRows
    BY <2>3, ChainLeaves
  <2>5. curated'["dup_signatures"] =
          CommitRows("dup_signatures", curated["dup_signatures"], chain["dup_signatures"])
    BY <1>3, <2>3, TablesAre DEF RebuildDocument, CommitAll
  <2>6. DOMAIN curated'["dup_signatures"] = DOMAIN curated["dup_signatures"]
    BY <2>4, <2>5 DEF CommitRows, NoRows
  <2>7. SignaturesAreOfDocs'
    BY <2>1, <2>6 DEF CopiesInv, SignaturesAreOfDocs, Written
  <2> QED
    BY <2>1, <2>2, <2>7 DEF CopiesInv, BatchShares, CopiesShareACluster
<1>4. CASE RebuildReconcile
  <2>1. PICK order :
          \A t \in Tables :
             curated'[t] = CommitRows(t, curated[t], ReconciledRows(OnFile, order)[t])
    BY <1>4, RebuildWrites
  <2>2. pc' = "idle" /\ buffer' = buffer /\ Confirmed' \subseteq Docs
    BY <1>4, RebuildWrites DEF CorpusInv, CorpusTypeOK, Confirmed
  <2>3. PICK final : final = ReconciledRows(OnFile, order)
    OBVIOUS
  <2>4. /\ final["dup_signatures"] = SignatureRows(Docs)
        /\ final["dup_clusters"] = ClusterRows(CascadeCluster(Docs))
    BY <2>3, ReconciledAre
  <2>5. /\ curated'["dup_signatures"] =
             CommitRows("dup_signatures", curated["dup_signatures"], SignatureRows(Docs))
        /\ curated'["dup_clusters"] =
             CommitRows("dup_clusters", curated["dup_clusters"], ClusterRows(CascadeCluster(Docs)))
    <3>1. \A t \in Tables : curated'[t] = CommitRows(t, curated[t], final[t])
      BY <2>1, <2>3
    <3> QED
      BY <2>4, <3>1, TablesAre
  <2>6. /\ DOMAIN SignatureRows(Docs) = Docs
        /\ DOMAIN ClusterRows(CascadeCluster(Docs)) = CascadeCluster(Docs)
    BY DEF SignatureRows, ClusterRows
  <2>7. DOMAIN curated'["dup_signatures"] =
          DOMAIN curated["dup_signatures"] \cup DOMAIN SignatureRows(Docs)
    BY <2>5 DEF CommitRows
  <2>8. DOMAIN curated'["dup_clusters"] =
          DOMAIN curated["dup_clusters"] \cup DOMAIN ClusterRows(CascadeCluster(Docs))
    BY <2>5 DEF CommitRows
  <2>9. SignaturesAreOfDocs'
    BY <2>2, <2>6, <2>7 DEF CopiesInv, SignaturesAreOfDocs, Written
  <2>10. CopiesShareACluster'
    BY <2>2, <2>6, <2>8, CopiesAreClustered DEF CopiesShareACluster, Share
  <2> QED
    BY <2>2, <2>9, <2>10 DEF CopiesInv, BatchShares
<1> QED
  BY <1>1, <1>2, <1>3, <1>4 DEF Rebuild

(* Every step leaves copies in one cluster.                                *)
LEMMA NextShares ==
    ASSUME ClaimsAreExtracted, CorpusInv, CopiesInv, [Next]_vars
    PROVE  CopiesInv'
<1>1. CASE UNCHANGED <<normalized, curated, buffer, pc, batch, owed>>
  BY <1>1, ZenonT(60) DEF CopiesInv, SignaturesAreOfDocs, BatchShares, CopiesShareACluster, Written, Confirmed
<1>2. ASSUME NEW docs \in SUBSET Docs, Deliver(docs) PROVE CopiesInv'
  <2>1. curated' = curated /\ buffer' = buffer /\ pc' = "normalize" /\ Confirmed' \subseteq Confirmed
    BY <1>2 DEF Deliver, Begin, Confirmed
  <2> QED
    BY <2>1, QuietStepsShare
<1>3. CASE Normalize
  <2>1. curated' = curated /\ buffer' = buffer /\ pc' = "chain" /\ Confirmed' \subseteq Confirmed
    BY <1>3 DEF Normalize, CorpusInv, BatchIsOwed, Confirmed
  <2> QED
    BY <2>1, QuietStepsShare
<1>4. CASE BreakOff
  <2>1. /\ curated' = curated /\ buffer' = [t \in Tables |-> NoRows]
        /\ pc' = "idle" /\ Confirmed' \subseteq Confirmed
    BY <1>4 DEF BreakOff, Finished, Confirmed
  <2> QED
    BY <2>1, QuietStepsShare
<1>5. CASE Promote
  BY <1>2, <1>3, <1>4, <1>5, RunChainShares, ReconcileShares, CommitTableShares, ConfirmShares
     DEF Promote
<1>6. CASE Rebuild
  BY <1>6, RebuildShares
<1>7. CASE Evaluate
  BY <1>1, <1>7 DEF Evaluate, RunBreaksOff, corpus, promoter
<1> QED
  BY <1>1, <1>5, <1>6, <1>7 DEF Next, vars, corpus, promoter

(* And together they imply the property the run checks.                    *)
LEMMA JudgingSuffices ==
    ASSUME ClaimsAreExtracted, CorpusInv, JudgingInv, CopiesInv
    PROVE  BatchesReconcileAsOne
<1>1. PICK closed, classes :
        /\ closed = {c \in DOMAIN OnFile : Block(c) \notin OpenBlocks}
        /\ classes = CanonicalizeClaims(closed)
  OBVIOUS
<1>2. closed \cap Promoted(OnFile) = closed
  BY <1>1 DEF JudgingInv, ClaimsAreComplete, AllPromoted, Promoted
<1>3. ASSUME NEW c \in closed
      PROVE  Judged(OnFile, DOMAIN curated["member_of"], DOMAIN curated["canonical_claims"],
                    DOMAIN curated["conflict_candidates"], c)
  BY <1>1 DEF JudgingInv, ClosedAreJudged
<1>4. ASSUME NEW c \in closed
      PROVE  /\ c \in OnFile[c].canonical /\ OnFile[c].canonical \in classes
             /\ <<c, OnFile[c].canonical>> \in DOMAIN curated["member_of"]
             /\ OnFile[c].canonical \in DOMAIN curated["canonical_claims"]
  <2>1. InBlock(closed, Block(c)) = InBlock(DOMAIN OnFile, Block(c))
    BY <1>1 DEF InBlock
  <2>2. ClassesOf(InBlock(closed, Block(c))) \subseteq classes
    BY <1>1, ClaimsAreGrouped
  <2> QED
    BY <1>3, <2>1, <2>2 DEF Judged
<1>5. \A row \in DOMAIN curated["member_of"] : row[1] \in row[2] /\ Connected(row[2])
  BY DEF JudgingInv, MembersStand, Written
<1>6. PICK order, found, pairs :
        /\ order = InOrder(closed)
        /\ found = DOMAIN ConflictRows(order)
        /\ pairs = {p \in DOMAIN curated["conflict_candidates"] : {p[1], p[2]} \subseteq closed}
  OBVIOUS
<1>7. order \in Seq(closed) /\ ToSet(order) = closed
  BY <1>1, <1>6, FiledInOrder
<1>8. /\ \A p \in found : \E c, d \in closed : p = <<c, d>> /\ Contradict(c, d)
      /\ \A c, d \in closed : Contradict(c, d) => <<c, d>> \in found \/ <<d, c>> \in found
  BY <1>6, <1>7, ConflictsAre
<1>9. ASSUME NEW p \in pairs PROVE {p[1], p[2]} \in Unordered(found)
  <2>1. p[1] \in closed /\ p[2] \in closed /\ Contradict(p[1], p[2])
    BY <1>6 DEF JudgingInv, ConflictsStand, Written
  <2>2. <<p[1], p[2]>> \in found \/ <<p[2], p[1]>> \in found
    BY <1>8, <2>1
  <2>3. CASE <<p[1], p[2]>> \in found
    BY <2>3 DEF Unordered
  <2>4. CASE <<p[2], p[1]>> \in found
    <3>1. {<<p[2], p[1]>>[1], <<p[2], p[1]>>[2]} \in Unordered(found)
      BY <2>4 DEF Unordered
    <3> QED
      BY <3>1
  <2> QED
    BY <2>2, <2>3, <2>4
<1>10. ASSUME NEW p \in found PROVE {p[1], p[2]} \in Unordered(pairs)
  <2>1. PICK c, d : c \in closed /\ d \in closed /\ p = <<c, d>> /\ Contradict(c, d)
    BY <1>8
  <2>2. /\ <<c, d>> \in DOMAIN curated["conflict_candidates"]
           \/ <<d, c>> \in DOMAIN curated["conflict_candidates"]
    BY <1>1, <1>3, <2>1 DEF Judged
  <2>3. <<c, d>> \in pairs \/ <<d, c>> \in pairs
    BY <1>6, <2>1, <2>2
  <2>4. CASE <<c, d>> \in pairs
    BY <2>1, <2>4 DEF Unordered
  <2>5. CASE <<d, c>> \in pairs
    <3>1. {<<d, c>>[1], <<d, c>>[2]} \in Unordered(pairs)
      BY <2>5 DEF Unordered
    <3> QED
      BY <2>1, <3>1
  <2> QED
    BY <2>3, <2>4, <2>5
<1>11. Unordered(pairs) = Unordered(found)
  <2>1. Unordered(pairs) \subseteq Unordered(found)
    BY <1>9 DEF Unordered
  <2>2. Unordered(found) \subseteq Unordered(pairs)
    BY <1>10 DEF Unordered
  <2> QED
    BY <2>1, <2>2
<1>12. CopiesShareACluster
  BY DEF CopiesInv
<1>13. OpenBlocks = {Block(c) : c \in UNION {DocClaims[d] : d \in owed}}
  BY DEF OpenBlocks
<1> HIDE DEF OpenBlocks
<1> QED
  BY <1>1, <1>2, <1>4, <1>5, <1>6, <1>11, <1>12, <1>13, ZenonT(60) DEF BatchesReconcileAsOne, OnFile

(* The invariant of the judgement, over that of the corpus.                *)
THEOREM JudgementInvariance ==
    ASSUME ClaimsAreExtracted
    PROVE  Spec => [](JudgingInv /\ CopiesInv)
<1>1. Init => JudgingInv /\ CopiesInv
  BY InitJudges, InitCopies
<1>2. CorpusInv /\ JudgingInv /\ CopiesInv /\ [Next]_vars => (JudgingInv /\ CopiesInv)'
  BY NextJudges, NextShares
<1>3. Spec => []CorpusInv
  BY CorpusInvariance
<1> QED
  BY <1>1, <1>2, <1>3, PTL DEF Spec

(* Promotion in batches, redelivered or broken off half written, judges    *)
(* every block none of whose documents is owed as the whole corpus would:  *)
(* the canonical claims and the conflicts are those of one reconciliation, *)
(* and copies share a cluster.                                             *)
THEOREM BatchesAreAsOne ==
    ASSUME ClaimsAreExtracted
    PROVE  Spec => []BatchesReconcileAsOne
<1>1. CorpusInv /\ JudgingInv /\ CopiesInv => BatchesReconcileAsOne
  BY JudgingSuffices
<1> QED
  BY <1>1, CorpusInvariance, JudgementInvariance, PTL
===============================================================================
