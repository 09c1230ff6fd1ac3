------------------------------ MODULE EvaluationRules ------------------------------
(***************************************************************************)
(* How the curated zone is measured against golden pairs (eval_harness,    *)
(* metrics_report), and how one version's numbers are held against those   *)
(* of the version promoted last (regression, versioning).                  *)
(*                                                                         *)
(* A golden pair is [a, b, label, split].  A proportion is <<n, d>>, and   *)
(* 0 when there is nothing to divide by.                                   *)
(***************************************************************************)
EXTENDS CurationRules, Integers

LOCAL INSTANCE FiniteSetsExt
LOCAL INSTANCE TLC

Proportion(n, d) == IF d = 0 THEN <<0, 1>> ELSE <<n, d>>

AtLeast(p, q) == p[1] * q[2] >= q[1] * p[2]

Percent(n) == <<n, 100>>

CANONICAL_GATE == Percent(85)
CONTRADICTION_GATE_P == Percent(90)
CONTRADICTION_TARGET_R == Percent(75)
ENTITY_RESOLUTION_GATE_P == Percent(97)
ENTITY_RESOLUTION_GATE_WRONG_MERGE == Percent(2)
LINEAGE_GATE_P == Percent(98)
LINEAGE_TARGET_R == Percent(90)

-------------------------------------------------------------------------------
(* Pairs and counts.                                                       *)

(* Of every split when none is asked for.                                  *)
Pairs(golden, split, labels) ==
    {g \in golden : g.label \in labels /\ split \in {None, g.split}}

(* Of the pairs that should be found, or should not, those that were.      *)
Metric(should, shouldNot, found) ==
    [tp |-> Cardinality(should \cap found),
     fp |-> Cardinality(shouldNot \cap found),
     fn |-> Cardinality(should \ found)]

Precision(m) == Proportion(m.tp, m.tp + m.fp)

Recall(m) == Proportion(m.tp, m.tp + m.fn)

F1(m) == IF m.tp = 0 THEN <<0, 1>> ELSE <<2 * m.tp, 2 * m.tp + m.fp + m.fn>>

(* Pairs whose two members a mapping takes to the same thing.              *)
Together(golden, mapping) ==
    {g \in golden : {g.a, g.b} \subseteq DOMAIN mapping /\ mapping[g.a] = mapping[g.b]}

-------------------------------------------------------------------------------
(* What the zone decided.  Of several rows with one key the last one read  *)
(* counts, and the rows of a table are in no order.                        *)

LastRows(rows) ==
    LET WithLast(k, chosen) ==
            {f @@ (k :> r[2]) : f \in chosen, r \in {q \in rows : q[1] = k}}
    IN  FoldSet(WithLast, {<<>>}, {r[1] : r \in rows})

InConflict(golden, conflicts) ==
    {g \in golden : {g.a, g.b} \in {{k[1], k[2]} : k \in conflicts}}

(* An entity's identifiers, and each of its names: also those of an entity *)
(* that has identifiers.                                                   *)
EntityKeys(entity, forms) ==
    (IF entity.ids = {} THEN {} ELSE {<<"id", entity.ids>>})
    \cup {<<"surface", entity.type, word>> : word \in forms}

EntityMerge(entities) ==
    UNION {{<<key, e>> : key \in EntityKeys(e, entities[e])} : e \in DOMAIN entities}

(* The root is not among the member_doc_ids of its cluster.                *)
ClusterMembership(clusters) ==
    UNION {{<<d, members>> : d \in clusters[members].members} : members \in DOMAIN clusters}

-------------------------------------------------------------------------------
(* EvalHarness.                                                            *)

CanonicalizationMetrics(golden, canonical, split) ==
    Metric(Pairs(golden, split, {"equivalent"}), Pairs(golden, split, {"unrelated"}),
           Together(golden, canonical))

ContradictionMetrics(golden, conflicts, split) ==
    Metric(Pairs(golden, split, {"contradicts"}), Pairs(golden, split, {"unrelated"}),
           InConflict(golden, conflicts))

(* An uncertain pair counts for nothing.                                   *)
EntityResolutionMetrics(golden, merge, split) ==
    Metric(Pairs(golden, split, {"same"}), Pairs(golden, split, {"not_same"}),
           Together(golden, merge))

LineageMetrics(golden, membership, split) ==
    Metric(Pairs(golden, split, {"dup"}), Pairs(golden, split, {"independent"}),
           Together(golden, membership))

ContradictionPasses(m) ==
    /\ AtLeast(Precision(m), CONTRADICTION_GATE_P)
    /\ AtLeast(Recall(m), CONTRADICTION_TARGET_R)

(* A gate with no golden pair passes.  An unrelated pair is a pair of both *)
(* gates, and with no contradicting one the second cannot be passed.       *)
PromotionBlocked(golden, canonical, conflicts) ==
    LET cc == CanonicalizationMetrics(golden, canonical, None)
        cd == ContradictionMetrics(golden, conflicts, None)
    IN  \/ /\ Pairs(golden, None, {"equivalent", "unrelated"}) # {}
           /\ ~AtLeast(F1(cc), CANONICAL_GATE)
        \/ /\ Pairs(golden, None, {"contradicts", "unrelated"}) # {}
           /\ ~ContradictionPasses(cd)

-------------------------------------------------------------------------------
(* MetricsReport: a slice without golden pairs is not measured.            *)

Slice(golden, metrics, pass) ==
    IF golden = {} THEN [measured |-> FALSE, metrics |-> None, pass |-> FALSE]
    ELSE [measured |-> TRUE, metrics |-> metrics, pass |-> pass]

ClaimExtractionSlice(golden, canonical) ==
    LET cc == CanonicalizationMetrics(golden, canonical, None) IN
    Slice(Pairs(golden, None, {"equivalent", "unrelated"}), cc,
          AtLeast(F1(cc), CANONICAL_GATE))

ContradictionSlice(golden, conflicts) ==
    LET cd == ContradictionMetrics(golden, conflicts, None) IN
    Slice(Pairs(golden, None, {"contradicts"}), cd, ContradictionPasses(cd))

EntityResolutionSlice(golden, merge) ==
    LET m == EntityResolutionMetrics(golden, merge, None) IN
    Slice(Pairs(golden, None, {"same", "not_same"}), m,
          /\ AtLeast(Precision(m), ENTITY_RESOLUTION_GATE_P)
          /\ AtLeast(ENTITY_RESOLUTION_GATE_WRONG_MERGE, Proportion(m.fp, m.tp + m.fp)))

LineageSlice(golden, membership) ==
    LET m == LineageMetrics(golden, membership, None) IN
    Slice(Pairs(golden, None, {"dup", "independent"}), m,
          /\ AtLeast(Precision(m), LINEAGE_GATE_P)
          /\ AtLeast(Recall(m), LINEAGE_TARGET_R))

-------------------------------------------------------------------------------
(* Regression.                                                             *)

(* EvalSnapshot: the numbers a version is promoted with.                   *)
Snapshot(golden, canonical, conflicts) ==
    LET cc == CanonicalizationMetrics(golden, canonical, None)
        cd == ContradictionMetrics(golden, conflicts, None)
    IN  [canonicalization_f1 |-> F1(cc),
         canonicalization_precision |-> Precision(cc),
         contradiction_precision |-> Precision(cd),
         contradiction_recall |-> Recall(cd)]

(* Percentage points a number may fall by.                                 *)
DEFAULT_PERMITTED ==
    [canonicalization_precision |-> 0, canonicalization_f1 |-> 2,
     contradiction_precision |-> 1, contradiction_recall |-> 2]

MutantRegressions(baseline, current) ==
    {k \in DOMAIN DEFAULT_PERMITTED :
        LET p == baseline[k] q == current[k] IN
        100 * (q[1] * p[2] - p[1] * q[2]) > DEFAULT_PERMITTED[k] * p[2] * q[2]}

Regressions(baseline, current) ==
    {k \in DOMAIN DEFAULT_PERMITTED :
        LET p == baseline[k] q == current[k] IN
        100 * (p[1] * q[2] - q[1] * p[2]) > DEFAULT_PERMITTED[k] * p[2] * q[2]}

(* A version that is a plain string has no ontology to compare.            *)
OntologyMajorBump(previous, current) ==
    previous # None /\ current # None /\ current > previous
===============================================================================
