------------------------------- MODULE ModelPromotion -------------------------------
(***************************************************************************)
(* Reviewers label pairs of the curated zone, and a version of the models  *)
(* is promoted when the zone, measured against the labels, is no worse     *)
(* than it was for the version promoted last (review, eval_suite,          *)
(* pipeline_gate, promotion_pipeline).  Labels and baselines are tables of *)
(* the curated zone, which is promoted into and rebuilt meanwhile.         *)
(*                                                                         *)
(* One promotion runs at a time.  Labels are of one gold_version.          *)
(***************************************************************************)
EXTENDS CuratedCorpus, EvaluationRules

LOCAL INSTANCE FiniteSetsExt

CONSTANTS
    Corrections,    \* [ref, kind, pair]: what a reviewer may correct
    Splits,         \* those labels are derived for, of dev and test
    Lineage,        \* lineage pairs labelled beforehand
    Versions,       \* [id, ontology]: ontology's major, None for a string
    MaxReviews,     \* bound: entries and decisions of the review queue
    MaxRuns         \* bound: promotions begun

VARIABLES
    reviews,        \* ReviewQueue: element_ref -> record
    golden,         \* golden_pairs, golden_entity_pairs, golden_lineage_pairs
    baselines,      \* promotion_baselines by version
    run,            \* the promotion under way
    verdict,        \* PromotionResult of the last one
    reviewed, runs  \* counters of the bounds

evaluation == <<reviews, golden, baselines, run, verdict, reviewed, runs>>

ASSUME PromotionAssumption ==
    /\ {MaxReviews, MaxRuns} \subseteq Nat
    /\ None \notin Nat
    /\ \A v \in Versions : v.id \in Nat /\ v.ontology \in Nat \cup {None}

NoGolden == [claim |-> {}, entity |-> {}, lineage |-> {}]

EvaluationInit ==
    /\ reviews = <<>>
    /\ golden = [NoGolden EXCEPT !.lineage = Lineage]
    /\ baselines = <<>>
    /\ run = None
    /\ verdict = None
    /\ reviewed = 0
    /\ runs = 0

-------------------------------------------------------------------------------
(* Reviews.                                                                *)

Queue(ref, record) ==
    /\ reviewed < MaxReviews
    /\ reviewed' = reviewed + 1
    /\ reviews' = (ref :> record) @@ reviews
    /\ UNCHANGED <<golden, baselines, run, verdict, runs>>

(* An element queued again is pending again, whatever was decided of it.   *)
Enqueue(ref) == Queue(ref, [status |-> "pending", correction |-> None])

Assign(ref) ==
    /\ ref \in DOMAIN reviews
    /\ reviews[ref].status = "pending"
    /\ Queue(ref, [reviews[ref] EXCEPT !.status = "in_review"])

(* From whatever status.                                                   *)
Decide(ref, status, correction) ==
    /\ ref \in DOMAIN reviews
    /\ Queue(ref, [status |-> status, correction |-> correction])

Review(ref) ==
    \/ Enqueue(ref)
    \/ Assign(ref)
    \/ \E status \in {"approved", "rejected", "escalated"} : Decide(ref, status, None)
    \/ \E c \in Corrections : c.ref = ref /\ Decide(ref, "corrected", c)

(* What derive_golden makes of a record: an approval has no corrected      *)
(* value, and nothing comes of it.                                         *)
Derived(record, split) ==
    IF record.status \in {"approved", "corrected"} /\ record.correction # None
    THEN {record.correction.pair @@ [split |-> split]}
    ELSE {}

(* A row's golden_id is made of the pair, its label and its split: a row   *)
(* that is there stays, next to another label of the same pair.            *)
PersistGolden(kind, rows) == golden' = [golden EXCEPT ![kind] = @ \cup rows]

(* One record of derive_golden, which goes on to the next or breaks off.   *)
DeriveGolden(ref, split) ==
    /\ ref \in DOMAIN reviews
    /\ Derived(reviews[ref], split) # {}
    /\ PersistGolden(reviews[ref].correction.kind, Derived(reviews[ref], split))
    /\ UNCHANGED <<reviews, baselines, run, verdict, reviewed, runs>>

-------------------------------------------------------------------------------
(* Promotion of a version.                                                 *)

ActiveVersions == {v \in DOMAIN baselines : baselines[v].status = "active"}

ActiveBaseline == IF ActiveVersions = {} THEN None ELSE Max(ActiveVersions)

(* EvalHarness reads the tables one after another.                         *)
StartRun(version) ==
    /\ run = None
    /\ runs < MaxRuns
    /\ runs' = runs + 1
    /\ \E canonical \in LastRows(DOMAIN curated["member_of"]) :
        run' = [step |-> "conflicts", version |-> version, canonical |-> canonical]
    /\ verdict' = None
    /\ UNCHANGED <<reviews, golden, baselines, reviewed>>

ReadConflicts ==
    /\ run # None
    /\ run.step = "conflicts"
    /\ run' = [step |-> "golden", version |-> run.version, canonical |-> run.canonical,
               conflicts |-> DOMAIN curated["conflict_candidates"]]
    /\ UNCHANGED <<reviews, golden, baselines, verdict, reviewed, runs>>

(* The golden pairs come last, and with them the numbers.                  *)
Measure ==
    /\ run # None
    /\ run.step = "golden"
    /\ run' = [step |-> "judge", version |-> run.version,
               metrics |-> Snapshot(golden.claim, run.canonical, run.conflicts),
               passed |-> ~PromotionBlocked(golden.claim, run.canonical, run.conflicts)]
    /\ UNCHANGED <<reviews, golden, baselines, verdict, reviewed, runs>>

(* What PromotionGate says of the snapshot and _decide makes of it.  The   *)
(* gate is given the numbers, not whether the suite passed.                *)
Decision ==
    LET active == ActiveBaseline
        regressions == IF active = None THEN {}
                       ELSE Regressions(baselines[active].metrics, run.metrics)
        major == active # None /\
                 OntologyMajorBump(baselines[active].ontology, run.version.ontology)
    IN  [version |-> run.version.id,
         against |-> active,
         action |-> IF regressions # {} \/ major THEN "BLOCKED"
                    ELSE IF active = None THEN "INITIALIZED" ELSE "PROMOTED",
         suite |-> run.passed,
         realized |-> FALSE]

(* dry_run ends here, and so does a run that is blocked.                   *)
Judge(dry) ==
    /\ run # None
    /\ run.step = "judge"
    /\ verdict' = Decision
    /\ run' = IF dry \/ Decision.action = "BLOCKED" THEN None
              ELSE [run EXCEPT !.step = "align"]
    /\ UNCHANGED <<reviews, golden, baselines, reviewed, runs>>

(* align judges again, finds the baseline it has to replace, and replaces  *)
(* it in two commits.                                                      *)
Supersede ==
    /\ run # None
    /\ run.step = "align"
    /\ ActiveBaseline # None
    /\ baselines' = [baselines EXCEPT ![ActiveBaseline].status = "superseded"]
    /\ run' = [run EXCEPT !.step = "persist"]
    /\ UNCHANGED <<reviews, golden, verdict, reviewed, runs>>

(* The row of a version that had one stays as it is, also superseded.      *)
WithBaseline(version, row) ==
    [v \in DOMAIN baselines \cup {version} |->
        IF v \in DOMAIN baselines THEN baselines[v] ELSE row]

Persist ==
    /\ run # None
    /\ \/ run.step = "persist"
       \/ run.step = "align" /\ ActiveBaseline = None
    /\ baselines' = WithBaseline(run.version.id,
          [metrics |-> run.metrics, ontology |-> run.version.ontology, status |-> "active"])
    /\ verdict' = [verdict EXCEPT !.realized = TRUE]
    /\ run' = None
    /\ UNCHANGED <<reviews, golden, reviewed, runs>>

(* Also between the two commits.                                           *)
RunBreaksOff ==
    /\ run # None
    /\ faults < MaxFaults
    /\ faults' = faults + 1
    /\ run' = None
    /\ UNCHANGED <<normalized, curated, buffer, pc, batch, stream, owed, deliveries,
                   rebuilds, reviews, golden, baselines, verdict, reviewed, runs>>

(* A reset drops every table of the zone.                                  *)
Forget ==
    /\ golden' = NoGolden
    /\ baselines' = <<>>
    /\ UNCHANGED <<reviews, run, verdict, reviewed, runs>>

Evaluate ==
    \/ /\ \/ \E ref \in {c.ref : c \in Corrections} :
             Review(ref) \/ \E split \in Splits : DeriveGolden(ref, split)
          \/ \E version \in Versions : StartRun(version)
          \/ ReadConflicts \/ Measure \/ Supersede \/ Persist
          \/ \E dry \in BOOLEAN : Judge(dry)
       /\ UNCHANGED corpus
    \/ RunBreaksOff

-------------------------------------------------------------------------------
(* Properties.                                                             *)

(* At most one baseline is active.  A version promoted over another, whose *)
(* row is the one in force, lost no more in any number than is permitted,  *)
(* and nothing of the precision; two versions whose ontologies are known   *)
(* are not a major apart.  And the report never shows a gate as failed     *)
(* while the harness, which has its own, would let a promotion through.    *)
BaselineIsCompared ==
    /\ Cardinality(ActiveVersions) <= 1
    /\ verdict # None =>
        LET old == verdict.against new == verdict.version IN
        verdict.realized /\ {old, new} \subseteq DOMAIN baselines /\ new \in ActiveVersions =>
            /\ Regressions(baselines[old].metrics, baselines[new].metrics) = {}
            /\ AtLeast(baselines[new].metrics.canonicalization_precision,
                       baselines[old].metrics.canonicalization_precision)
            /\ ~OntologyMajorBump(baselines[old].ontology, baselines[new].ontology)
    /\ \A canonical \in LastRows(DOMAIN curated["member_of"]) :
        LET conflicts == DOMAIN curated["conflict_candidates"]
            slices == {ClaimExtractionSlice(golden.claim, canonical),
                       ContradictionSlice(golden.claim, conflicts)}
        IN  ~PromotionBlocked(golden.claim, canonical, conflicts)
                => \A s \in slices : s.measured => s.pass

(* A version reported as promoted passed the golden gates.                 *)
PromotedPassedTheGates ==
    verdict # None /\ verdict.action = "PROMOTED" => verdict.suite
===============================================================================
