--------------------------- MODULE InvestigationContent ---------------------------
(***************************************************************************)
(* What an investigation makes of the rows it has read: planner, evidence  *)
(* and conclusion projections, coverage, statements, audit and the report  *)
(* draft.  Nothing here changes the zone.                                  *)
(*                                                                         *)
(* A subject is an entity, or a word of the question no entity stands for. *)
(* A fraction is <<numerator, denominator>>.  Variants named Mutant... are *)
(* plausible slips in the code they stand next to.                         *)
(***************************************************************************)
EXTENDS CurationRules

LOCAL INSTANCE FiniteSetsExt
LOCAL INSTANCE Folds
LOCAL INSTANCE SequencesExt

CONSTANT SummaryLimit   \* statements a summary holds: 5

ASSUME ContentAssumption == SummaryLimit \in Nat

-------------------------------------------------------------------------------
(* planner.  A request names a subject, or asks a question: the words of   *)
(* it, longest first, and its upper-case tokens with the words around each.*)

Token(word) == [type |-> "token", name |-> word, ids |-> {}]

NoTarget == [type |-> "?subject", name |-> 0, ids |-> {}]

Unseen(parts, subjects) == subjects \ {p.subject : p \in ToSet(parts)}

(* An entity is a part once, for the longest word that names it.           *)
MatchEntities(words, forms) ==
    LET named(w) == {e \in DOMAIN forms : w \in forms[e] \cup {e.name}}
        Add(parts, w) ==
            parts \o SetToSeq({[subject |-> e, surface |-> w] : e \in Unseen(parts, named(w))})
    IN  FoldLeft(Add, <<>>, words)

(* What the question is broken into: entities first, then tokens no        *)
(* matched word contains, then the request itself.                         *)
Decompose(request, known, forms) ==
    LET matched == MatchEntities(request.words, forms)
        loose == SelectSeq(request.tokens, LAMBDA t :
                    t.within \cap {p.surface : p \in ToSet(matched)} = {})
        named == [i \in DOMAIN loose |->
                    [subject |-> Token(loose[i].word), surface |-> loose[i].word]]
        itself == IF request.words = <<>> /\ request.tokens = <<>> /\ request.subject \in known
                  THEN <<[subject |-> request.subject, surface |-> 0]>> ELSE <<>>
        parts == matched \o named \o itself
        all == IF parts = <<>> THEN <<[subject |-> NoTarget, surface |-> 0]>> ELSE parts
    IN  [i \in DOMAIN all |->
            [subject |-> all[i].subject, known |-> all[i].subject \in known]]

Seed(request, plan) ==
    LET known == SelectSeq(plan, LAMBDA s : s.known) IN
    CASE request.subject # None -> request.subject
      [] request.subject = None /\ known # <<>> -> known[1].subject
      [] OTHER -> None

-------------------------------------------------------------------------------
(* assertion_evidence.  A view is the tables a projector has read.         *)

About(assertions, subject) == {a \in assertions : Claim[a].subject = subject}

SameFact(x, y) == BlockOf(x) = BlockOf(y) /\ x.object = y.object

SupportingDocs(claims, a) ==
    {x.doc : x \in {x \in {Claim[c] : c \in claims} : SameFact(Claim[a], x)}}

(* The last cluster read that has the document decides; the rows come in   *)
(* no order the code fixes.                                                *)
RootOf(clusters, d) ==
    LET found == {k \in clusters : d \in k.members} IN
    IF found = {} THEN d ELSE (CHOOSE k \in found : TRUE).root

Roots(clusters, docs) == {RootOf(clusters, d) : d \in docs}

IndependentSources(view, a) ==
    LET docs == SupportingDocs(view.claims, a)
        addition == UNION {k.independent : k \in view.additions}
    IN  Cardinality(Roots(view.roots, docs)) + Cardinality(docs \cap addition)

Contradictions(conflicts, a) == Cardinality({p \in conflicts : a \in {p[1], p[2]}})

Support(claims, a) ==
    LET n == Cardinality(SupportingDocs(claims, a)) IN <<n, n + 1>>

Contradiction(conflicts, a) ==
    LET n == Contradictions(conflicts, a) IN <<n, n + 1>>

Times(x, y) == <<x[1] * y[1], x[2] * y[2]>>
Plus(x, y) == <<x[1] * y[2] + y[1] * x[2], x[2] * y[2]>>
Complement(x) == <<x[2] - x[1], x[2]>>
Below(x, y) == x[1] * y[2] < y[1] * x[2]

Value(support, contradiction) == Times(support, Complement(contradiction))

(* graph_explorer.  The sums over the assertions about a subject.          *)
Independence(view, subject) ==
    LET about == About(view.assertions, subject) IN
    [evidence |-> MapThenSumSet(LAMBDA a : Cardinality(SupportingDocs(view.claims, a)), about),
     independent |-> MapThenSumSet(LAMBDA a : IndependentSources(view, a), about)]

-------------------------------------------------------------------------------
(* conclusion: the means over a subject's assertions.                      *)

Mean(x, n) == <<x[1], x[2] * n>>

MeanOver(set, fraction(_)) ==
    Mean(MapThenFoldSet(Plus, <<0, 1>>, fraction, LAMBDA s : CHOOSE e \in s : TRUE, set),
         Cardinality(set))

LowConfidence == <<2, 5>>

OpenKind(view, a) ==
    IF SupportingDocs(view.claims, a) = {} THEN "evidence"
    ELSE IF Below(Value(Support(view.claims, a), Contradiction(view.conflicts, a)), LowConfidence)
    THEN "low_confidence" ELSE "settled"

NoConclusion ==
    [value |-> <<0, 1>>, evidence |-> 0, independent |-> 0, coverage |-> <<0, 1>>,
     predicates |-> {}, open |-> {}]

Conclusion(view, subject) ==
    LET about == About(view.assertions, subject)
        docs == UNION {SupportingDocs(view.claims, a) : a \in about}
        support == MeanOver(about, LAMBDA a : Support(view.claims, a))
        contradiction == MeanOver(about, LAMBDA a : Contradiction(view.conflicts, a))
    IN  IF about = {} THEN NoConclusion ELSE
        [value |-> Value(support, contradiction),
         evidence |-> Cardinality(docs),
         independent |-> Cardinality(Roots(view.roots, docs)),
         coverage |-> <<Cardinality({a \in about : SupportingDocs(view.claims, a) # {}}),
                        Cardinality(about)>>,
         predicates |-> {Claim[a].predicate : a \in about},
         open |-> {<<a, OpenKind(view, a)>> : a \in {a \in about : OpenKind(view, a) # "settled"}}]

-------------------------------------------------------------------------------
(* investigation, investigation_budget, investigation_runner.              *)

MutantCovered(view, subject) ==
    \A a \in About(view.assertions, subject) : SupportingDocs(view.claims, a) # {}

Covered(view, subject) ==
    \E a \in About(view.assertions, subject) : SupportingDocs(view.claims, a) # {}

MaxSteps == 3

(* One step is consumed; then the budget, and the coverage, are judged.    *)
TerminatedBy(covered, planned) ==
    CASE MaxSteps <= 1 -> "budget"
      [] MaxSteps > 1 /\ 5 * covered >= 4 * planned -> "coverage"
      [] OTHER -> "no_new_evidence"

Coverage(view, plan) ==
    LET gaps == {i \in DOMAIN plan : ~Covered(view, plan[i].subject)} IN
    [gaps |-> gaps,
     terminated_by |-> TerminatedBy(Len(plan) - Cardinality(gaps), Len(plan))]

-------------------------------------------------------------------------------
(* synthesis.                                                              *)

Verifiable(statement) == statement.modality \in {"fact", "asserted"}

(* A statement for each predicate; the i-th cites the i-th assertion about *)
(* the subject, whatever that one's predicate is.                          *)
Statements(predicates, ids) ==
    [i \in DOMAIN predicates |->
        [modality |-> "asserted", about |-> predicates[i],
         claim |-> IF ids = <<>> THEN None ELSE ids[((i - 1) % Len(ids)) + 1]]]

(* Where a claim was read: its extraction record, if it is found.          *)
SpanForClaim(claim, records) == IF claim \in records THEN Claim[claim].doc ELSE None

(* A statement is verified if it needs no source, or if its claim has one. *)
TraceRow(statement, records) ==
    LET span == IF Verifiable(statement) THEN SpanForClaim(statement.claim, records) ELSE None
    IN  [claim |-> statement.claim, span |-> span,
         verified |-> Verifiable(statement) => span # None]

Trace(statements, records) ==
    [i \in DOMAIN statements |-> TraceRow(statements[i], records)]

Blocked(trace) == {i \in DOMAIN trace : ~trace[i].verified}

-------------------------------------------------------------------------------
(* llm_investigation: the statements of a model that may be kept.          *)

(* The claims a model is given; the cap on their number is left out.       *)
EvidenceRows(view, subject) == About(view.assertions, subject) \cap view.claims

Allowed(statement, evidence) ==
    \/ statement.modality = "asserted" /\ statement.claim \in evidence
    \/ statement.modality \in {"prediction", "opinion"}

Kept(output, evidence) ==
    LET kept == Picked(output, {s \in ToSet(output) : Allowed(s, evidence)}) IN
    [i \in DOMAIN kept |->
        IF Verifiable(kept[i]) THEN kept[i] ELSE [kept[i] EXCEPT !.claim = None]]

-------------------------------------------------------------------------------
(* investigation_report.  A statement is referred to by its place.  A      *)
(* draft is a summary and sections, each a sequence of references.         *)

(* Each row of the audit is held against its statement.                    *)
ValidStatement(statement, row) ==
    /\ row.verified
    /\ row.claim = statement.claim
    /\ IF Verifiable(statement)
       THEN statement.claim # None /\ row.span # None
       ELSE statement.claim = None /\ row.span = None

Eligible(statements, trace) ==
    {i \in DOMAIN statements : ValidStatement(statements[i], trace[i])}

SectionKeys == {"findings", "counter_evidence", "timeline", "limitations"}

FallbackDraft(eligible) ==
    LET refs == SetToSortSeq(eligible, <) IN
    [summary |-> SubSeq(refs, 1, Min({SummaryLimit, Len(refs)})),
     sections |-> <<[key |-> "findings", refs |-> SubSeq(refs, SummaryLimit + 1, Len(refs))]>>]

References(draft) ==
    FoldLeft(LAMBDA refs, section : refs \o section.refs, draft.summary, draft.sections)

WellFormed(draft, statements) ==
    /\ Len(draft.summary) <= SummaryLimit
    /\ Len(draft.sections) \in 1 .. 8
    /\ IsInjective([i \in DOMAIN draft.sections |-> draft.sections[i].key])
    /\ {draft.sections[i].key : i \in DOMAIN draft.sections} \subseteq SectionKeys
    /\ IsInjective(References(draft))
    /\ ToSet(References(draft)) \subseteq statements

MutantComplete(draft, eligible) == draft

(* What the editor left out is appended to the findings.                   *)
Complete(draft, eligible) ==
    LET omitted == SetToSortSeq(eligible \ ToSet(References(draft)), <)
        extended == [draft EXCEPT !.sections = [i \in DOMAIN @ |->
            IF @[i].key = "findings" THEN [@[i] EXCEPT !.refs = @ \o omitted] ELSE @[i]]]
    IN  CASE omitted = <<>> -> draft
          [] omitted # <<>> /\ \E i \in DOMAIN draft.sections : draft.sections[i].key = "findings"
                -> extended
          [] OTHER -> [draft EXCEPT !.sections = Append(@, [key |-> "findings", refs |-> omitted])]

(* What the page shows of a statement: its claim and where it was read, or *)
(* that it needs none.                                                     *)
Article(i, trace) == [ref |-> i, claim |-> trace[i].claim, source |-> trace[i].span]

Articles(refs, trace) == [i \in DOMAIN refs |-> Article(refs[i], trace)]

(* The page.  The tables of contradictions and of the timeline are empty:  *)
(* counter-evidence comes without candidates, and there is no timeline.  A *)
(* gap is listed as a question about the subject and by its own name.      *)
Page(draft, statements, trace, coverage) ==
    LET eligible == Eligible(statements, trace)
        sourced == {i \in eligible : Verifiable(statements[i])}
    IN  [summary |-> Articles(draft.summary, trace),
         findings |-> [k \in DOMAIN draft.sections |-> Articles(draft.sections[k].refs, trace)],
         evidence |-> {Article(i, trace) : i \in sourced},
         gaps |-> {"question", "gap"} \X coverage.gaps,
         budget_note |-> coverage.terminated_by = "budget",
         linked |-> Cardinality(sourced),
         verifiable |-> Cardinality({i \in DOMAIN statements : Verifiable(statements[i])})]

(* The answer of the report's model is a draft, or why there is none.      *)
FallbackReason(answer, statements, eligible) ==
    CASE eligible # statements -> "audit_rejected"
      [] eligible = statements /\ answer.fault # "none" -> answer.fault
      [] OTHER -> IF WellFormed(answer.draft, statements) THEN "none" ELSE "invalid_draft"

Generate(answer, statements, trace, coverage) ==
    LET eligible == Eligible(statements, trace)
        reason == FallbackReason(answer, DOMAIN statements, eligible)
        draft == IF reason = "none" THEN Complete(answer.draft, eligible)
                 ELSE FallbackDraft(eligible)
    IN  [mode |-> IF reason = "none" THEN "llm_assisted" ELSE "deterministic_fallback",
         fallback_reason |-> reason,
         draft |-> draft,
         page |-> Page(draft, statements, trace, coverage)]
===============================================================================
