---------------------------- MODULE InvestigationReader ----------------------------
(***************************************************************************)
(* Investigations read the curated zone while documents are promoted into  *)
(* it.  A table is read where the code reads it and as it is then, so one  *)
(* investigation sees each of its tables at a different time.              *)
(*                                                                         *)
(* A read whose rows reach no result modelled here is left out (catalog,   *)
(* ranking, counter-evidence and retrieval), and no investigation runs     *)
(* while the zone is rebuilt: a rebuild deletes the tables first.          *)
(***************************************************************************)
EXTENDS CuratedCorpus, EvidenceFacade

LOCAL INSTANCE Functions
LOCAL INSTANCE SequencesExt

CONSTANTS
    Requests,           \* [subject, words, tokens, mode]
    Outputs,            \* statements the investigation's model may return
    Answers,            \* [fault, draft] the report's model may return
    MaxInvestigations   \* bound

VARIABLES
    stage, request,     \* what the investigation is at, and was asked
    held,               \* the tables the object at work has read
    result,
    investigations

(* A model's statement has its modality, a text and the claim it refers to; *)
(* the report's model may not be there, or fail.                           *)
ASSUME ReaderAssumption ==
    /\ \A output \in Outputs : output \in
           Seq([modality : STRING, about : STRING, claim : Nat \cup {None}])
    /\ \A answer \in Answers :
           answer.fault \in {"none", "llm_unavailable", "llm_provider_error"}
    /\ None \notin Nat

reader == <<stage, request, held, result, investigations>>

(* The tables each object reads, in order, and the name it keeps them by.  *)
Reads ==
    [facade |->     << <<"graph", "assertions">>, <<"claims", "claim_candidates">>,
                       <<"assertions", "assertions">>, <<"roots", "dup_clusters">>,
                       <<"additions", "dup_clusters">> >>,
     plan |->       << <<"known", "assertions">>, <<"forms", "entities">> >>,
     coverage |->   << <<"claims", "claim_candidates">>, <<"assertions", "assertions">> >>,
     conclusion |-> << <<"claims", "claim_candidates">>, <<"conflicts", "conflict_candidates">>,
                       <<"assertions", "assertions">>, <<"roots", "dup_clusters">> >>,
     statements |-> << <<"assertions", "assertions">> >>,
     llm |->        << <<"assertions", "assertions">>, <<"claims", "claim_candidates">> >>,
     check |->      << <<"records", "extraction_records">> >>,
     audit |->      << <<"records", "extraction_records">> >>]

NoResult ==
    [shown |-> {}, facade |-> [claims |-> {}, assertions |-> {}], independence |-> <<>>, plan |-> <<>>, seed |-> None,
     coverage |-> [gaps |-> {}, terminated_by |-> "no_new_evidence"],
     conclusion |-> NoConclusion, statements |-> <<>>, output |-> <<>>,
     llm_used |-> FALSE, trace |-> <<>>, report |-> <<>>]

ReaderInit ==
    /\ stage = "none"
    /\ request = None
    /\ held = <<>>
    /\ result = NoResult
    /\ investigations = 0

Open(r) ==
    /\ stage \in {"none", "done"}
    /\ pc \notin {"reset", "rebuild"}
    /\ investigations < MaxInvestigations
    /\ investigations' = investigations + 1
    /\ request' = r
    /\ stage' = "facade"
    /\ result' = NoResult
    /\ UNCHANGED held

Rows(table) ==
    CASE table = "entities" -> curated[table]
      [] table = "dup_clusters" -> Range(curated[table])
      [] OTHER -> DOMAIN curated[table]

(* What the object at work holds once it has read its next table.          *)
AndNext ==
    LET next == Reads[stage][Cardinality(DOMAIN held) + 1] IN
    [name \in DOMAIN held \cup {next[1]} |->
        IF name \in DOMAIN held THEN held[name] ELSE Rows(next[2])]

Read ==
    /\ stage \in DOMAIN Reads
    /\ Cardinality(DOMAIN held) + 1 < Len(Reads[stage])
    /\ held' = AndNext
    /\ UNCHANGED <<stage, request, result, investigations>>

(* The object at work reads its last table, and what it makes of them is a *)
(* step with that: nothing else sees it.  Then the next one begins.        *)
Through(this, next) ==
    /\ stage = this
    /\ Cardinality(DOMAIN held) + 1 = Len(Reads[this])
    /\ stage' = next
    /\ held' = <<>>
    /\ UNCHANGED <<request, investigations>>

Facade ==
    /\ Through("facade", "plan")
    /\ LET view == AndNext IN
        result' = [result EXCEPT
            !.shown = view["graph"],
            !.facade = [claims |-> view["claims"], assertions |-> view["assertions"]],
            !.independence = [s \in {Claim[a].subject : a \in view["assertions"]} |->
                                Independence(view, s)]]

Plan ==
    /\ Through("plan", "coverage")
    /\ LET view == AndNext
           plan == Decompose(request, {Claim[a].subject : a \in view["known"]}, view["forms"])
       IN  result' = [result EXCEPT !.plan = plan, !.seed = Seed(request, plan)]

Run ==
    /\ Through("coverage", "conclusion")
    /\ result' = [result EXCEPT !.coverage = Coverage(AndNext, result.plan)]

Synthesize ==
    /\ Through("conclusion", "statements")
    /\ result' = [result EXCEPT !.conclusion = Conclusion(AndNext, result.seed)]

(* Predicates and assertions come in the order their rows are read in.     *)
State ==
    /\ Through("statements", IF request.mode = "llm" THEN "llm" ELSE "audit")
    /\ \E predicates \in SetToSeqs(result.conclusion.predicates),
          ids \in SetToSeqs(About(AndNext["assertions"], result.seed)) :
        result' = [result EXCEPT !.statements = Statements(predicates, ids)]

(* The model may answer, fail, or answer nothing that is kept.             *)
AskModel ==
    \E output \in Outputs :
        LET view == AndNext
            evidence == EvidenceRows(view, result.seed)
            kept == IF evidence = {} THEN <<>> ELSE Kept(output, evidence)
        IN
        /\ Through("llm", IF kept = <<>> THEN "audit" ELSE "check")
        /\ result' = [result EXCEPT !.output = kept]

CheckOutput ==
    /\ Through("check", "audit")
    /\ result' = [result EXCEPT
        !.statements = Picked(result.output, {s \in ToSet(result.output) :
                                                TraceRow(s, AndNext["records"]).verified}),
        !.llm_used = TRUE]

AuditResult ==
    /\ Through("audit", "report")
    /\ result' = [result EXCEPT !.trace = Trace(result.statements, AndNext["records"])]

Report ==
    /\ stage = "report"
    /\ stage' = "done"
    /\ \E answer \in Answers :
        result' = [result EXCEPT !.report =
                     Generate(answer, result.statements, result.trace, result.coverage)]
    /\ UNCHANGED <<request, held, investigations>>

Investigate ==
    \/ \E r \in Requests : Open(r)
    \/ Read \/ Facade \/ Plan \/ Run \/ Synthesize \/ State
    \/ AskModel \/ CheckOutput \/ AuditResult \/ Report

-------------------------------------------------------------------------------
(* Properties.                                                             *)

(* What the plan calls known is covered by what is read later, and the     *)
(* conclusion about it rests on a document: a later step never loses what  *)
(* an earlier one announced, though other tables have been written since.  *)
ConclusionIsFounded ==
    stage = "done" => \A i \in DOMAIN result.plan : result.plan[i].known =>
        /\ i \notin result.coverage.gaps
        /\ result.plan[i].subject = result.seed => result.conclusion.evidence > 0

(* Everything a finished report asserts is traced to the record it was     *)
(* extracted with and is about the subject asked for: a promotion at work  *)
(* never gets an asserted statement rejected.                              *)
ReportIsTraceable ==
    stage = "done" =>
        /\ Blocked(result.trace) = {}
        /\ result.report.fallback_reason # "audit_rejected"
        /\ \A i \in DOMAIN result.statements :
            LET s == result.statements[i] IN
            IF Verifiable(s)
            THEN Claim[s.claim].subject = result.seed /\ Claim[s.claim].doc \in normalized
            ELSE s.claim = None

(* A subject's confidence is a proportion, and its independent sources are *)
(* among its documents, at whatever times the four tables were read.  The  *)
(* graph may count a document twice, as its own root and as an addition.   *)
FiguresAddUp ==
    LET c == result.conclusion IN
    /\ \A s \in DOMAIN result.independence :
        LET i == result.independence[s] IN
        /\ i.independent <= 2 * i.evidence
        /\ i.evidence = 0 <=> i.independent = 0
    /\ 0 <= c.value[1] /\ c.value[1] <= c.value[2]
    /\ c.independent <= c.evidence
    /\ c.evidence = 0 <=> c.independent = 0

(* The pages of evidence the facade lists for a claim show each document   *)
(* once, whatever it had read when it was built, and each leads back to    *)
(* the record of the claim.                                                *)
PagesLeadBack ==
    stage = "done" =>
        \A a \in result.facade.assertions :
            LET items == EvidenceItems(result.facade, a) IN
            /\ Listing(items, 1) = SetToSortSeq(items, <)
            /\ \A d \in items :
                EvidenceTrail(result.facade, DOMAIN curated["extraction_records"], a, d)
                    = [claim |-> a, record |-> Claim[a].doc, document |-> d]

(* Whatever the report's model answers, the page has every statement that  *)
(* passed the audit, once, and no other; one with a claim is shown with    *)
(* the document it was read in, as in the table of evidence, and the count *)
(* of linked statements is that of the table's rows.                       *)
DraftKeepsEveryStatement ==
    stage = "done" =>
        LET page == result.report.page
            shown == FoldLeft(\o, page.summary, page.findings)
            passed == DOMAIN result.statements \ Blocked(result.trace)
            sourced == {a \in ToSet(shown) : a.claim # None}
        IN
        /\ [i \in DOMAIN shown |-> shown[i].ref] \in SetToSeqs(passed)
        /\ Len(page.summary) <= SummaryLimit
        /\ sourced = page.evidence
        /\ \A a \in sourced : a.source = Claim[a.claim].doc
        /\ page.linked = Cardinality(page.evidence)

(* What is shown is all there is, once, and adds up (the three above).     *)
ShownInFull == FiguresAddUp /\ PagesLeadBack /\ DraftKeepsEveryStatement
===============================================================================
