------------------------------ MODULE EvidenceFacade ------------------------------
(***************************************************************************)
(* The evidence of a claim as the read facade (api_facade) lists it, page  *)
(* by page, and the trail from a piece of evidence back to its source.     *)
(*                                                                         *)
(* A view is what the facade has read when it was built; the records are   *)
(* read for each trail.  A piece of evidence is the claim and a document.  *)
(***************************************************************************)
EXTENDS InvestigationContent

LOCAL INSTANCE FiniteSetsExt
LOCAL INSTANCE Folds
LOCAL INSTANCE SequencesExt

(* A claim that is not asserted has none.                                  *)
EvidenceItems(view, claim) ==
    IF claim \in view.assertions THEN SupportingDocs(view.claims, claim) ELSE {}

(* The first row after the cursor.  A cursor that is behind the last row   *)
(* starts at the first again.                                              *)
Start(rows, cursor) ==
    LET later == {i \in DOMAIN rows : cursor # None /\ rows[i] > cursor} IN
    IF later = {} THEN 1 ELSE Min(later)

(* A page, and the cursor it hands out: its last row, unless no row is left.*)
PageAfter(rows, cursor, limit) ==
    LET start == Start(rows, cursor)
        end == start + limit - 1
    IN  [rows |-> SubSeq(rows, start, Min({end, Len(rows)})),
         next |-> IF end < Len(rows) THEN rows[end] ELSE None]

EvidencePage(items, cursor, limit) == PageAfter(SetToSortSeq(items, <), cursor, limit)

(* What a client sees that follows the cursors to the last page.           *)
Listing(items, limit) ==
    LET Next(sofar, n) ==
            IF n > 1 /\ sofar.next = None THEN sofar
            ELSE LET page == EvidencePage(items, sofar.next, limit)
                 IN  [rows |-> sofar.rows \o page.rows, next |-> page.next]
    IN  FoldLeft(Next, [rows |-> <<>>, next |-> None],
                 [n \in 1 .. Cardinality(items) + 1 |-> n]).rows

(* The record is the claim's own, also when the document is another that   *)
(* says the same: its span is not one of that document.                    *)
EvidenceTrail(view, records, claim, doc) ==
    IF doc \in EvidenceItems(view, claim)
    THEN [claim |-> claim, record |-> SpanForClaim(claim, records), document |-> doc]
    ELSE None
===============================================================================
