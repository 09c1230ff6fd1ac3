------------------------------ MODULE CuratedReading ------------------------------
(***************************************************************************)
(* The curated zone and those who use it: documents are promoted into it   *)
(* or it is rebuilt, investigations read it, reviewers label pairs of it,  *)
(* and versions of the models are promoted by how it measures up.          *)
(***************************************************************************)
EXTENDS InvestigationReader, ModelPromotion

CONSTANT
    Apart       \* bound: no behaviour has both an investigation and reviews or
                \* promotions of versions (neither writes what the other reads)

vars == <<corpus, reader, evaluation>>

Init == CorpusInit /\ ReaderInit /\ EvaluationInit

(* No investigation runs while the zone is rebuilt; labels and baselines   *)
(* go with the zone when it is reset.                                      *)
Next ==
    \/ Promote /\ UNCHANGED <<reader, evaluation>>
    \/ /\ stage \in {"none", "done"}
       /\ Rebuild
       /\ IF pc = "reset" THEN Forget ELSE UNCHANGED evaluation
       /\ UNCHANGED reader
    \/ /\ Apart => reviewed + runs = 0
       /\ Investigate
       /\ UNCHANGED <<corpus, evaluation>>
    \/ /\ Apart => investigations = 0
       /\ Evaluate
       /\ UNCHANGED reader

Spec == Init /\ [][Next]_vars
===============================================================================
