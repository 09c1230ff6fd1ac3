--------------------------- MODULE MCPromotionStream ---------------------------
(***************************************************************************)
(* Bounded instances of PromotionStream for TLC.                           *)
(***************************************************************************)
EXTENDS PromotionStream

Announced == {log["primary"][i].doc : i \in DOMAIN log["primary"]}

(* Bound: one announced document with two faults, two with one, or three   *)
(* without, whichever they are.                                            *)
ThreeDocumentsOrFaults == Cardinality(Announced) + faults <= 3
===============================================================================
