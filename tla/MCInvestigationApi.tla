-------------------------- MODULE MCInvestigationApi --------------------------
(* Instance of InvestigationApi for TLC: clients and results are          *)
(* interchangeable.                                                        *)
EXTENDS InvestigationApi, TLC

Symmetry == Permutations(Clients) \cup Permutations(Results)
===============================================================================
