------------------------- MODULE MCInvestigationQueue -------------------------
(***************************************************************************)
(* Bounded instances of InvestigationQueue for TLC.                        *)
(***************************************************************************)
EXTENDS InvestigationQueue, TLC

(* Workers, regenerations, results and profiles are interchangeable.       *)
Symmetry == Permutations(Workers) \cup Permutations(Regenerators)
              \cup Permutations(Results) \cup Permutations(Profiles)
===============================================================================
