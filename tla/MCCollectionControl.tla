-------------------------- MODULE MCCollectionControl --------------------------
(***************************************************************************)
(* Bounded instances of CollectionControl for TLC.                         *)
(***************************************************************************)
EXTENDS CollectionControl, TLC

ThreadsAreAlike == Permutations(Threads)

(* Bound: once requests overlapped, whose effects on the shared temporary  *)
(* file multiply the states, two runs.                                     *)
OverlapOfTwoRuns == overlapped => triggered <= 2
===============================================================================
