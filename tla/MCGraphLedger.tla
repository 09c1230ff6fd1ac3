----------------------------- MODULE MCGraphLedger -----------------------------
(***************************************************************************)
(* Bounded instances of GraphLedger for TLC.                               *)
(***************************************************************************)
EXTENDS GraphLedger

CONSTANTS w1, w2, e1, e2, c1

(* Runs read the claim with and without its object.                        *)
TwoReadings == {<<c1, e1, e2>>, <<c1, e1, NoId>>}

(* The pair a relation of c1 joins in the same direction.                  *)
Related == {<<e1, e2>>}

(* Bound: a behaviour has all but one of two claims, two edits, a refresh  *)
(* and a fault.                                                            *)
BoundedSpec == Init /\ [][Next /\ (taken + edited + refreshed + faults)' <= 5]_vars

Symmetric == Permutations({w1, w2})
===============================================================================
