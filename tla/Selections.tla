------------------------------- MODULE Selections -------------------------------
(***************************************************************************)
(* A comprehension over a list, with a condition, and the list of a set of *)
(* numbers: SelectSeq, for a condition that is a set, and SetToSortSeq, by *)
(* definitions proofs can unfold.                                          *)
(***************************************************************************)
EXTENDS Naturals, Sequences

(* The elements of a sequence that are in a set, in their order.           *)
Picked(s, S) ==
    LET upTo[n \in 0 .. Len(s)] ==
            IF n = 0 THEN <<>>
            ELSE IF s[n] \in S THEN Append(upTo[n - 1], s[n]) ELSE upTo[n - 1]
    IN  upTo[Len(s)]

(* The positive numbers of a finite set, in their order.                   *)
InOrder(S) ==
    LET last == CHOOSE n \in S : \A m \in S : m <= n
    IN IF S = {} THEN <<>> ELSE Picked([i \in 1 .. last |-> i], S)
===============================================================================
