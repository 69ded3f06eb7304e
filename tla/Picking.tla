------------------------------- MODULE Picking -------------------------------
(***************************************************************************)
(* What a comprehension over a list keeps, in the order of the list: the   *)
(* SelectSeq of a set of elements, as a function that proofs can unfold.   *)
(***************************************************************************)
EXTENDS Naturals, Sequences

Picked(q, S) ==
    LET upTo[i \in 0..Len(q)] ==
            IF i = 0 THEN <<>>
            ELSE IF q[i] \in S THEN Append(upTo[i - 1], q[i]) ELSE upTo[i - 1]
    IN  upTo[Len(q)]
=============================================================================
