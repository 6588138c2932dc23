------------------------------ MODULE Selections -----------------------------
(***************************************************************************)
(* Array.prototype.filter over a sequence, its test given as the set of    *)
(* elements that pass.  A recursive function, so that it can be reasoned   *)
(* about as well as evaluated.                                             *)
(***************************************************************************)
EXTENDS Naturals, Sequences

\* The elements of s that are among S, in their order.
Among(s, S) ==
  LET upTo[i \in 0..Len(s)] ==
        IF i = 0 THEN <<>>
        ELSE IF s[i] \in S THEN Append(upTo[i - 1], s[i]) ELSE upTo[i - 1]
  IN upTo[Len(s)]
=============================================================================
