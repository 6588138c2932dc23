--------------------------- MODULE MCSubagentSeam ---------------------------
(***************************************************************************)
(* Small instances of the dispatch seam.                                   *)
(***************************************************************************)
EXTENDS SubagentSeam, TLC

\* Any call may be made under any label, or under none.
AnyKey == [d \in Dispatch |-> Key \union {None}]
\* Every call has a label.
EveryKey == [d \in Dispatch |-> Key]

Symmetry == UNION {Permutations(S) : S \in {Role, Child, Dispatch, Key, Fiber}}
=============================================================================
