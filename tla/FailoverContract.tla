-------------------------- MODULE FailoverContract --------------------------
(***************************************************************************)
(* What the virtual FallbacksChain/Auto route promises the caller of one   *)
(* stream() call, with nothing of how it is done: the call tries           *)
(* candidates one after the other, never one of them twice and never more  *)
(* than a budget of them; it hands over the output of the candidate it is  *)
(* trying; after the first output it stays with that candidate; and once   *)
(* it is over nothing happens to it any more.                              *)
(***************************************************************************)
EXTENDS Naturals, Sequences

CONSTANTS
  Caller,     \* the stream() calls
  Candidate,  \* the routes a call may try
  Budget      \* attempts a call may make

VARIABLES
  tried,   \* the candidates each call has tried, in order
  source,  \* the candidates whose output the caller of each call has seen
  over     \* the calls that are over

contractVars == <<tried, source, over>>

Tried(c) == { tried[c][i] : i \in DOMAIN tried[c] }

Init ==
  /\ tried = [c \in Caller |-> <<>>]
  /\ source = [c \in Caller |-> {}]
  /\ over = {}

\* The call moves on to a candidate it has not tried, while its caller has seen
\* nothing yet.
Try(c, r) ==
  /\ c \notin over
  /\ source[c] = {}
  /\ r \notin Tried(c)
  /\ Len(tried[c]) < Budget
  /\ tried' = [tried EXCEPT ![c] = Append(@, r)]
  /\ UNCHANGED <<source, over>>

\* Output of the candidate being tried reaches the caller, who may hang up.
Deliver(c) ==
  /\ c \notin over
  /\ tried[c] # <<>>
  /\ source' = [source EXCEPT ![c] = {tried[c][Len(tried[c])]}]
  /\ over' \in {over, over \cup {c}}
  /\ UNCHANGED tried

\* The call ends: answered, failed, refused or given up by its caller.
End(c) ==
  /\ c \notin over
  /\ over' = over \cup {c}
  /\ UNCHANGED <<tried, source>>

Next == \E c \in Caller : (\E r \in Candidate : Try(c, r)) \/ Deliver(c) \/ End(c)

Spec == Init /\ [][Next]_contractVars
=============================================================================
