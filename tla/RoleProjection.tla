---------------------------- MODULE RoleProjection ----------------------------
(***************************************************************************)
(* The role badge of a session: the fold of src/role-projection.ts over a  *)
(* child's log, which begins with the events inherited from its ancestor,  *)
(* and the checkpoints from which the host's registry rebuilds the fold    *)
(* instead of reading the whole log.                                       *)
(***************************************************************************)
EXTENDS Naturals, Sequences

CONSTANTS
  Badge, NoRole,  \* the role ids a notice names
  MaxLog        \* bound on the length of a log
ASSUME ProjectionAssumption ==
  /\ NoRole \notin Badge /\ MaxLog \in Nat
  /\ "null" \notin Badge \union {NoRole}  \* marks the state of no session

VARIABLES
  log,         \* the session's events; an event's seq is its position less one
  inherited,   \* the length of the fork prefix
  state,       \* the live fold: [inheritedEventCount, role], or Null
  checkpoint,  \* what is persisted: [form, at, state, degraded]
  degraded     \* history: rebuilt from a row nobody could read, no notice since
projectionVars == <<log, inherited, state, checkpoint, degraded>>

\* What an event is to the fold: our own notice row (of the current kind or of a
\* migrated one, with the persona suffix or without), or anything else: a prompt that
\* reads like a notice, another plugin's notice, a malformed row.
Notice(role) == [ours |-> TRUE, role |-> role]
Other == [ours |-> FALSE, role |-> NoRole]
Event == {Notice(r) : r \in Badge} \union {Other}

Boundary(count) == [inheritedEventCount |-> count, role |-> NoRole]
Null == [inheritedEventCount |-> 0, role |-> "null"]

RoleFromEvent(e) == IF e.ours THEN e.role ELSE NoRole
View(s) == IF s.role = "null" THEN NoRole ELSE s.role

\* Mutant: the whole log is the child's own.
ApplyUnbounded(s, e, seq) ==
  IF RoleFromEvent(e) = NoRole THEN s
  ELSE [inheritedEventCount |-> s.inheritedEventCount, role |-> e.role]

\* apply: last own notice wins; a state without a boundary counts as boundary 0.
Apply(s, e, seq) ==
  IF seq < s.inheritedEventCount \/ RoleFromEvent(e) = NoRole THEN s
  ELSE [inheritedEventCount |-> s.inheritedEventCount, role |-> e.role]

FoldFrom(s, events, first) ==
  LET after[n \in first..Len(events)] ==
        IF n = first THEN s ELSE Apply(after[n - 1], events[n], n - 1)
  IN  after[Len(events)]

\* A session starts empty or as a fork, with the whole prefix of its ancestor.
ProjectionInit ==
  /\ log \in UNION {[1..n -> Event] : n \in 0..2} /\ inherited = Len(log)
  /\ state = FoldFrom(Boundary(inherited), log, 0)
  /\ checkpoint = [form |-> "none", at |-> 0, state |-> Null, degraded |-> FALSE]
  /\ degraded = FALSE

Commits(e) ==
  /\ Len(log) < MaxLog /\ log' = Append(log, e)
  /\ state' = Apply(state, e, Len(log))
  /\ degraded' = (degraded /\ ~e.ours)
  /\ UNCHANGED <<inherited, checkpoint>>

\* The registry persists the fold's state with its watermark.
Persists ==
  /\ checkpoint' = [form |-> "good", at |-> Len(log), state |-> state, degraded |-> degraded]
  /\ UNCHANGED <<log, inherited, state, degraded>>

\* A row nobody can read, or one of an older state version.
RowDecays ==
  /\ checkpoint.form = "good"
  /\ \E form \in {"garbled", "old"} : checkpoint' = [checkpoint EXCEPT !.form = form]
  /\ UNCHANGED <<log, inherited, state, degraded>>

\* A row of another stateVersion is not used at all.
Usable(row) == row.form \in {"good", "garbled"}

\* ROLE_STATE_SCHEMA.parse is total: a shape it does not know is Null.
Parse(row) == IF row.form = "good" THEN row.state ELSE Null

\* restore: the parsed row and the tail above its watermark; without a usable row the
\* whole log, from init.
Restores ==
  /\ state' = IF Usable(checkpoint) THEN FoldFrom(Parse(checkpoint), log, checkpoint.at)
                                    ELSE FoldFrom(Boundary(inherited), log, 0)
  /\ degraded' =
       /\ checkpoint.form = "garbled" \/ (checkpoint.form = "good" /\ checkpoint.degraded)
       /\ \A i \in DOMAIN log : i > checkpoint.at => ~log[i].ours
  /\ UNCHANGED <<log, inherited, checkpoint>>

ProjectionNext == (\E e \in Event : Commits(e)) \/ Persists \/ RowDecays \/ Restores

ProjectionSpec == ProjectionInit /\ [][ProjectionNext]_projectionVars

-----------------------------------------------------------------------------
(* Properties                                                              *)

\* The reference: the notices above the fork boundary, and the last of them.
OwnNotices == {i \in DOMAIN log : i > inherited /\ log[i].ours}
OwnRole ==
  IF OwnNotices = {} THEN NoRole
  ELSE log[CHOOSE i \in OwnNotices : \A j \in OwnNotices : j <= i].role

\* Never a wrong pill: however the fold came by its state, the badge shows the role of
\* the session's own last notice, never the ancestor's and never an older one of its
\* own.  Only a row nobody can read costs it the badge; a rebuild from a good row, from
\* one of an older version and from the log alone agree with the uninterrupted fold.
NeverAWrongPill ==
  View(state) = OwnRole \/ (degraded /\ View(state) = NoRole)
=============================================================================
