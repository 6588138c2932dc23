------------------------------ MODULE RoleSeeds ------------------------------
(***************************************************************************)
(* The seeded roles of seeds.ts.  Producers (the plugin's own presets and  *)
(* companion plugins) declare default personas for role ids; a declare     *)
(* materialises them into the operator's role rows through one write of    *)
(* the WHOLE `roles` value, awaits it, and only then commits the           *)
(* producer's slice to a registry that lives in memory.  Operators edit    *)
(* the same rows through the gateway (gateway.ts), which also reverts a    *)
(* row to its default.                                                     *)
(*                                                                         *)
(* A declare is three steps: compute and issue the write (no await         *)
(* between them), the host's commit of the write, the continuation.  The   *)
(* settings service is the host's: it applies writes one at a time, in the *)
(* order they were issued, and `roles` is replaced whole.  The live        *)
(* source shows a write once it is committed.                              *)
(*                                                                         *)
(* A batch is a function from ids to personas.  Entries that declare       *)
(* drops with a warning (illegal, reserved, duplicate) are not in it, and  *)
(* row ids are trimmed: padding and duplicate rows of the operator are     *)
(* abstracted.  What a row holds beside its persona is carried along       *)
(* verbatim by every write and left out; `rules` stands for the part of    *)
(* `roles` that no seed operation may change.                              *)
(***************************************************************************)
EXTENDS Integers, Sequences

CONSTANTS
  Role,          \* ids that can be declared
  Persona,
  None,          \* no row, no entry, no declaration
  Bundled,       \* the label of the plugin's own preset declare
  SetName,       \* labels of companions, "external" included
  Preset,        \* the bundled batch
  Batch,         \* what companions declare, the empty batch among them
  Call,          \* concurrent calls of declare and revert
  Operator,      \* writer of the gateway's set and reset
  MaxInFlight,   \* writes issued and not yet committed
  MaxSeq,        \* bound on committed declares
  MaxRules       \* bound on operator edits of the rules

Maybe == Persona \union {None}
Rows  == [Role -> Maybe]
Label == SetName \union {Bundled}

ASSUME SeedsAssumption ==
  /\ None \notin Persona
  /\ Bundled \notin SetName
  /\ Operator \notin Call
  /\ Preset \in Rows
  /\ Batch \subseteq Rows
  /\ MaxInFlight \in Nat /\ MaxSeq \in Nat /\ MaxRules \in Nat

NoRows == [id \in Role |-> None]
Doc    == [list : Rows, rules : 0 .. MaxRules]
Slice  == [seq : Nat, entries : Rows]
NoSlice == [seq |-> 0, entries |-> NoRows]

VARIABLES
  doc,        \* the committed `roles` of the composed configuration
  queue,      \* writes issued and not yet committed
  registry,   \* slice per producer, NoSlice when it has none
  declareSeq,
  channel,    \* the settings child is active: writes are possible
  presetDue,  \* the preset child has fired and not yet declared
  call,       \* the calls in progress
  edited      \* history: rows that last got a persona from an operator who
              \* thereby departed from the default

vars == <<doc, queue, registry, declareSeq, channel, presetDue, call, edited>>

Idle == [pc |-> "idle", label |-> None, entries |-> NoRows, seq |-> 0, atDefault |-> {},
         asRead |-> {}, rulesAsRead |-> FALSE]
\* seq, atDefault, asRead and rulesAsRead are history: the sequence the
\* candidate was computed with, the ids whose row followed its default, or was
\* absent, when the call was made, the ids whose row is as the call read it,
\* and whether the rules are.  A write of anybody else takes away from the
\* last three what it changes.
CallRecord == [pc : {"idle", "declaring", "reverting", "declared", "reverted"},
               label : Label \union {None}, entries : Rows, seq : Nat,
               atDefault : SUBSET Role, asRead : SUBSET Role, rulesAsRead : BOOLEAN]
Write == [by : Call \union {Operator}, roles : Doc]

TypeOK ==
  /\ doc \in Doc
  /\ queue \in Seq(Write) /\ Len(queue) <= MaxInFlight
  /\ registry \in [Label -> Slice]
  /\ \A l \in Label : registry[l].entries = NoRows <=> registry[l] = NoSlice
  /\ declareSeq \in 0 .. MaxSeq
  /\ channel \in BOOLEAN /\ presetDue \in BOOLEAN
  /\ call \in [Call -> CallRecord]
  /\ edited \subseteq Role

Init ==
  /\ doc \in {[list |-> rows, rules |-> 0] : rows \in Batch}
  /\ queue = <<>>
  /\ registry = [l \in Label |-> NoSlice]
  /\ declareSeq = 0
  /\ channel = FALSE /\ presetDue = FALSE
  /\ call = [c \in Call |-> Idle]
  /\ edited = {}

-----------------------------------------------------------------------------
\* Resolution precedence.

Declaring(r, id) == {l \in SetName : r[l].entries[id] # None}

(***************************************************************************)
(* resolveDeclared: the bundled presets win; otherwise the most recent     *)
(* producer that declares the id.                                          *)
(***************************************************************************)
Resolved(r, id) ==
  IF r[Bundled].entries[id] # None THEN r[Bundled].entries[id]
  ELSE IF Declaring(r, id) = {} THEN None
  ELSE LET winner == CHOOSE l \in Declaring(r, id) :
                       \A k \in Declaring(r, id) : r[k].seq <= r[l].seq
       IN  r[winner].entries[id]

\* The row says something else than its default: `personaOverridden`.
Overridden(id) ==
  /\ doc.list[id] # None
  /\ Resolved(registry, id) # None
  /\ doc.list[id] # Resolved(registry, id)

\* The registry with one producer's slice replaced, or dropped.
Declared(r, label, entries, seq) ==
  [r EXCEPT ![label] = IF entries = NoRows THEN NoSlice
                       ELSE [seq |-> seq, entries |-> entries]]

\* Mutant: the row follows whoever declares, not the producer that wins.
TrackDeclarer(rows, prior, incoming, entries) ==
  [id \in Role |->
     IF entries[id] = None THEN rows[id]
     ELSE IF rows[id] = None \/ rows[id] = prior[id] THEN entries[id]
     ELSE rows[id]]

\* Mutant: a row that differs from its default is brought back to it.
TrackAll(rows, prior, incoming, entries) ==
  [id \in Role |-> IF entries[id] = None THEN rows[id] ELSE incoming[id]]

(***************************************************************************)
(* materialize: a missing row is appended, a row at the previous default   *)
(* follows to the new one, every other row stays.                          *)
(***************************************************************************)
Materialized(rows, prior, incoming, entries) ==
  [id \in Role |->
     IF entries[id] = None THEN rows[id]
     ELSE IF rows[id] = None \/ rows[id] = prior[id] THEN incoming[id]
     ELSE rows[id]]

Defaults(r) == [id \in Role |-> Resolved(r, id)]

FollowsDefault(id) == doc.list[id] \in {None, Resolved(registry, id)}

-----------------------------------------------------------------------------
\* Declare.

Issue(by, roles) == queue' = Append(queue, [by |-> by, roles |-> roles])

\* The declared ids no longer overridden once the registry is r.
Settled(r, rows) == {id \in Role : rows[id] = Resolved(r, id)}

\* Mutant: the number the candidate was computed with.
CandidateSeq(c) == call[c].seq

\* The sequence number a slice is committed with.
CommitSeq(c) == declareSeq + 1

(***************************************************************************)
(* The head of declare, up to its await or, when nothing changes, to its   *)
(* end.  Without a write channel a declare that needs one throws, which    *)
(* changes nothing.                                                        *)
(***************************************************************************)
Declare(c, label, entries) ==
  LET candidate == Declared(registry, label, entries, declareSeq + 1)
      list == Materialized(doc.list, Defaults(registry), Defaults(candidate), entries)
      request == [pc |-> "declaring", label |-> label, entries |-> entries,
                  seq |-> declareSeq + 1,
                  atDefault |-> {id \in Role : entries[id] # None /\ FollowsDefault(id)},
                  asRead |-> Role, rulesAsRead |-> TRUE]
  IN  /\ call[c].pc = "idle"
      /\ declareSeq < MaxSeq
      /\ \/ /\ list = doc.list
            /\ registry' = candidate
            /\ declareSeq' = IF entries = NoRows THEN declareSeq ELSE declareSeq + 1
            /\ edited' = edited \ Settled(registry', doc.list)
            /\ UNCHANGED <<queue, call>>
         \/ /\ list # doc.list
            /\ channel
            /\ Len(queue) < MaxInFlight
            /\ Issue(c, [doc EXCEPT !.list = list])
            /\ call' = [call EXCEPT ![c] = request]
            /\ UNCHANGED <<registry, declareSeq, edited>>
      /\ UNCHANGED <<doc, channel>>

\* A companion plugin calls declareSeeds.
CompanionDeclares(c) ==
  /\ \E label \in SetName, entries \in Batch : Declare(c, label, entries)
  /\ UNCHANGED presetDue

\* The preset child of apply() fires once per activation of the settings child.
PresetsDeclare(c) ==
  /\ presetDue
  /\ presetDue' = FALSE
  /\ Declare(c, Bundled, Preset)

\* `presets: 'none'` at fire time, or a preset declare that throws.
PresetsSkipped ==
  /\ presetDue
  /\ presetDue' = FALSE
  /\ UNCHANGED <<doc, queue, registry, declareSeq, channel, call, edited>>

\* The continuation of declare: the slice is committed.
CommitDeclare(c) ==
  /\ call[c].pc = "declared"
  /\ declareSeq < MaxSeq
  /\ registry' = Declared(registry, call[c].label, call[c].entries, CommitSeq(c))
  /\ declareSeq' = IF call[c].entries = NoRows THEN declareSeq ELSE declareSeq + 1
  /\ call' = [call EXCEPT ![c] = Idle]
  /\ edited' = edited \ Settled(registry', doc.list)
  /\ UNCHANGED <<doc, queue, channel, presetDue>>

-----------------------------------------------------------------------------
\* Revert, the operator, and the host.

(***************************************************************************)
(* revert: an undeclared id, a missing row and a row at its default write  *)
(* nothing.                                                                *)
(***************************************************************************)
Revert(c, id) ==
  /\ call[c].pc = "idle"
  /\ Overridden(id)
  /\ channel
  /\ Len(queue) < MaxInFlight
  /\ Issue(c, [doc EXCEPT !.list[id] = Resolved(registry, id)])
  /\ call' = [call EXCEPT ![c] = [Idle EXCEPT !.pc = "reverting"]]
  /\ UNCHANGED <<doc, registry, declareSeq, channel, presetDue, edited>>

RevertReturns(c) ==
  /\ call[c].pc = "reverted"
  /\ call' = [call EXCEPT ![c] = Idle]
  /\ UNCHANGED <<doc, queue, registry, declareSeq, channel, presetDue, edited>>

\* The gateway's set: a row rewritten, removed or added, or the rules edited.
OperatorSets ==
  /\ channel
  /\ Len(queue) < MaxInFlight
  /\ \E roles \in {[doc EXCEPT !.list[id] = persona] : id \in Role, persona \in Maybe}
                    \union {[doc EXCEPT !.rules = @ + 1]} :
        /\ roles # doc
        /\ roles.rules <= MaxRules
        /\ Issue(Operator, roles)
  /\ UNCHANGED <<doc, registry, declareSeq, channel, presetDue, call, edited>>

\* The gateway's reset: the section is cleared, the composition defaults stay.
OperatorResets ==
  /\ channel
  /\ Len(queue) < MaxInFlight
  /\ Issue(Operator, [list |-> NoRows, rules |-> 0])
  /\ UNCHANGED <<doc, registry, declareSeq, channel, presetDue, call, edited>>

\* The row's persona is what this write changes.
Rewritten(roles) == {id \in Role : roles.list[id] # doc.list[id]}

\* The rows an operator's write leaves with a persona of the operator's own.
Departing(roles) ==
  {id \in Rewritten(roles) : roles.list[id] \notin {None, Resolved(registry, id)}}

\* What a call in progress knows of the rows after a write of somebody else.
Overtaken(c, roles) ==
  [call[c] EXCEPT !.atDefault = @ \ Rewritten(roles),
                  !.asRead = @ \ Rewritten(roles),
                  !.rulesAsRead = @ /\ roles.rules = doc.rules]

\* The call whose write was committed.
Answered(c) ==
  IF call[c].pc = "declaring" THEN [call[c] EXCEPT !.pc = "declared"]
  ELSE [Idle EXCEPT !.pc = "reverted"]

(***************************************************************************)
(* The host commits the oldest write.  The promise of the call that issued *)
(* it resolves.                                                            *)
(***************************************************************************)
HostCommits ==
  /\ queue # <<>>
  /\ LET w == Head(queue)
     IN  /\ doc' = w.roles
         /\ call' = [c \in Call |->
                       IF c = w.by THEN Answered(c) ELSE Overtaken(c, w.roles)]
         /\ edited' = IF w.by = Operator
                      THEN (edited \ Rewritten(w.roles)) \union Departing(w.roles)
                      ELSE edited \ Rewritten(w.roles)
  /\ queue' = Tail(queue)
  /\ UNCHANGED <<registry, declareSeq, channel, presetDue>>

\* A rejected write: the promise rejects, declare and revert throw.
HostRejects ==
  /\ queue # <<>>
  /\ call' = [c \in Call |-> IF c = Head(queue).by THEN Idle ELSE call[c]]
  /\ queue' = Tail(queue)
  /\ UNCHANGED <<doc, registry, declareSeq, channel, presetDue, edited>>

-----------------------------------------------------------------------------
\* The plugin's life.

\* The settings service appears: the children bind the channel and fire.
SettingsAppear ==
  /\ ~channel
  /\ channel' = TRUE /\ presetDue' = TRUE
  /\ UNCHANGED <<doc, queue, registry, declareSeq, call, edited>>

\* It goes away; the preset child goes with it.
SettingsVanish ==
  /\ channel
  /\ channel' = FALSE /\ presetDue' = FALSE
  /\ UNCHANGED <<doc, queue, registry, declareSeq, call, edited>>

\* The host stops: the rows survive, registry, calls and open writes do not.
Restart ==
  /\ registry' = [l \in Label |-> NoSlice]
  /\ declareSeq' = 0
  /\ queue' = <<>>
  /\ call' = [c \in Call |-> Idle]
  /\ channel' = FALSE /\ presetDue' = FALSE
  /\ UNCHANGED <<doc, edited>>

Next ==
  \/ \E c \in Call : \/ CompanionDeclares(c)
                     \/ PresetsDeclare(c)
                     \/ CommitDeclare(c)
                     \/ \E id \in Role : Revert(c, id)
                     \/ RevertReturns(c)
  \/ PresetsSkipped
  \/ OperatorSets \/ OperatorResets
  \/ HostCommits \/ HostRejects
  \/ SettingsAppear \/ SettingsVanish \/ Restart

Spec == Init /\ [][Next]_vars

-----------------------------------------------------------------------------
\* What must hold.

(***************************************************************************)
(* The most recent producer is decidable: no two live slices of companions *)
(* carry one sequence number, although concurrent declares compute their   *)
(* candidates with the same one (seeds.ts, declareSeq).                    *)
(***************************************************************************)
MostRecentIsDecidable ==
  \A k, l \in SetName :
     (registry[k] # NoSlice /\ registry[k].seq = registry[l].seq) => k = l

\* The host commits a write that a call of declare or of revert issued.
SeedsLand == /\ queue # <<>> /\ queue' = Tail(queue)
             /\ Head(queue).by # Operator
             /\ doc' = Head(queue).roles

DeclareLands == SeedsLand /\ call[Head(queue).by].pc = "declaring"

(***************************************************************************)
(* The seeds never take from the operator what they could read: a declare  *)
(* that materialises its batch, whenever its write is committed and        *)
(* whatever was written meanwhile, removes no row, rewrites no persona     *)
(* that the operator chose against the default, and changes no rules, as   *)
(* far as they stand as the declare read them (materialize of seeds.ts,    *)
(* "operator override preserved").  What was written between the reading   *)
(* and the commit is lost: RulesUntouched.                                 *)
(***************************************************************************)
OperatorIsKept ==
  [][DeclareLands =>
       LET read == call[Head(queue).by]
       IN  /\ read.rulesAsRead => doc'.rules = doc.rules
           /\ \A id \in read.asRead : doc.list[id] # None => doc'.list[id] # None
           /\ \A id \in edited \intersect read.asRead : doc'.list[id] = doc.list[id]]_vars

(***************************************************************************)
(* What the seam of the seed manager promises (seedsIo of gateway.ts: both *)
(* arrays are computed from a fresh read, so that the write never touches  *)
(* operator rules): no write of the seeds, when the host commits it,       *)
(* changes the rules of the operator.                                      *)
(***************************************************************************)
RulesUntouched == [][SeedsLand => doc'.rules = doc.rules]_vars

(***************************************************************************)
(* Rows follow the resolution winner: when a declare has committed and no  *)
(* other producer's declare did since it was called, every row of its      *)
(* batch that followed its default before, and that nobody else has        *)
(* written since, stands at the default that holds now (seeds.ts, F-001:   *)
(* row persona, badge, seedPersona and revert target stay mutually         *)
(* consistent).                                                            *)
(***************************************************************************)
DefaultRowsFollow ==
  [][\A c \in Call : CommitDeclare(c) /\ call[c].seq = declareSeq + 1 =>
       \A id \in call[c].atDefault :
          doc.list[id] # None => doc.list[id] = Resolved(registry', id)]_vars
=============================================================================
