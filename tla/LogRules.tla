------------------------------ MODULE LogRules ------------------------------
(***************************************************************************)
(* The repair rules of scripts/session-logs/rules.ts over one parsed       *)
(* session log, and the released restore (scripts/session-logs/catalog.ts) *)
(* that has the last word on every log.                                    *)
(*                                                                         *)
(* A log is a header, of which only the seed cut matters, and rows.  An    *)
(* event has a position in the log's event stream; a row stands for one    *)
(* event, a packed run for several, and declares the position of its       *)
(* first.  Members of rows that no rule reads or writes are left out, and  *)
(* so are the texts of refusals.                                           *)
(***************************************************************************)
EXTENDS Integers, Sequences, FiniteSets, FiniteSetsExt, SequencesExt, Selections

CONSTANT None

Legacy == "fallbacks/switch"
Descriptor == "subagent/descriptor"
RowType == {"message", "packed", Descriptor, Legacy, "unknown", "turn/end"}

RefusalClass == {"ok", "source-kind", "subagent-descriptor-version",
                 "unknown-event-type", "other-refusal", "decompress-failed"}
Rule == {"source-kind", "subagent-descriptor-version", "fallbacks-switch",
         "drop-legacy-events"}
RefusalReason == {"other", "reference-integrity", "seed-cut"}

\* None is undefined, and no text.
ASSUME NoneAssumption == None \notin RefusalClass \union Rule \union RefusalReason \union {"team"}

-----------------------------------------------------------------------------
(* Message sources: rule source-kind *)

\* kind "user" stands for the released kinds other than plugin, "team" for
\* the kinds outside the vocabulary; `plugin` is the id of a plugin source.
Source == [kind : {"user", "plugin", "team", "compact", None},
           plugin : {"team", None},
           form : {"notice", "snapshot", "relay", "odd", None},
           summary : {"text", "bad", None}, sections : {"named", "bad", None}]

IsReleasedSourceKind(kind) == kind \in {"user", "plugin"}

RewriteRefused(s) ==
  \/ s.kind \in {None, "compact"}
  \/ s.form = "odd"
  \/ s.summary # None /\ ~(s.form = "notice" /\ s.summary = "text")
  \/ s.sections # None /\ ~(s.form = "snapshot" /\ s.sections = "named")
  \/ s.form = "snapshot" /\ s.sections = None
  \/ s.form = "notice" /\ s.summary = None

ToPluginSource(s) == [s EXCEPT !.kind = "plugin", !.plugin = s.kind]

\* The released plugin arm: without a form it looks no further.
PluginSourceValue(s) ==
  /\ s.plugin # None
  /\ \/ s.form = None
     \/ s.form = "relay" /\ s.summary = None /\ s.sections = None
     \/ s.form = "notice" /\ s.summary = "text" /\ s.sections = None
     \/ s.form = "snapshot" /\ s.sections = "named" /\ s.summary = None

-----------------------------------------------------------------------------
(* Subagent descriptors: rule subagent-descriptor-version *)

DescriptorKey == {"provider", "label", "agentProvider", "agentModel",
                  "toolFilter", "odd"}
\* "empty" is the empty string, "bad" a value of another type.
DescriptorValue == {"text", "empty", "bad", None}

DescriptorV3Keys(mode) ==
  IF mode = "one-shot" THEN {"provider", "label"} ELSE DescriptorKey \ {"odd"}

DescriptorAdmissible(d) ==
  LET Given == {k \in DescriptorKey : d.keys[k] # None}
  IN /\ d.mode \in {"one-shot", "continuable"}
     /\ Given \subseteq DescriptorV3Keys(d.mode)
     /\ d.keys["provider"] = "text"
     /\ IF d.mode = "one-shot" THEN d.keys["label"] # "bad"
        ELSE /\ d.keys["label"] = "text"
             /\ \A k \in {"agentProvider", "agentModel", "toolFilter"} :
                  d.keys[k] \in {"text", None}
             /\ (d.keys["agentProvider"] = None) = (d.keys["agentModel"] = None)

\* Mutant: the bump looks at the version alone.
BumpRefusedByVersion(d) == d.version \notin {1, 2}

BumpRefused(d) == d.version \notin {1, 2} \/ ~DescriptorAdmissible(d)

-----------------------------------------------------------------------------
(* Rows, positions, references *)

\* len is the length of a packed run's payload, 0 when it is malformed.  Only a
\* message has sources.  A reference names all positions from its first to its
\* second component; a pair the other way round is none.
Row == {row \in [type : RowType, seq : Int, len : Nat, sources : Seq(Source),
                 descriptor : [version : 1..4, mode : {"one-shot", "continuable", "odd"},
                               keys : [DescriptorKey -> DescriptorValue]],
                 refs : SUBSET (Int \X Int)] :
          /\ row.sources # <<>> => row.type = "message"
          /\ \A r \in row.refs : r[1] <= r[2]}
Log == [seed : Nat, rows : Seq(Row)]

IsForeign(s) == ~IsReleasedSourceKind(s.kind)
ForeignSources(row) == {s \in ToSet(row.sources) : IsForeign(s)}
IsRemovableLegacyEvent(row) == row.type = Legacy
RowEventCount(row) == IF row.type = "packed" THEN row.len ELSE 1

\* The position of row i's first event, and of the event after the last row.
Position(rows, i) ==
  LET at[j \in 1..(Len(rows) + 1)] ==
        IF j = 1 THEN 0 ELSE at[j - 1] + RowEventCount(rows[j - 1])
  IN at[i]

DenselyNumbered(rows) ==
  \A i \in DOMAIN rows :
    RowEventCount(rows[i]) > 0 /\ rows[i].seq = Position(rows, i)

DroppedBefore(dropped, seq) == Cardinality({d \in dropped : d < seq})
Shifted(dropped, seq) == seq - DroppedBefore(dropped, seq)

-----------------------------------------------------------------------------
(* The opt-in rule drop-legacy-events *)

\* The places of the rows that are kept, and these rows.
Kept(rows) ==
  Among([i \in DOMAIN rows |-> i], {i \in DOMAIN rows : ~IsRemovableLegacyEvent(rows[i])})
LegacyDropSplit(rows) == [k \in DOMAIN Kept(rows) |-> rows[Kept(rows)[k]]]
DroppedPositions(rows) ==
  {Position(rows, i) : i \in {j \in DOMAIN rows : IsRemovableLegacyEvent(rows[j])}}

\* Mutant: the ends of a reference stand for the positions between them.
EndsDropped(row, dropped) == \E r \in row.refs : r[1] \in dropped \/ r[2] \in dropped

NamesDropped(row, dropped) ==
  \E r \in row.refs : \E d \in dropped : r[1] <= d /\ d <= r[2]

\* A remapped reference must still name an earlier surviving event.
NamesLater(row, dropped) ==
  \E r \in row.refs : \E v \in {r[1], r[2]} :
    Shifted(dropped, v) >= Shifted(dropped, row.seq)

RenumberRow(row, dropped) ==
  [row EXCEPT !.seq = Shifted(dropped, @),
              !.refs = {<<Shifted(dropped, r[1]), Shifted(dropped, r[2])>> : r \in @}]

Renumbered(rows) ==
  LET kept == LegacyDropSplit(rows)
      dropped == DroppedPositions(rows)
  IN [i \in DOMAIN kept |-> RenumberRow(kept[i], dropped)]

\* The gate of renumberSurvivingEvents, in its order; None lets the log pass.
RenumberRefusal(log) ==
  LET kept == ToSet(LegacyDropSplit(log.rows))
      dropped == DroppedPositions(log.rows)
  IN IF ~DenselyNumbered(log.rows) THEN "other"
     ELSE IF \E row \in kept : NamesDropped(row, dropped) THEN "reference-integrity"
     ELSE IF \E d \in dropped : d < log.seed THEN "seed-cut"
     ELSE IF \E row \in kept : NamesLater(row, dropped) THEN "reference-integrity"
     ELSE IF ~DenselyNumbered(Renumbered(log.rows)) THEN "other"
     ELSE None

RenumberedEventCount(rows) ==
  LET moved == {i \in DOMAIN rows :
                  /\ ~IsRemovableLegacyEvent(rows[i])
                  /\ Shifted(DroppedPositions(rows), rows[i].seq) # rows[i].seq}
      Count(i) == RowEventCount(rows[i])
  IN MapThenSumSet(Count, moved)

-----------------------------------------------------------------------------
(* The registry *)

BuiltInRules == <<"source-kind", "subagent-descriptor-version", "fallbacks-switch">>

PolicyRules(drop) ==
  IF ~drop THEN BuiltInRules
  ELSE <<"drop-legacy-events", "source-kind", "subagent-descriptor-version">>

ClassOf(rule) ==
  IF rule \in {"fallbacks-switch", "drop-legacy-events"} THEN "unknown-event-type"
  ELSE rule

Detects(rule, row) ==
  CASE rule = "source-kind" -> ForeignSources(row) # {}
    [] rule = "subagent-descriptor-version" ->
         row.type = Descriptor /\ row.descriptor.version # 3
    [] OTHER -> IsRemovableLegacyEvent(row)

Repairable(rule, rows) ==
  CASE rule = "fallbacks-switch" -> FALSE
    [] rule = "drop-legacy-events" -> \E r \in ToSet(rows) : IsRemovableLegacyEvent(r)
    [] OTHER -> TRUE

RepairableClasses(rules, rows) ==
  {ClassOf(rule) : rule \in {r \in ToSet(rules) : Repairable(r, rows)}}

NormalizeRow(rule, row) ==
  IF rule = "source-kind"
  THEN [row EXCEPT !.sources =
         [i \in DOMAIN @ |-> IF IsForeign(@[i]) THEN ToPluginSource(@[i]) ELSE @[i]]]
  ELSE IF Detects("subagent-descriptor-version", row)
       THEN [row EXCEPT !.descriptor.version = 3] ELSE row

\* None, or the reason for which a rule refuses the whole log.
NormalizeRefusal(rule, log) ==
  CASE rule = "source-kind" ->
         IF \E r \in ToSet(log.rows) : \E s \in ForeignSources(r) : RewriteRefused(s)
         THEN "other" ELSE None
    [] rule = "subagent-descriptor-version" ->
         IF \E r \in ToSet(log.rows) : Detects(rule, r) /\ BumpRefused(r.descriptor)
         THEN "other" ELSE None
    [] rule = "fallbacks-switch" ->
         IF \E r \in ToSet(log.rows) : Detects(rule, r) THEN "other" ELSE None
    [] OTHER -> RenumberRefusal(log)

Normalize(rule, log) ==
  CASE rule = "drop-legacy-events" -> [log EXCEPT !.rows = Renumbered(@)]
    [] rule = "fallbacks-switch" -> log
    [] OTHER -> [log EXCEPT !.rows = [i \in DOMAIN @ |-> NormalizeRow(rule, @[i])]]

\* All or nothing: the first rule that refuses ends the chain.
Unproven(log) == [refused |-> None, reason |-> None, log |-> log, dropped |-> 0]
ProofStep(acc, rule) ==
  LET reason == NormalizeRefusal(rule, acc.log)
  IN IF acc.refused # None THEN acc
     ELSE IF reason # None THEN [acc EXCEPT !.refused = rule, !.reason = reason]
     ELSE [acc EXCEPT !.log = Normalize(rule, acc.log),
                      !.dropped = IF rule = "drop-legacy-events"
                                  THEN Len(acc.log.rows) - Len(LegacyDropSplit(acc.log.rows))
                                  ELSE @]
RunProof(log, rules) ==
  LET after[n \in 0..Len(rules)] ==
        IF n = 0 THEN Unproven(log) ELSE ProofStep(after[n - 1], rules[n])
  IN after[Len(rules)]

\* The first row with a refusal decides, and in it the first rule.
ClassifyRows(rows, rules) ==
  LET Hit(i) == {k \in DOMAIN rules : Detects(rules[k], rows[i])}
      hits == {i \in DOMAIN rows : Hit(i) # {}}
  IN IF hits = {} THEN "ok" ELSE ClassOf(rules[Min(Hit(Min(hits)))])

-----------------------------------------------------------------------------
(* The released restore: the host's, known from how the scripts use it *)

\* What no rule of the registry is about: of a descriptor of an older version, its
\* keys are what the bump rule looks at.
OtherFault(rows, i) ==
  LET row == rows[i]
  IN \/ RowEventCount(row) = 0 \/ row.seq # Position(rows, i)
     \/ \E r \in row.refs : r[1] < 0 \/ r[2] >= row.seq
     \/ /\ row.type = Descriptor /\ row.descriptor.version = 3
        /\ ~DescriptorAdmissible(row.descriptor)
     \/ \E s \in ToSet(row.sources) : s.kind = "plugin" /\ ~PluginSourceValue(s)

ReleasedRowRefusal(rows, i) ==
  LET row == rows[i]
  IN CASE row.type \in {Legacy, "unknown"} -> "unknown-event-type"
       [] row.type = Descriptor /\ row.descriptor.version # 3 ->
            "subagent-descriptor-version"
       [] ForeignSources(row) # {} -> "source-kind"
       [] OtherFault(rows, i) -> "other-refusal"
       [] OTHER -> "ok"

RefusedRows(rows) == {i \in DOMAIN rows : ReleasedRowRefusal(rows, i) # "ok"}

\* Strict recovery stops at the first refusal.
RestoreStrictly(rows) ==
  IF RefusedRows(rows) = {} THEN "ok" ELSE ReleasedRowRefusal(rows, Min(RefusedRows(rows)))

\* Recoverable recovery drops the rows after the first refusal, until the end
\* of a turn brings the refusal up.
RestoreLeniently(rows) ==
  IF \E i \in DOMAIN rows :
       rows[i].type = "turn/end" /\ \E j \in RefusedRows(rows) : j <= i
  THEN RestoreStrictly(rows) ELSE "ok"
=============================================================================
