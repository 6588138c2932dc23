----------------------------- MODULE LogTriage ------------------------------
(***************************************************************************)
(* What one run of scripts/repair-session-logs.ts says of one log and does *)
(* with it: analyzeLog, in the order of its early returns.  Files and      *)
(* concurrent runs are RepairRun's; here the log does not change.          *)
(***************************************************************************)
EXTENDS LogRules

\* The logs a session may hold, each with the command lines it is triaged by
\* and with what resolution and discovery found.
CONSTANT Cases

Option == [apply : BOOLEAN, class : RefusalClass \union {None}, drop : BOOLEAN,
           oracle : BOOLEAN, successor : {"none", "loads", "refused"}]

\* runRepair ends before any log when --apply has no catalog.
ASSUME TriageAssumption ==
  \A c \in Cases : c.log \in Log /\ c.opts \in Option /\ (c.opts.apply => c.opts.oracle)

VARIABLES
  log, opts,
  pc,        \* the part of analyzeLog that comes next
  refusal,   \* class of the first refusal
  proof,     \* what the selected rules made of the log
  outcome    \* LogOutcome

vars == <<log, opts, pc, refusal, proof, outcome>>

NoProof == Unproven(log)

Base == [class |-> "other-refusal", status |-> "unrepairable", selected |-> TRUE,
         truncated |-> FALSE, published |-> FALSE, already |-> FALSE, failed |-> FALSE,
         legacy |-> 0, dropped |-> 0, renumbered |-> 0, lossy |-> None]

LegacyEventCount == Len(log.rows) - Len(LegacyDropSplit(log.rows))
Report(status) == [Base EXCEPT !.class = refusal, !.status = status,
                               !.legacy = LegacyEventCount]

ReportRules == PolicyRules(opts.drop)
SelectedRules ==
  IF opts.class = None THEN ReportRules
  ELSE Among(ReportRules, {r \in ToSet(ReportRules) : ClassOf(r) = opts.class})
IsSelected == opts.class \in {None, refusal}

Return(o) == pc' = "done" /\ outcome' = o
Continue(at) == pc' = at /\ UNCHANGED outcome

\* The oracle's class of the log, and its strict verdict.
ClassifyWithCatalog == RestoreLeniently(log.rows)
StrictRefusalOf(rows) == RestoreStrictly(rows)

\* Bytes that do not decode, or rows that do not parse.
DecodeFails ==
  /\ pc = "decode"
  /\ Return([Base EXCEPT !.class = "decompress-failed"])
  /\ UNCHANGED <<log, opts, refusal, proof>>

Classify ==
  /\ pc = "decode"
  /\ refusal' = IF opts.oracle THEN ClassifyWithCatalog
                ELSE ClassifyRows(log.rows, ReportRules)
  /\ Continue("classified")
  /\ UNCHANGED <<log, opts, proof>>

ReportOk ==
  /\ pc = "classified" /\ refusal = "ok"
  /\ Return([Report("ok") EXCEPT
               !.truncated = opts.oracle /\ StrictRefusalOf(log.rows) # "ok"])
  /\ UNCHANGED <<log, opts, refusal, proof>>

NothingRepairs ==
  /\ pc = "classified" /\ refusal # "ok"
  /\ refusal \notin RepairableClasses(ReportRules, log.rows)
  /\ Return(Report("unrepairable"))
  /\ UNCHANGED <<log, opts, refusal, proof>>

\* The full policy decides what is repairable, the selected rules what is done.
Prove ==
  /\ pc = "classified" /\ refusal # "ok"
  /\ refusal \in RepairableClasses(ReportRules, log.rows)
  /\ LET full == RunProof(log, ReportRules)
         selected == RunProof(log, SelectedRules)
     IN /\ proof' = selected
        /\ IF full.refused # None
           THEN Return([Report("unrepairable") EXCEPT
                  !.lossy = IF full.refused = "drop-legacy-events" THEN full.reason ELSE None])
           ELSE IF \/ selected.refused # None
                   \/ full.dropped > 0 /\ selected.dropped = 0
           THEN Return([Report("repairable") EXCEPT !.selected = FALSE])
           ELSE Continue("proven")
  /\ UNCHANGED <<log, opts, refusal>>

LossyDropRefused ==
  \/ proof.dropped # LegacyEventCount
  \/ Len(log.rows) - Len(proof.log.rows) # LegacyEventCount
  \/ \E row \in ToSet(proof.log.rows) : IsRemovableLegacyEvent(row)
  \/ ~opts.oracle
  \/ RestoreStrictly(proof.log.rows) # "ok"

\* Before any write, and in report mode too, a drop is proven once more.
CheckDrop ==
  /\ pc = "proven"
  /\ IF proof.dropped > 0 /\ LossyDropRefused
     THEN Return([Report("unrepairable") EXCEPT !.lossy = "other"])
     ELSE Continue("settle")
  /\ UNCHANGED <<log, opts, refusal, proof>>

Counted(o) ==
  [o EXCEPT !.dropped = proof.dropped,
            !.renumbered = IF proof.dropped = 0 THEN 0 ELSE RenumberedEventCount(log.rows)]

\* Report mode believes a successor only when the oracle reads it.
ReportRepairable ==
  /\ pc = "settle" /\ ~opts.apply
  /\ Return(Counted([Report("repairable") EXCEPT
              !.selected = IsSelected,
              !.already = opts.oracle /\ opts.successor = "loads"]))
  /\ UNCHANGED <<log, opts, refusal, proof>>

LeaveUnselected ==
  /\ pc = "settle" /\ opts.apply /\ ~IsSelected
  /\ Return([Report("repairable") EXCEPT !.selected = FALSE])
  /\ UNCHANGED <<log, opts, refusal, proof>>

\* publishSuccessor restores what it is given before it writes; a successor
\* that is there already is accepted only when it has the same bytes.
Publish ==
  /\ pc = "settle" /\ opts.apply /\ IsSelected
  /\ RestoreStrictly(proof.log.rows) = "ok" /\ opts.successor # "refused"
  /\ Return(Counted([Report("repairable") EXCEPT
              !.published = TRUE, !.already = opts.successor = "loads"]))
  /\ UNCHANGED <<log, opts, refusal, proof>>

PublishFails ==
  /\ pc = "settle" /\ opts.apply /\ IsSelected
  /\ Return([Report("unrepairable") EXCEPT !.failed = TRUE])
  /\ UNCHANGED <<log, opts, refusal, proof>>

Init ==
  /\ \E c \in Cases : log = c.log /\ opts = c.opts
  /\ pc = "decode" /\ refusal = "ok"
  /\ proof = NoProof /\ outcome = Base

Next ==
  \/ DecodeFails \/ Classify \/ ReportOk \/ NothingRepairs \/ Prove \/ CheckDrop
  \/ ReportRepairable \/ LeaveUnselected \/ Publish \/ PublishFails

Spec == Init /\ [][Next]_vars

-----------------------------------------------------------------------------
(* Properties *)

\* An outcome counts as refused in the exit code unless the log loads (summarize).
CountsAsRefused(o) == o.status # "ok" /\ ~o.published /\ ~o.already

\* The rows a run publishes, or promises to publish, are the proof's.
Written ==
  /\ pc = "done"
  /\ outcome.published \/ (outcome.status = "repairable" /\ outcome.selected)

\* The event a position names: its row in the log as it was read, and which of
\* the row's events.  Surviving rows keep their order.
Survivors ==
  IF proof.dropped = 0 THEN [i \in DOMAIN log.rows |-> i]
  ELSE Kept(log.rows)
EventAt(rows, p) ==
  LET at == {i \in DOMAIN rows :
               Position(rows, i) <= p /\ p < Position(rows, i) + RowEventCount(rows[i])}
  IN {<<i, p - Position(rows, i)>> : i \in at}
SourceEventAt(p) == EventAt(log.rows, p)
WrittenEventAt(p) == {<<Survivors[e[1]], e[2]>> : e \in EventAt(proof.log.rows, p)}

\* When rows are removed and the survivors renumbered, every reference of a
\* surviving row names exactly the events it named before (the reference
\* integrity gate and the remap of renumberSurvivingEvents).
ReferencesKeepTheirEvents ==
  Written /\ proof.dropped > 0 =>
    \A j \in DOMAIN proof.log.rows :
      LET before == log.rows[Survivors[j]].refs
          after == proof.log.rows[j].refs
          Names(r) == UNION {SourceEventAt(p) : p \in r[1]..r[2]}
          NewNames(r) == UNION {WrittenEventAt(p) : p \in r[1]..r[2]}
      IN {Names(r) : r \in before} = {NewNames(r) : r \in after}

\* The events below the header's seed cut are the inherited ones, before and
\* after a repair.
InheritedEventsStay ==
  Written => \A p \in 0..(log.seed - 1) : WrittenEventAt(p) = SourceEventAt(p)

\* A chain that does not refuse leaves no row of a class it repairs, and what
\* it rewrote passes the released checks: a rewrite never trades one refusal
\* for another (toPluginSource and descriptorBumpRefusal of rules.ts).
RewritesAreAdmitted ==
  Written /\ opts.class = None =>
    \A i \in DOMAIN proof.log.rows :
      LET old == log.rows[Survivors[i]]
          new == proof.log.rows[i]
      IN /\ ReleasedRowRefusal(proof.log.rows, i) \notin
              {"source-kind", "subagent-descriptor-version"}
         /\ \A k \in DOMAIN new.sources :
              new.sources[k] # old.sources[k] => PluginSourceValue(new.sources[k])
         /\ new.descriptor # old.descriptor => DescriptorAdmissible(new.descriptor)

\* The reported number of dropped events is the number of events the written
\* successor lacks, and is not zero only with the opt-in.
LossIsCounted ==
  Written =>
    /\ Position(log.rows, Len(log.rows) + 1) - Position(proof.log.rows, Len(proof.log.rows) + 1)
         = outcome.dropped
    /\ outcome.dropped > 0 => opts.drop

\* A log the strict restore refuses never counts as loading without a word:
\* it is truncated, or a successor was published or read back.
NoRefusalIsHidden ==
  pc = "done" /\ opts.oracle /\ ~CountsAsRefused(outcome)
    => RestoreStrictly(log.rows) = "ok" \/ outcome.truncated
         \/ outcome.published \/ outcome.already

Promised ==
  /\ pc = "done" /\ ~opts.apply /\ opts.oracle
  /\ outcome.status = "repairable" /\ outcome.selected

\* What a report without a class filter calls repairable restores strictly
\* after the repair, when no row has a fault that no rule is about.  (A row
\* with two faults is refused for the first; the other shows after a repair.)
PlainPromiseIsKept ==
  Promised /\ opts.class = None
    /\ (\A i \in DOMAIN log.rows : log.rows[i].type # "unknown" /\ ~OtherFault(log.rows, i))
    => RestoreStrictly(proof.log.rows) = "ok"

\* The rows a repair writes are the log's: they name the events the log named, what a
\* fork inherited is where it was, and what was rewritten is admitted.
RepairIsFaithful ==
  ReferencesKeepTheirEvents /\ InheritedEventsStay /\ RewritesAreAdmitted

\* What a run says of a log is true of it: no refusal is passed over, no loss
\* uncounted, and a repair it promises can be performed.
ReportIsTrue == NoRefusalIsHidden /\ LossIsCounted /\ PlainPromiseIsKept

\* repair-session-logs.ts, on --class: the report never promises a repair the
\* same invocation would fail to perform.
PromiseIsKept == Promised => RestoreStrictly(proof.log.rows) = "ok"
=============================================================================
