---------------------------- MODULE SubagentPolicy ----------------------------
(***************************************************************************)
(* The host's subagent model-selection policy as the seam's mount gate and *)
(* the walk's switch filter read it: src/subagent-policy.ts, and the       *)
(* guarded read of src/index.ts that keeps the last proven snapshot of     *)
(* each agent.  The settings and the session events are the host's.        *)
(***************************************************************************)
EXTENDS Naturals, FiniteSets

CONSTANTS
  Agent,      \* child session ids; an id is asked about before its agent exists
  Route,
  MaxChanges  \* bound on the changes of the host's settings
ASSUME PolicyAssumption == MaxChanges \in Nat

VARIABLES
  settings,   \* the namespace row: Absent, Malformed or a snapshot
  event,      \* each session's policy event: Absent, Malformed or the routes it lists
  listed, \* the agents the registry finds
  lastKnown,  \* lastKnownPolicySettings: a snapshot, or Absent
  answer,     \* what policyFor last answered for each id: [state, allowed]
  proved,     \* history: the last snapshot a question about the id could read
  changes
policyVars == <<settings, event, listed, lastKnown, answer, proved, changes>>

Row(form, enabled, allowed) == [form |-> form, enabled |-> enabled, allowed |-> allowed]
Absent == Row("absent", FALSE, {})
Malformed == Row("malformed", FALSE, {})
Snapshot == {Row("snapshot", enabled, allowed) : enabled \in BOOLEAN, allowed \in SUBSET Route}
Listed == {Row("snapshot", TRUE, allowed) : allowed \in (SUBSET Route) \ {{}}}
Asked(state, allowed) == [state |-> state, allowed |-> allowed]
Unasked == Asked("unasked", {})

PolicyInit ==
  /\ settings \in {Absent, Malformed} \union Snapshot
  /\ event = [a \in Agent |-> Absent] /\ listed = {} /\ changes = 0
  /\ lastKnown = [a \in Agent |-> Absent] /\ proved = [a \in Agent |-> Absent]
  /\ answer = [a \in Agent |-> Unasked]

-----------------------------------------------------------------------------
\* readSubagentSettings, narrowed by policySettingsFrom: what throws is malformed.
Readable == settings.form = "snapshot"

\* The freshest successful read wins, one that says disabled among them.
Retained(a) == IF Readable THEN settings ELSE lastKnown[a]

\* Mutant: settings that are gone are off.
GuardedReadAbsent(a) ==
  [ok |-> settings # Malformed \/ lastKnown[a] # Absent,
   settings |-> IF settings = Absent THEN Absent ELSE Retained(a)]
\* readGuardedPolicySettings
GuardedRead(a) ==
  [ok |-> settings # Malformed \/ lastKnown[a] # Absent, settings |-> Retained(a)]

\* An enabled policy without routes proves nothing.
FromSettings(s) ==
  CASE ~s.enabled                 -> Asked("disabled", {})
    [] s.enabled /\ s.allowed = {} -> Asked("unprovable", {})
    [] OTHER                      -> Asked("enabled", s.allowed)

\* readSessionPolicyEvent: of an agent the registry does not find there are no events.
EventRead(a) == IF a \in listed THEN event[a] ELSE Absent

EffectivePolicy(read, s) ==
  CASE read = Absent    -> FromSettings(s)
    [] read = Malformed -> Asked("unprovable", {})
    [] OTHER            -> Asked("enabled", read.allowed)

\* policyFor: the question of a mount or of a switch.
PolicyFor(a) ==
  /\ answer' = [answer EXCEPT ![a] =
                  IF GuardedRead(a).ok THEN EffectivePolicy(EventRead(a), GuardedRead(a).settings)
                                       ELSE Asked("unprovable", {})]
  /\ lastKnown' = [lastKnown EXCEPT ![a] = Retained(a)]
  /\ proved' = [proved EXCEPT ![a] = IF Readable THEN settings ELSE @]
  /\ UNCHANGED <<settings, event, listed, changes>>

\* agent/disposed forgets the id; the session, and its event, outlive the agent.
AgentDisposed(a) ==
  /\ a \in listed /\ listed' = listed \ {a}
  /\ lastKnown' = [lastKnown EXCEPT ![a] = Absent] /\ proved' = [proved EXCEPT ![a] = Absent]
  /\ answer' = [answer EXCEPT ![a] = Unasked]
  /\ UNCHANGED <<settings, event, changes>>

-----------------------------------------------------------------------------
(* The host                                                                *)

AgentRegistered(a) ==
  /\ a \notin listed /\ listed' = listed \union {a}
  /\ UNCHANGED <<settings, event, lastKnown, answer, proved, changes>>

\* The event is written at most once per session; an empty list is malformed.
EventRecorded(a) ==
  /\ event[a] = Absent /\ a \in listed
  /\ \E e \in {Malformed} \union Listed : event' = [event EXCEPT ![a] = e]
  /\ UNCHANGED <<settings, listed, lastKnown, answer, proved, changes>>

SettingsChange ==
  /\ changes < MaxChanges /\ changes' = changes + 1
  /\ \E s \in ({Absent, Malformed} \union Snapshot) \ {settings} : settings' = s
  /\ UNCHANGED <<event, listed, lastKnown, answer, proved>>

PolicyNext ==
  \/ \E a \in Agent : PolicyFor(a) \/ AgentDisposed(a) \/ AgentRegistered(a) \/ EventRecorded(a)
  \/ SettingsChange

PolicySpec == PolicyInit /\ [][PolicyNext]_policyVars

-----------------------------------------------------------------------------
(* Properties                                                              *)

Admits(s) == IF s.enabled THEN s.allowed ELSE Route
Admitting(p) == IF p.state = "disabled" THEN Route ELSE p.allowed

\* A policy once proven enabled for an agent keeps constraining it while it lives:
\* whatever became of the settings since, no answer admits a route that the last
\* readable snapshot refuses, unless the session's own event lists it.
ProvenPolicyHolds(a) ==
  Admitting(answer'[a]) \subseteq
    (IF EventRead(a).form = "snapshot" THEN EventRead(a).allowed ELSE Admits(proved'[a]))

\* Fail-closed: settings that are garbled and were never read before, and a garbled
\* session event, read as "unprovable" and not as "off".
NothingProvenNothingAdmitted(a) ==
  (settings = Malformed /\ proved[a] = Absent) \/ EventRead(a) = Malformed
    => answer'[a].state = "unprovable"

\* The operator's word is heard: after a readable "disabled", an agent without an
\* event of its own is not held to an older, enabled snapshot.
DisabledIsHeard(a) ==
  EventRead(a) = Absent /\ proved'[a].form = "snapshot" /\ ~proved'[a].enabled
    => answer'[a].state = "disabled"

\* Every answer to a mount or a switch is the last proven word on the agent: no
\* failure to read the settings opens what was closed, closes what was opened, or
\* opens what was never decided.
PolicyIsLastProven ==
  [][\A a \in Agent : PolicyFor(a) =>
       ProvenPolicyHolds(a) /\ NothingProvenNothingAdmitted(a) /\ DisabledIsHeard(a)]_policyVars
=============================================================================
