---------------------------- MODULE Plugin_proofs -----------------------------
(***************************************************************************)
(* What holds around the walk and the seam, for any number of fibers,      *)
(* children, agents, routes and roles, and for logs of any length: the     *)
(* policy reader, the role badge, the singletons of a root and the persona *)
(* listeners.                                                              *)
(***************************************************************************)
EXTENDS PluginFibers, PersonaListeners, SubagentPolicy, RoleProjection, Inductions

-----------------------------------------------------------------------------
(* The policy reader.  lastKnownPolicySettings is what was last proven.    *)

PolicyTypeOK ==
  /\ settings \in {Absent, Malformed} \union Snapshot
  /\ event \in [Agent -> {Absent, Malformed} \union Listed]
  /\ lastKnown \in [Agent -> {Absent} \union Snapshot]
  /\ proved \in [Agent -> {Absent} \union Snapshot]
  /\ answer \in [Agent -> [state : {"unasked", "disabled", "unprovable", "enabled"},
                           allowed : SUBSET Route]]

PolicyInv == PolicyTypeOK /\ lastKnown = proved

\* A row of the settings is read as what its form says.
LEMMA RowForms ==
  /\ \A s \in Snapshot : s.form = "snapshot" /\ s.enabled \in BOOLEAN /\ s.allowed \in SUBSET Route
                         /\ s # Absent /\ s # Malformed
  /\ \A e \in Listed : e.form = "snapshot" /\ e.enabled /\ e.allowed \in SUBSET Route /\ e.allowed # {}
                         /\ e # Absent /\ e # Malformed
  /\ Absent.form = "absent" /\ Absent.enabled = FALSE /\ Absent.allowed = {}
  /\ Malformed.form = "malformed" /\ Malformed.allowed = {} /\ Malformed # Absent
<1>1. /\ Absent.form = "absent" /\ Absent.enabled = FALSE /\ Absent.allowed = {}
      /\ Malformed.form = "malformed" /\ Malformed.allowed = {}
  BY DEF Absent, Malformed, Row
<1>2. ASSUME NEW enabled \in BOOLEAN, NEW allowed \in SUBSET Route
      PROVE  LET s == Row("snapshot", enabled, allowed)
             IN  s.form = "snapshot" /\ s.enabled = enabled /\ s.allowed = allowed
  BY DEF Row
<1>3. \A s \in Snapshot : s.form = "snapshot" /\ s.enabled \in BOOLEAN /\ s.allowed \in SUBSET Route
  BY <1>2 DEF Snapshot
<1>4. \A e \in Listed : e.form = "snapshot" /\ e.enabled /\ e.allowed \in SUBSET Route /\ e.allowed # {}
  <2>1. ASSUME NEW e \in Listed
        PROVE  \E allowed \in (SUBSET Route) \ {{}} : e = Row("snapshot", TRUE, allowed)
    BY DEF Listed
  <2>2. QED
    BY <2>1 DEF Row
<1>5. QED
  BY <1>1, <1>3, <1>4

\* What an agent is judged by is the settings when they can be read, and the last
\* proven snapshot otherwise.
LEMMA RetainedIsProved ==
  ASSUME PolicyInv, NEW a \in Agent, PolicyFor(a)
  PROVE  /\ proved'[a] = Retained(a)
         /\ Retained(a) \in {Absent} \union Snapshot
         /\ Readable => Retained(a) = settings
         /\ ~Readable => Retained(a) = proved[a] /\ settings \in {Absent, Malformed}
BY RowForms DEF PolicyInv, PolicyTypeOK, PolicyFor, Retained, Readable

\* What a policy is made of: the host's event before the settings, and settings that are
\* on without a route as nothing proven.
LEMMA EffectiveIs ==
  ASSUME NEW read \in {Absent, Malformed} \union Listed, NEW s \in {Absent} \union Snapshot
  PROVE  LET p == EffectivePolicy(read, s)
         IN  /\ p \in [state : {"disabled", "unprovable", "enabled"}, allowed : SUBSET Route]
             /\ read = Absent /\ ~s.enabled => p.state = "disabled"
             /\ read = Absent /\ s.enabled => p.state # "disabled" /\ p.allowed = s.allowed
             /\ read = Malformed => p.state = "unprovable" /\ p.allowed = {}
             /\ read \in Listed => p.state = "enabled" /\ p.allowed = read.allowed
<1>1. s.enabled \in BOOLEAN /\ s.allowed \in SUBSET Route
  BY RowForms
<1>2. /\ ~s.enabled => FromSettings(s) = Asked("disabled", {})
      /\ s.enabled /\ s.allowed = {} => FromSettings(s) = Asked("unprovable", {})
      /\ s.enabled /\ s.allowed # {} => FromSettings(s) = Asked("enabled", s.allowed)
  BY <1>1 DEF FromSettings
<1>3. CASE read = Absent
  <2>1. EffectivePolicy(read, s) = FromSettings(s) /\ read # Malformed /\ read \notin Listed
    BY <1>3, RowForms DEF EffectivePolicy
  <2>2. QED
    BY <1>1, <1>2, <2>1 DEF Asked
<1>4. CASE read = Malformed
  BY <1>4, RowForms DEF EffectivePolicy, Asked
<1>5. CASE read \in Listed
  <2>1. EffectivePolicy(read, s) = Asked("enabled", read.allowed)
    BY <1>5, RowForms DEF EffectivePolicy
  <2>2. QED
    BY <1>5, <2>1, RowForms DEF Asked
<1>6. QED
  BY <1>3, <1>4, <1>5

\* The answer for the agent asked about.
LEMMA AnswerGiven ==
  ASSUME PolicyInv, NEW a \in Agent, PolicyFor(a)
  PROVE  answer'[a] = IF GuardedRead(a).ok
                      THEN EffectivePolicy(EventRead(a), Retained(a))
                      ELSE Asked("unprovable", {})
BY DEF PolicyInv, PolicyTypeOK, PolicyFor, GuardedRead

\* What the host's own event is read as.
LEMMA EventForms ==
  ASSUME PolicyInv, NEW a \in Agent
  PROVE  EventRead(a) \in {Absent, Malformed} \union Listed
BY DEF PolicyInv, PolicyTypeOK, EventRead

\* A step keeps what is known of an agent equal to what was proven for it.
LEMMA PolicyStep ==
  ASSUME PolicyInv, [PolicyNext]_policyVars
  PROVE  PolicyInv'
<1>1. CASE UNCHANGED policyVars
  BY <1>1 DEF policyVars, PolicyInv, PolicyTypeOK
<1>2. ASSUME NEW a \in Agent, PolicyFor(a)
      PROVE  PolicyInv'
  <2>1. lastKnown' = proved'
    BY <1>2 DEF PolicyInv, PolicyTypeOK, PolicyFor, Retained
  <2>2. Retained(a) \in {Absent} \union Snapshot
    BY <1>2, RetainedIsProved
  <2>3. answer'[a] \in [state : {"unasked", "disabled", "unprovable", "enabled"},
                        allowed : SUBSET Route]
    <3>1. EffectivePolicy(EventRead(a), Retained(a)) \in
            [state : {"disabled", "unprovable", "enabled"}, allowed : SUBSET Route]
      BY <2>2, EventForms, EffectiveIs
    <3>2. QED
      BY <1>2, <3>1, AnswerGiven DEF Asked
  <2>4. /\ answer' = [answer EXCEPT ![a] = answer'[a]]
        /\ lastKnown' = [lastKnown EXCEPT ![a] = Retained(a)]
        /\ UNCHANGED <<settings, event>>
    BY <1>2 DEF PolicyInv, PolicyTypeOK, PolicyFor
  <2>5. QED
    BY <2>1, <2>2, <2>3, <2>4 DEF PolicyInv, PolicyTypeOK
<1>3. ASSUME NEW a \in Agent, AgentDisposed(a)
      PROVE  PolicyInv'
  BY <1>3 DEF PolicyInv, PolicyTypeOK, AgentDisposed, Unasked, Asked
<1>4. ASSUME NEW a \in Agent, AgentRegistered(a) \/ EventRecorded(a)
      PROVE  PolicyInv'
  BY <1>4 DEF PolicyInv, PolicyTypeOK, AgentRegistered, EventRecorded
<1>5. CASE SettingsChange
  BY <1>5 DEF PolicyInv, PolicyTypeOK, SettingsChange
<1>6. QED
  BY <1>1, <1>2, <1>3, <1>4, <1>5 DEF PolicyNext

\* Whatever the host's settings and events do, every answer is the last proven word on the
\* agent: a policy that was proven keeps constraining it, nothing proven admits nothing, and
\* a readable "disabled" is heard.
THEOREM PolicyAnswersProven == PolicySpec => PolicyIsLastProven
<1>1. PolicyInit => PolicyInv
  BY DEF PolicyInit, PolicyInv, PolicyTypeOK, Unasked, Asked
<1>2. PolicyInv /\ [PolicyNext]_policyVars => PolicyInv'
  BY PolicyStep
<1>3. ASSUME PolicyInv, NEW a \in Agent, PolicyFor(a)
      PROVE  ProvenPolicyHolds(a) /\ NothingProvenNothingAdmitted(a) /\ DisabledIsHeard(a)
  <2>1. /\ proved'[a] = Retained(a) /\ Retained(a) \in {Absent} \union Snapshot
        /\ EventRead(a) \in {Absent, Malformed} \union Listed
    BY <1>3, RetainedIsProved, EventForms
  <2>2. GuardedRead(a).ok <=> settings # Malformed \/ proved[a] # Absent
    BY <1>3 DEF GuardedRead, PolicyInv
  <2>3. ~GuardedRead(a).ok => answer'[a].state = "unprovable" /\ answer'[a].allowed = {}
    BY <1>3, AnswerGiven DEF Asked
  <2>4. GuardedRead(a).ok => answer'[a] = EffectivePolicy(EventRead(a), proved'[a])
    BY <1>3, <2>1, AnswerGiven
  <2>5. ProvenPolicyHolds(a)
    <3>1. CASE EventRead(a) \in Listed
      BY <2>1, <2>3, <2>4, <3>1, EffectiveIs, RowForms DEF ProvenPolicyHolds, Admitting
    <3>2. CASE EventRead(a) = Malformed
      BY <2>1, <2>3, <2>4, <3>2, EffectiveIs, RowForms DEF ProvenPolicyHolds, Admitting
    <3>3. CASE EventRead(a) = Absent
      BY <2>1, <2>3, <2>4, <3>3, EffectiveIs, RowForms DEF ProvenPolicyHolds, Admitting, Admits
    <3>4. QED
      BY <2>1, <3>1, <3>2, <3>3
  <2>6. NothingProvenNothingAdmitted(a)
    BY <2>1, <2>2, <2>3, <2>4, EffectiveIs DEF NothingProvenNothingAdmitted
  <2>7. DisabledIsHeard(a)
    <3>1. proved'[a].form = "snapshot" => GuardedRead(a).ok
      BY <1>3, <2>1, <2>2, RetainedIsProved, RowForms
    <3>2. QED
      BY <2>1, <2>4, <3>1, EffectiveIs DEF DisabledIsHeard
  <2>8. QED
    BY <2>5, <2>6, <2>7
<1>4. PolicyInv /\ [PolicyNext]_policyVars =>
        [\A a \in Agent : PolicyFor(a) =>
           ProvenPolicyHolds(a) /\ NothingProvenNothingAdmitted(a) /\ DisabledIsHeard(a)]_policyVars
  BY <1>3
<1>5. QED
  BY <1>1, <1>2, <1>4, PTL DEF PolicySpec, PolicyIsLastProven

-----------------------------------------------------------------------------
(* The role badge.  A fold is a recursive function, so that it has the     *)
(* values its definition says must be shown first, by the least length at  *)
(* which it would not.                                                     *)

StateType == [inheritedEventCount : Nat, role : Badge \union {NoRole, "null"}]

\* g folds events from `first` up to n.
Folds(g, s, events, first, n) ==
  g = [k \in first..n |-> IF k = first THEN s ELSE Apply(g[k - 1], events[k], k - 1)]

\* Every fold exists, from any state and for a log of any length.
LEMMA FoldExists ==
  ASSUME NEW s, NEW events, NEW first \in Nat, NEW last \in Nat, first <= last
  PROVE  \E g : Folds(g, s, events, first, last)
<1> DEFINE Bad == {n \in Nat : n >= first /\ ~ \E g : Folds(g, s, events, first, n)}
<1>1. SUFFICES ASSUME Bad # {} PROVE FALSE
  OBVIOUS
<1>2. PICK n \in Bad : \A m \in Bad : n <= m
  <2> HIDE DEF Bad
  <2>1. Bad \subseteq Nat
    BY DEF Bad
  <2>2. QED
    BY <1>1, <2>1, LeastNaturalExists
<1>3. CASE n = first
  <2>1. Folds([k \in first..n |-> s], s, events, first, n)
    BY <1>3 DEF Folds
  <2>2. QED
    BY <2>1
<1>4. CASE n # first
  <2>1. PICK g : Folds(g, s, events, first, n - 1)
    BY <1>2, <1>4
  <2> DEFINE h == [k \in first..n |-> IF k = n THEN Apply(g[n - 1], events[n], n - 1) ELSE g[k]]
  <2>2. \A k \in first..n : k # n => h[k] = g[k] /\ k \in first..(n - 1)
    BY <1>4
  <2>3. \A k \in first..n : h[k] = IF k = first THEN s ELSE Apply(h[k - 1], events[k], k - 1)
    <3> SUFFICES ASSUME NEW k \in first..n
                 PROVE  h[k] = IF k = first THEN s ELSE Apply(h[k - 1], events[k], k - 1)
      OBVIOUS
    <3>1. CASE k = n
      <4>1. n - 1 \in first..n /\ n - 1 # n
        BY <1>4
      <4>2. h[n - 1] = g[n - 1] /\ h[n] = Apply(g[n - 1], events[n], n - 1)
        BY <2>2, <4>1
      <4> HIDE DEF h
      <4>3. QED
        BY <1>4, <3>1, <4>2
    <3>2. CASE k # n
      <4>1. h[k] = g[k] /\ g[k] = IF k = first THEN s ELSE Apply(g[k - 1], events[k], k - 1)
        BY <2>1, <2>2, <3>2 DEF Folds
      <4>2. k # first => h[k - 1] = g[k - 1]
        BY <2>2, <3>2
      <4> HIDE DEF h
      <4>3. QED
        BY <4>1, <4>2
    <3>3. QED
      BY <3>1, <3>2
  <2>4. Folds(h, s, events, first, n)
    <3>1. h = [k \in first..n |-> h[k]]
      OBVIOUS
    <3> HIDE DEF h
    <3>2. QED
      BY <2>3, <3>1 DEF Folds
  <2>5. QED
    BY <2>4
<1>5. QED
  BY <1>3, <1>4

\* FoldFrom is the end of such a fold.
LEMMA FoldFromFolds ==
  ASSUME NEW s, NEW events, NEW first \in Nat, Len(events) \in Nat, first <= Len(events)
  PROVE  \E g : Folds(g, s, events, first, Len(events)) /\ FoldFrom(s, events, first) = g[Len(events)]
<1> DEFINE after == CHOOSE g : Folds(g, s, events, first, Len(events))
<1>1. Folds(after, s, events, first, Len(events))
  BY FoldExists
<1>2. FoldFrom(s, events, first) = after[Len(events)]
  BY DEF FoldFrom, Folds
<1>3. QED
  BY <1>1, <1>2

\* The notices a fold from `first` looks at.
Seen(s, events, first, n) ==
  {i \in (first + 1)..n : events[i].ours /\ i > s.inheritedEventCount}

\* What a state says of the notices `own`: the role of the last of them.
Says(s, events, own) ==
  /\ own = {} => View(s) = NoRole
  /\ \A i \in own : (\A j \in own : j <= i) => View(s) = events[i].role

\* An event that is ours names a role.
LEMMA EventIs ==
  ASSUME NEW e \in Event
  PROVE  /\ e.ours \in BOOLEAN
         /\ e.ours => e.role \in Badge /\ RoleFromEvent(e) = e.role /\ e.role # NoRole
         /\ ~e.ours => RoleFromEvent(e) = NoRole
<1>1. CASE e = Other
  BY <1>1 DEF Other, RoleFromEvent
<1>2. ASSUME NEW r \in Badge, e = Notice(r)
      PROVE  e.ours /\ e.role = r
  BY <1>2 DEF Notice
<1>3. QED
  BY <1>1, <1>2, ProjectionAssumption DEF Event, RoleFromEvent

\* One event changes the state when it is our own notice above the fork boundary.
LEMMA ApplyIs ==
  ASSUME NEW s \in StateType, NEW e \in Event, NEW seq \in Nat
  PROVE  /\ Apply(s, e, seq) \in StateType
         /\ Apply(s, e, seq).inheritedEventCount = s.inheritedEventCount
         /\ e.ours /\ seq >= s.inheritedEventCount => Apply(s, e, seq).role = e.role
         /\ ~(e.ours /\ seq >= s.inheritedEventCount) => Apply(s, e, seq) = s
BY EventIs DEF Apply, StateType

\* A fold ends in its first state, when it saw no notice, and with the last one's role.
LEMMA FoldIs ==
  ASSUME NEW s \in StateType, NEW events \in Seq(Event), NEW first \in 0..Len(events)
  PROVE  LET seen == Seen(s, events, first, Len(events))
             end  == FoldFrom(s, events, first)
         IN  /\ end \in StateType /\ end.inheritedEventCount = s.inheritedEventCount
             /\ seen = {} => end = s
             /\ \A i \in seen : (\A j \in seen : j <= i) => end.role = events[i].role
<1> DEFINE Ends(g, n) ==
      /\ g[n] \in StateType /\ g[n].inheritedEventCount = s.inheritedEventCount
      /\ Seen(s, events, first, n) = {} => g[n] = s
      /\ \A i \in Seen(s, events, first, n) :
           (\A j \in Seen(s, events, first, n) : j <= i) => g[n].role = events[i].role
<1>1. PICK g : Folds(g, s, events, first, Len(events)) /\ FoldFrom(s, events, first) = g[Len(events)]
  BY FoldFromFolds
<1>2. \A n \in first..Len(events) :
        g[n] = IF n = first THEN s ELSE Apply(g[n - 1], events[n], n - 1)
  BY <1>1 DEF Folds
<1>3. Ends(g, first)
  <2>1. g[first] = s /\ Seen(s, events, first, first) = {}
    BY <1>2 DEF Seen
  <2>2. QED
    BY <2>1
<1>4. ASSUME NEW n \in first..Len(events), n # first, Ends(g, n - 1)
      PROVE  Ends(g, n)
  <2> DEFINE here == events[n].ours /\ n > s.inheritedEventCount
             before == Seen(s, events, first, n - 1)
             now == Seen(s, events, first, n)
  <2>1. n \in Nat /\ n - 1 \in Nat /\ events[n] \in Event /\ s.inheritedEventCount \in Nat
    BY <1>4 DEF StateType
  <2>2. g[n] = Apply(g[n - 1], events[n], n - 1)
    BY <1>2, <1>4
  <2>a. g[n - 1] \in StateType /\ g[n - 1].inheritedEventCount = s.inheritedEventCount
    BY <1>4
  <2>b. n - 1 >= s.inheritedEventCount <=> n > s.inheritedEventCount
    BY <2>1
  <2>3. /\ g[n] \in StateType /\ g[n].inheritedEventCount = s.inheritedEventCount
        /\ here => g[n].role = events[n].role
        /\ ~here => g[n] = g[n - 1]
    <3> DEFINE old == g[n - 1]
               seq == n - 1
               new == Apply(old, events[n], seq)
    <3> HIDE DEF Ends
    <3>1. /\ old \in StateType /\ seq \in Nat /\ g[n] = new
          /\ old.inheritedEventCount = s.inheritedEventCount
          /\ seq >= s.inheritedEventCount <=> n > s.inheritedEventCount
      BY <2>1, <2>2, <2>a, <2>b
    <3> HIDE DEF old, seq
    <3>2. /\ new \in StateType /\ new.inheritedEventCount = s.inheritedEventCount
          /\ here => new.role = events[n].role
          /\ ~here => new = old
      <4>1. \A e \in Event :
              LET next == Apply(old, e, seq)
              IN  /\ next \in StateType /\ next.inheritedEventCount = old.inheritedEventCount
                  /\ e.ours /\ seq >= old.inheritedEventCount => next.role = e.role
                  /\ ~(e.ours /\ seq >= old.inheritedEventCount) => next = old
        BY <3>1, ApplyIs
      <4> DEFINE e == events[n]
      <4>2. e \in Event
        BY <2>1
      <4> HIDE DEF e
      <4>3. /\ Apply(old, e, seq) \in StateType
            /\ Apply(old, e, seq).inheritedEventCount = s.inheritedEventCount
            /\ e.ours /\ n > s.inheritedEventCount => Apply(old, e, seq).role = e.role
            /\ ~(e.ours /\ n > s.inheritedEventCount) => Apply(old, e, seq) = old
        BY <3>1, <4>1, <4>2
      <4>4. QED
        BY <4>3 DEF e
    <3> HIDE DEF new
    <3>3. QED
      BY <3>1, <3>2 DEF old
  <2>4. /\ here => now = before \union {n}
        /\ ~here => now = before
        /\ before \subseteq (first + 1)..(n - 1)
    BY <1>4, <2>1 DEF Seen
  <2> HIDE DEF here, before, now
  <2>5. CASE here
    <3>1. \A i \in now : (\A j \in now : j <= i) => i = n
      <4>1. n \in now /\ \A i \in before : ~(n <= i)
        BY <2>1, <2>4, <2>5
      <4>2. QED
        BY <2>4, <2>5, <4>1
    <3>2. now # {} /\ \A i \in now : (\A j \in now : j <= i) => g[n].role = events[i].role
      BY <2>3, <2>4, <2>5, <3>1
    <3>3. QED
      BY <2>3, <3>2 DEF now
  <2>6. CASE ~here
    BY <1>4, <2>3, <2>4, <2>6 DEF now, before
  <2>7. QED
    BY <2>5, <2>6
<1>5. Ends(g, Len(events))
  <2> DEFINE Bad == {n \in Nat : n \in first..Len(events) /\ ~Ends(g, n)}
  <2>1. SUFFICES ASSUME Bad # {} PROVE FALSE
    OBVIOUS
  <2>2. PICK n \in Bad : \A m \in Bad : n <= m
    <3> HIDE DEF Bad
    <3>1. Bad \subseteq Nat
      BY DEF Bad
    <3>2. QED
      BY <2>1, <3>1, LeastNaturalExists
  <2>3. n # first /\ n - 1 \in first..Len(events) /\ n - 1 \notin Bad
    <3>1. n # first
      BY <1>3
    <3> HIDE DEF Ends
    <3>2. n - 1 \in Nat /\ n - 1 \in first..Len(events) /\ ~(n <= n - 1)
      BY <3>1
    <3>3. QED
      BY <2>2, <3>1, <3>2
  <2> HIDE DEF Ends
  <2>4. Ends(g, n - 1)
    BY <2>3
  <2>5. QED
    BY <1>4, <2>3, <2>4
<1>6. QED
  BY <1>1, <1>5

\* The session's own notices among the first k events.
OwnUpTo(k) == {i \in (inherited + 1)..k : log[i].ours}

\* A state is right about the first k events, or it was rebuilt from a row nobody could
\* read and says nothing.
Right(s, bad, k) ==
  /\ s \in StateType /\ s.inheritedEventCount <= inherited
  /\ (bad /\ View(s) = NoRole) \/ Says(s, log, OwnUpTo(k))

ProjectionInv ==
  /\ log \in Seq(Event) /\ inherited \in 0..Len(log) /\ degraded \in BOOLEAN
  /\ checkpoint \in [form : {"none", "good", "garbled", "old"}, at : Nat,
                     state : StateType, degraded : BOOLEAN]
  /\ Right(state, degraded, Len(log))
  /\ checkpoint.form # "none" =>
       /\ checkpoint.at \in inherited..Len(log)
       /\ Right(checkpoint.state, checkpoint.degraded, checkpoint.at)

\* A fold that begins above the fork boundary, over a log of which the state is right,
\* ends right about the whole log.
LEMMA FoldStaysRight ==
  ASSUME NEW s, NEW bad \in BOOLEAN, NEW at \in inherited..Len(log),
         log \in Seq(Event), inherited \in Nat, Right(s, bad, at)
  PROVE  Right(FoldFrom(s, log, at), bad /\ \A i \in DOMAIN log : i > at => ~log[i].ours, Len(log))
<1> DEFINE end == FoldFrom(s, log, at)
           seen == Seen(s, log, at, Len(log))
           quiet == \A i \in DOMAIN log : i > at => ~log[i].ours
<1> SUFFICES Right(end, bad /\ quiet, Len(log))
  OBVIOUS
<1>1. /\ s \in StateType /\ s.inheritedEventCount \in Nat /\ s.inheritedEventCount <= inherited
      /\ at \in 0..Len(log) /\ at \in Nat /\ Len(log) \in Nat /\ inherited <= at
  BY DEF Right, StateType
<1>2. /\ end \in StateType /\ end.inheritedEventCount = s.inheritedEventCount
      /\ seen = {} => end = s
      /\ \A i \in seen : (\A j \in seen : j <= i) => end.role = log[i].role
  BY <1>1, FoldIs
<1> HIDE DEF end
<1>3. /\ seen = {i \in (at + 1)..Len(log) : log[i].ours}
      /\ seen \subseteq OwnUpTo(Len(log))
      /\ OwnUpTo(Len(log)) = OwnUpTo(at) \union seen
      /\ OwnUpTo(at) \subseteq 0..at
  BY <1>1 DEF Seen, OwnUpTo
<1>4. seen = {} <=> quiet
  BY <1>1, <1>3
<1> HIDE DEF quiet, seen
<1>5. CASE seen = {}
  <2>1. end = s /\ OwnUpTo(Len(log)) = OwnUpTo(at) /\ quiet
    BY <1>2, <1>3, <1>4, <1>5
  <2>2. QED
    BY <2>1 DEF Right
<1>6. CASE seen # {}
  <2>1. ASSUME NEW i \in OwnUpTo(Len(log)), \A j \in OwnUpTo(Len(log)) : j <= i
        PROVE  View(end) = log[i].role
    <3>1. PICK k \in seen : TRUE
      BY <1>6
    <3>2. i \in seen /\ \A j \in seen : j <= i
      <4>1. k \in (at + 1)..Len(log) /\ k <= i
        BY <1>3, <2>1, <3>1
      <4>2. i \notin OwnUpTo(at)
        BY <1>1, <1>3, <4>1
      <4>3. QED
        BY <1>3, <2>1, <4>2
    <3>3. end.role = log[i].role
      BY <1>2, <3>2
    <3>4. log[i] \in Event /\ log[i].ours
      BY <1>1, <1>3, <3>2
    <3>5. log[i].role # "null"
      BY <3>4, EventIs, ProjectionAssumption
    <3>6. QED
      BY <3>3, <3>5 DEF View
  <2>2. OwnUpTo(Len(log)) # {}
    BY <1>3, <1>6
  <2>3. Says(end, log, OwnUpTo(Len(log)))
    BY <2>1, <2>2 DEF Says
  <2>4. QED
    BY <1>1, <1>2, <2>3 DEF Right
<1>7. QED
  BY <1>5, <1>6

\* The states a fold starts from.
LEMMA StartsRight ==
  ASSUME log \in Seq(Event), inherited \in 0..Len(log)
  PROVE  Right(Boundary(inherited), FALSE, inherited) /\ Null \in StateType /\ View(Null) = NoRole
BY ProjectionAssumption DEF Right, Boundary, Null, StateType, Says, View, OwnUpTo

\* A fold from the beginning of the log skips what was inherited.
LEMMA WholeLogRight ==
  ASSUME log \in Seq(Event), inherited \in 0..Len(log)
  PROVE  Right(FoldFrom(Boundary(inherited), log, 0), FALSE, Len(log))
<1> DEFINE s == Boundary(inherited)
           end == FoldFrom(s, log, 0)
           seen == Seen(s, log, 0, Len(log))
<1> SUFFICES Right(end, FALSE, Len(log))
  OBVIOUS
<1>1. /\ s \in StateType /\ s.inheritedEventCount = inherited /\ View(s) = NoRole
      /\ inherited \in Nat /\ Len(log) \in Nat /\ 0 \in 0..Len(log)
  BY ProjectionAssumption DEF Boundary, StateType, View
<1> HIDE DEF s
<1>2. /\ end \in StateType /\ end.inheritedEventCount = inherited
      /\ seen = {} => end = s
      /\ \A i \in seen : (\A j \in seen : j <= i) => end.role = log[i].role
  BY <1>1, FoldIs
<1> HIDE DEF end
<1>3. seen = OwnUpTo(Len(log))
  BY <1>1 DEF Seen, OwnUpTo
<1> HIDE DEF seen
<1>4. ASSUME NEW i \in seen, \A j \in seen : j <= i
      PROVE  View(end) = log[i].role
  <2>1. log[i] \in Event /\ log[i].ours
    BY <1>1, <1>3 DEF OwnUpTo
  <2>2. end.role = log[i].role /\ log[i].role # "null"
    BY <1>2, <1>4, <2>1, EventIs, ProjectionAssumption
  <2>3. QED
    BY <2>2 DEF View
<1>5. Says(end, log, OwnUpTo(Len(log)))
  <2>1. seen = {} => View(end) = NoRole
    BY <1>1, <1>2
  <2>2. QED
    BY <1>3, <1>4, <2>1 DEF Says
<1>6. QED
  BY <1>1, <1>2, <1>5 DEF Right

\* A commit is folded as it comes.
LEMMA CommitsRight ==
  ASSUME ProjectionInv, NEW e \in Event, Commits(e)
  PROVE  ProjectionInv'
<1>1. /\ log' = Append(log, e) /\ state' = Apply(state, e, Len(log))
      /\ degraded' = (degraded /\ ~e.ours) /\ inherited' = inherited /\ checkpoint' = checkpoint
  BY DEF Commits
<1>2. /\ log' \in Seq(Event) /\ Len(log') = Len(log) + 1 /\ Len(log) \in Nat
      /\ log'[Len(log) + 1] = e /\ \A i \in 1..Len(log) : log'[i] = log[i]
      /\ inherited \in Nat /\ inherited <= Len(log)
  BY <1>1 DEF ProjectionInv
<1>3. /\ state \in StateType /\ state.inheritedEventCount \in Nat
      /\ state.inheritedEventCount <= inherited
  BY DEF ProjectionInv, Right, StateType
<1>4. /\ state' \in StateType /\ state'.inheritedEventCount = state.inheritedEventCount
      /\ e.ours => state'.role = e.role
      /\ ~e.ours => state' = state
  <2> DEFINE seq == Len(log)
  <2>1. seq \in Nat /\ seq >= state.inheritedEventCount /\ state' = Apply(state, e, seq)
    BY <1>1, <1>2, <1>3
  <2> HIDE DEF seq
  <2>2. QED
    BY <1>3, <2>1, ApplyIs
<1>5. ASSUME NEW k \in 0..Len(log)
      PROVE  /\ OwnUpTo(k)' = OwnUpTo(k)
             /\ \A i \in OwnUpTo(k) : log'[i] = log[i]
  BY <1>1, <1>2 DEF OwnUpTo
<1>6. Right(state, degraded, Len(log))'
  <2>1. CASE ~e.ours
    <3>1. OwnUpTo(Len(log))' = OwnUpTo(Len(log))
      BY <1>1, <1>2, <2>1 DEF OwnUpTo
    <3>2. QED
      <4>1. state' = state /\ degraded' = degraded
        BY <1>1, <1>4, <2>1 DEF ProjectionInv
      <4>2. \A i \in OwnUpTo(Len(log)) : log'[i] = log[i]
        BY <1>2, <1>5
      <4>3. Says(state, log, OwnUpTo(Len(log))) => Says(state, log', OwnUpTo(Len(log)))
        BY <4>2 DEF Says
      <4>4. QED
        BY <1>1, <3>1, <4>1, <4>3 DEF ProjectionInv, Right
  <2>2. CASE e.ours
    <3>1. Len(log) + 1 \in OwnUpTo(Len(log))'
      BY <1>1, <1>2, <2>2 DEF OwnUpTo
    <3>2. \A i \in OwnUpTo(Len(log))' : (\A j \in OwnUpTo(Len(log))' : j <= i) => i = Len(log) + 1
      BY <1>2, <3>1 DEF OwnUpTo
    <3>3. View(state') = e.role
      BY <1>4, <2>2, EventIs, ProjectionAssumption DEF View
    <3>4. QED
      BY <1>1, <1>2, <1>3, <1>4, <3>1, <3>2, <3>3 DEF Right, Says
  <2>3. QED
    BY <2>1, <2>2
<1>7. checkpoint.form # "none" => Right(checkpoint.state, checkpoint.degraded, checkpoint.at)'
  <2> SUFFICES ASSUME checkpoint.form # "none"
               PROVE  Right(checkpoint.state, checkpoint.degraded, checkpoint.at)'
    OBVIOUS
  <2>1. checkpoint.at \in 0..Len(log) /\ Right(checkpoint.state, checkpoint.degraded, checkpoint.at)
    BY <1>2 DEF ProjectionInv
  <2>2. QED
    BY <1>1, <1>5, <2>1 DEF Right, Says
<1>8. QED
  BY <1>1, <1>2, <1>6, <1>7, EventIs DEF ProjectionInv

\* A rebuild is right, from whatever row there is.
LEMMA RestoresRight ==
  ASSUME ProjectionInv, Restores
  PROVE  ProjectionInv'
<1> DEFINE quiet == \A i \in DOMAIN log : i > checkpoint.at => ~log[i].ours
<1>1. /\ state' = IF Usable(checkpoint) THEN FoldFrom(Parse(checkpoint), log, checkpoint.at)
                                        ELSE FoldFrom(Boundary(inherited), log, 0)
      /\ degraded' = (/\ checkpoint.form = "garbled" \/ (checkpoint.form = "good" /\ checkpoint.degraded)
                      /\ quiet)
      /\ UNCHANGED <<log, inherited, checkpoint>>
  BY DEF Restores
<1>2. log \in Seq(Event) /\ inherited \in 0..Len(log) /\ inherited \in Nat
  BY DEF ProjectionInv
<1>3. Right(state', degraded', Len(log))
  <2>1. CASE ~Usable(checkpoint)
    <3>1. degraded' = FALSE
      BY <1>1, <2>1 DEF Usable
    <3>2. QED
      BY <1>1, <1>2, <2>1, <3>1, WholeLogRight
  <2>2. CASE checkpoint.form = "good"
    <3>1. /\ state' = FoldFrom(checkpoint.state, log, checkpoint.at)
          /\ degraded' = (checkpoint.degraded /\ quiet)
      BY <1>1, <2>2 DEF Usable, Parse
    <3>2. /\ checkpoint.at \in inherited..Len(log) /\ checkpoint.degraded \in BOOLEAN
          /\ Right(checkpoint.state, checkpoint.degraded, checkpoint.at)
      BY <2>2 DEF ProjectionInv
    <3>3. QED
      BY <1>2, <3>1, <3>2, FoldStaysRight
  <2>3. CASE checkpoint.form = "garbled"
    <3>1. /\ state' = FoldFrom(Null, log, checkpoint.at)
          /\ degraded' = (TRUE /\ quiet)
      BY <1>1, <2>3 DEF Usable, Parse
    <3>2. checkpoint.at \in inherited..Len(log)
      BY <2>3 DEF ProjectionInv
    <3>3. Right(Null, TRUE, checkpoint.at)
      BY <1>2, StartsRight DEF Right, Null
    <3>4. QED
      BY <1>2, <3>1, <3>2, <3>3, FoldStaysRight
  <2>4. QED
    BY <2>1, <2>2, <2>3 DEF Usable
<1>4. degraded' \in BOOLEAN
  BY <1>1
<1>5. QED
  BY <1>1, <1>3, <1>4 DEF ProjectionInv, Right, Says, OwnUpTo

\* The badge is right about the log in every state, and so is every row that was persisted.
LEMMA ProjectionStep ==
  ASSUME ProjectionInv, [ProjectionNext]_projectionVars
  PROVE  ProjectionInv'
<1>1. CASE UNCHANGED projectionVars
  BY <1>1 DEF projectionVars, ProjectionInv, Right, Says, OwnUpTo
<1>2. CASE Persists
  <2>1. checkpoint' = [form |-> "good", at |-> Len(log), state |-> state, degraded |-> degraded]
        /\ UNCHANGED <<log, inherited, state, degraded>>
    BY <1>2 DEF Persists
  <2>2. state \in StateType /\ Len(log) \in Nat /\ Len(log) \in inherited..Len(log)
    BY DEF ProjectionInv, Right
  <2>3. QED
    BY <2>1, <2>2 DEF ProjectionInv, Right, Says, OwnUpTo
<1>3. CASE RowDecays
  <2>1. PICK form \in {"garbled", "old"} : checkpoint' = [checkpoint EXCEPT !.form = form]
    BY <1>3 DEF RowDecays
  <2>2. checkpoint.form # "none" /\ UNCHANGED <<log, inherited, state, degraded>>
    BY <1>3 DEF RowDecays
  <2>3. QED
    BY <2>1, <2>2 DEF ProjectionInv, Right, Says, OwnUpTo
<1>4. QED
  BY <1>1, <1>2, <1>3, CommitsRight, RestoresRight DEF ProjectionNext

\* Never a wrong pill, for logs of any length: the badge shows the role of the session's own
\* last notice, however the fold came by its state; a row nobody can read costs it the badge.
THEOREM BadgeIsRight == ProjectionSpec => []NeverAWrongPill
<1>1. ProjectionInit => ProjectionInv
  <2> SUFFICES ASSUME ProjectionInit PROVE ProjectionInv
    OBVIOUS
  <2>1. PICK n \in 0..2 : log \in [1..n -> Event]
    BY DEF ProjectionInit
  <2>2. log \in Seq(Event) /\ inherited \in 0..Len(log)
    BY <2>1 DEF ProjectionInit
  <2>3. QED
    BY <2>2, WholeLogRight, StartsRight DEF ProjectionInit, ProjectionInv
<1>2. ProjectionInv /\ [ProjectionNext]_projectionVars => ProjectionInv'
  BY ProjectionStep
<1>3. ProjectionInv => NeverAWrongPill
  <2> SUFFICES ASSUME ProjectionInv PROVE NeverAWrongPill
    OBVIOUS
  <2>1. OwnNotices = OwnUpTo(Len(log)) /\ Len(log) \in Nat /\ inherited \in Nat
    BY DEF ProjectionInv, OwnNotices, OwnUpTo
  <2>2. CASE OwnNotices = {}
    BY <2>1, <2>2 DEF ProjectionInv, Right, Says, NeverAWrongPill, OwnRole
  <2>3. CASE OwnNotices # {}
    <3> DEFINE Back == {Len(log) - i : i \in OwnNotices}
    <3>1. Back \subseteq Nat /\ Back # {}
      BY <2>1, <2>3 DEF OwnUpTo
    <3>2. PICK b \in Back : \A d \in Back : b <= d
      <4> HIDE DEF Back
      <4>1. QED
        BY <3>1, LeastNaturalExists
    <3>3. PICK i \in OwnNotices : b = Len(log) - i
      BY <3>2
    <3>4. \A j \in OwnNotices : j <= i
      <4>1. \A j \in OwnNotices : Len(log) - j \in Back /\ j \in Int
        BY <2>1 DEF OwnUpTo
      <4> HIDE DEF Back
      <4>2. i \in Int /\ \A j \in OwnNotices : Len(log) - i <= Len(log) - j
        BY <3>2, <3>3, <4>1
      <4>3. QED
        BY <2>1, <4>1, <4>2
    <3> DEFINE last == CHOOSE k \in OwnNotices : \A j \in OwnNotices : j <= k
    <3>5. last \in OwnNotices /\ \A j \in OwnNotices : j <= last
      BY <3>4
    <3>6. OwnRole = log[last].role
      BY <2>3 DEF OwnRole
    <3> HIDE DEF last
    <3>7. QED
      BY <2>1, <3>5, <3>6 DEF ProjectionInv, Right, Says, NeverAWrongPill
  <2>4. QED
    BY <2>2, <2>3
<1>4. QED
  BY <1>1, <1>2, <1>3, PTL DEF ProjectionSpec

-----------------------------------------------------------------------------
(* The singletons of a root.                                               *)

WiringTypeOK ==
  /\ phase \in [Fiber -> {"new", "up", "down"}]
  /\ services \in SUBSET {"settings", "llm"} /\ config \in Configs
  /\ pending \in [Fiber -> SUBSET {"provide", "bind", "preset", "adapter"}]
  /\ serviceOwned \in [Fiber -> BOOLEAN] /\ writable \in [Fiber -> BOOLEAN]
  /\ listening \in [Fiber -> BOOLEAN] /\ llmBound \in [Fiber -> BOOLEAN]
  /\ registered \in [Fiber -> BOOLEAN]
  /\ provider \in Fiber \union {NoFiber} /\ row \in Fiber \union {NoFiber}

\* Children wait on living fibers only, for services that are there.
PendingIsCurrent ==
  \A f \in Fiber :
    /\ pending[f] # {} => f \in Up
    /\ pending[f] \intersect {"provide", "bind", "preset"} # {} => "settings" \in services

\* Who provides the service has run its settings child and lives with it.
ProviderHasSettled ==
  provider # NoFiber =>
    /\ provider \in Up /\ "settings" \in services
    /\ writable[provider] /\ "provide" \notin pending[provider]

\* Only living fibers hear a settings update.
ListenersLive == \A f \in Fiber : listening[f] => f \in Up

WiringInv ==
  /\ WiringTypeOK /\ PendingIsCurrent /\ ProviderHasSettled /\ ListenersLive
  /\ OwnershipIsTrue /\ RowBeliefIsTrue

\* The flags of a reconciled row.
Believed(s) == \A f \in Fiber : s.registered[f] <=> s.row = f
RowRecord == [registered : [Fiber -> BOOLEAN], row : Fiber \union {NoFiber}]

\* One reconcile keeps the beliefs true; under an active config the row is never lost and a
\* fiber with a runtime leaves it offered, under an inactive one the fiber lets go of it.
LEMMA ReconciledIs ==
  ASSUME NEW f \in Fiber, NEW runtime \in BOOLEAN, NEW now \in Configs, NEW s \in RowRecord,
         Believed(s)
  PROVE  LET t == Reconciled(f, runtime, now, s)
         IN  /\ t \in RowRecord /\ Believed(t)
             /\ now.active => /\ s.row # NoFiber => t.row = s.row
                              /\ runtime => t.row # NoFiber
             /\ ~now.active => t.row # f /\ t.row \in {s.row, NoFiber}
<1> DEFINE t == Reconciled(f, runtime, now, s)
<1>1. now.active \in BOOLEAN /\ NoFiber \notin Fiber
  BY FiberAssumption DEF Configs
<1>2. /\ s.registered \in [Fiber -> BOOLEAN] /\ s.row \in Fiber \union {NoFiber}
      /\ \A g \in Fiber : s.registered[g] <=> s.row = g
  BY DEF RowRecord, Believed
<1>3. CASE now.active /\ ~s.registered[f] /\ runtime /\ s.row = NoFiber
  <2>1. t = [registered |-> [s.registered EXCEPT ![f] = TRUE], row |-> f]
    BY <1>3 DEF Reconciled
  <2>2. t.registered = [s.registered EXCEPT ![f] = TRUE] /\ t.row = f /\ t \in RowRecord
    BY <1>2, <2>1 DEF RowRecord
  <2> HIDE DEF t
  <2>3. Believed(t)
    BY <1>1, <1>2, <1>3, <2>2 DEF Believed
  <2>4. QED
    BY <1>1, <1>3, <2>2, <2>3 DEF t
<1>4. CASE ~now.active /\ s.registered[f]
  <2>1. t = [registered |-> [s.registered EXCEPT ![f] = FALSE], row |-> NoFiber]
    BY <1>4 DEF Reconciled
  <2>2. t.registered = [s.registered EXCEPT ![f] = FALSE] /\ t.row = NoFiber /\ t \in RowRecord
    BY <1>2, <2>1 DEF RowRecord
  <2> HIDE DEF t
  <2>3. Believed(t)
    BY <1>1, <1>2, <1>4, <2>2 DEF Believed
  <2>4. QED
    BY <1>1, <1>4, <2>2, <2>3 DEF t
<1>5. CASE ~(now.active /\ ~s.registered[f] /\ runtime /\ s.row = NoFiber)
           /\ ~(~now.active /\ s.registered[f])
  <2>1. t = s
    BY <1>5 DEF Reconciled
  <2> HIDE DEF t
  <2>2. QED
    BY <1>1, <1>2, <1>5, <2>1 DEF t
<1>6. QED
  BY <1>3, <1>4, <1>5

\* The row after each of the fibers that hear an update, in any order.
Hears(g, order, now) ==
  g = [n \in 0..Len(order) |->
         IF n = 0 THEN RowState
         ELSE Reconciled(order[n], llmBound[order[n]], now, g[n - 1])]

\* The reconciles of an update can always be carried out one after the other.
LEMMA HearsExists ==
  ASSUME NEW now, NEW order, Len(order) \in Nat
  PROVE  \E g : Hears(g, order, now)
<1> DEFINE Upto(g, n) ==
      g = [k \in 0..n |-> IF k = 0 THEN RowState
                          ELSE Reconciled(order[k], llmBound[order[k]], now, g[k - 1])]
           Bad == {n \in Nat : ~ \E g : Upto(g, n)}
<1>1. SUFFICES ASSUME Bad # {} PROVE FALSE
  BY DEF Hears
<1>2. PICK n \in Bad : \A m \in Bad : n <= m
  <2> HIDE DEF Bad
  <2>1. Bad \subseteq Nat
    BY DEF Bad
  <2>2. QED
    BY <1>1, <2>1, LeastNaturalExists
<1>3. CASE n = 0
  <2>1. Upto([k \in 0..n |-> RowState], n)
    BY <1>3
  <2>2. QED
    BY <2>1
<1>4. CASE n # 0
  <2>1. PICK g : Upto(g, n - 1)
    <3> HIDE DEF Upto
    <3>1. n - 1 \in Nat /\ ~(n <= n - 1)
      BY <1>2, <1>4
    <3>2. n - 1 \notin Bad
      BY <1>2, <3>1
    <3>3. QED
      BY <3>1, <3>2
  <2> DEFINE step(k, s) == Reconciled(order[k], llmBound[order[k]], now, s)
             h == [k \in 0..n |-> IF k = n THEN step(n, g[n - 1]) ELSE g[k]]
  <2> HIDE DEF step
  <2>2. \A k \in 0..n : h[k] = IF k = 0 THEN RowState ELSE step(k, h[k - 1])
    <3> SUFFICES ASSUME NEW k \in 0..n
                 PROVE  h[k] = IF k = 0 THEN RowState ELSE step(k, h[k - 1])
      OBVIOUS
    <3>1. CASE k = n
      <4>1. h[n - 1] = g[n - 1] /\ h[n] = step(n, g[n - 1])
        BY <1>4
      <4> HIDE DEF h
      <4>2. QED
        BY <1>4, <3>1, <4>1
    <3>2. CASE k # n
      <4>1. h[k] = g[k] /\ g[k] = IF k = 0 THEN RowState ELSE step(k, g[k - 1])
        BY <2>1, <3>2 DEF step
      <4>2. k # 0 => h[k - 1] = g[k - 1]
        BY <3>2
      <4> HIDE DEF h
      <4>3. QED
        BY <4>1, <4>2
    <3>3. QED
      BY <3>1, <3>2
  <2>3. Upto(h, n)
    <3>1. h = [k \in 0..n |-> h[k]]
      OBVIOUS
    <3> HIDE DEF h
    <3>2. QED
      BY <2>2, <3>1 DEF step
  <2>4. QED
    BY <2>3
<1>5. QED
  BY <1>3, <1>4

\* What an update leaves: true beliefs; under an active config the row, when a fiber with a
\* runtime heard it; under an inactive one a row that no fiber that heard it holds.
LEMMA UpdateIs ==
  ASSUME WiringInv, NEW now \in Configs, DocumentUpdated(now)
  PROVE  /\ registered' \in [Fiber -> BOOLEAN] /\ row' \in Fiber \union {NoFiber}
         /\ RowBeliefIsTrue'
         /\ now.active => ((\E f \in Up : listening[f] /\ llmBound[f]) => row' # NoFiber)
         /\ ~now.active => row' = NoFiber \/ row' \notin Up \/ ~listening[row']
<1> DEFINE hearers == {f \in Up : listening[f]}
<1>1. PICK order \in SetToSeqs(hearers) :
        LET after[n \in 0..Len(order)] ==
              IF n = 0 THEN RowState
              ELSE Reconciled(order[n], llmBound[order[n]], now, after[n - 1])
        IN  RowBecomes(after[Len(order)])
  BY DEF DocumentUpdated
<1>2. IsFiniteSet(hearers) /\ Cardinality(hearers) \in Nat
  BY FS_Subset, FS_CardinalityType, FiberAssumption DEF Up
<1>3. /\ order \in [1..Cardinality(hearers) -> hearers] /\ Len(order) = Cardinality(hearers)
      /\ \A i, j \in 1..Len(order) : i # j => order[i] # order[j]
  BY <1>1, <1>2 DEF SetToSeqs
<1>4. \A f \in hearers : \E i \in 1..Len(order) : order[i] = f
  <2>1. order \in Injection(1..Len(order), hearers)
    BY <1>3 DEF Injection, IsInjective
  <2>2. IsFiniteSet(1..Len(order)) /\ Cardinality(1..Len(order)) = Cardinality(hearers)
    BY <1>2, <1>3, FS_Interval
  <2>3. order \in Surjection(1..Len(order), hearers)
    BY <1>2, <2>1, <2>2, FS_Injection
  <2>4. QED
    BY <2>3 DEF Surjection
<1> DEFINE g == CHOOSE g : Hears(g, order, now)
<1>5. Hears(g, order, now)
  BY <1>2, <1>3, HearsExists
<1>6. RowBecomes(g[Len(order)])
  BY <1>1 DEF Hears
<1> HIDE DEF g
<1>7. \A n \in 0..Len(order) :
        g[n] = IF n = 0 THEN RowState ELSE Reconciled(order[n], llmBound[order[n]], now, g[n - 1])
  BY <1>5 DEF Hears
<1> DEFINE Holds(n) ==
      /\ g[n] \in RowRecord /\ Believed(g[n])
      /\ now.active => \A i \in 1..n : llmBound[order[i]] => g[n].row # NoFiber
      /\ ~now.active => \A i \in 1..n : g[n].row # order[i]
<1>8. Holds(0)
  BY <1>2, <1>3, <1>7 DEF RowState, RowRecord, Believed, WiringInv, WiringTypeOK, RowBeliefIsTrue
<1>9. ASSUME NEW n \in 1..Len(order), Holds(n - 1)
      PROVE  Holds(n)
  <2> DEFINE f == order[n]
             old == g[n - 1]
             new == g[n]
  <2>1. /\ f \in Fiber /\ llmBound[f] \in BOOLEAN /\ new = Reconciled(f, llmBound[f], now, old)
        /\ n \in Nat /\ now.active \in BOOLEAN
    BY <1>2, <1>3, <1>7 DEF Up, WiringInv, WiringTypeOK, Configs
  <2>2. /\ old \in RowRecord /\ Believed(old)
        /\ now.active => \A i \in 1..(n - 1) : llmBound[order[i]] => old.row # NoFiber
        /\ ~now.active => \A i \in 1..(n - 1) : old.row # order[i]
    BY <1>9
  <2>3. \A i \in 1..n : i = n \/ i \in 1..(n - 1)
    BY <2>1
  <2>4. \A i \in 1..n : order[i] # NoFiber
    BY <1>2, <1>3, FiberAssumption DEF Up
  <2> HIDE DEF old, new, Holds
  <2>5. /\ new \in RowRecord /\ Believed(new)
        /\ now.active => /\ old.row # NoFiber => new.row = old.row
                         /\ llmBound[f] => new.row # NoFiber
        /\ ~now.active => new.row # f /\ new.row \in {old.row, NoFiber}
    <3> HIDE DEF f
    <3>1. QED
      BY <2>1, <2>2, ReconciledIs
  <2>6. now.active => \A i \in 1..n : llmBound[order[i]] => new.row # NoFiber
    BY <2>2, <2>3, <2>5
  <2>7. ~now.active => \A i \in 1..n : new.row # order[i]
    BY <2>2, <2>3, <2>4, <2>5
  <2>8. QED
    BY <2>5, <2>6, <2>7 DEF Holds, new
<1>10. Holds(Len(order))
  <2> HIDE DEF Holds
  <2> DEFINE Bad == {n \in Nat : n \in 0..Len(order) /\ ~Holds(n)}
  <2>0. Len(order) \in Nat /\ Len(order) \in 0..Len(order)
    BY <1>2, <1>3
  <2>1. SUFFICES ASSUME Bad # {} PROVE FALSE
    BY <2>0
  <2>2. PICK n \in Bad : \A m \in Bad : n <= m
    <3> HIDE DEF Bad
    <3>1. Bad \subseteq Nat
      BY DEF Bad
    <3>2. QED
      BY <2>1, <3>1, LeastNaturalExists
  <2>3. n # 0 /\ n - 1 \in Nat /\ n - 1 \in 0..Len(order) /\ ~(n <= n - 1)
    BY <1>2, <1>3, <1>8, <2>2
  <2>4. Holds(n - 1) /\ n \in 1..Len(order)
    BY <1>2, <1>3, <2>2, <2>3
  <2>5. QED
    BY <1>9, <2>2, <2>4
<1>11. registered' = g[Len(order)].registered /\ row' = g[Len(order)].row
  BY <1>6 DEF RowBecomes
<1>12. \A f \in Up : listening[f] => \E i \in 1..Len(order) : order[i] = f
  BY <1>4
<1> HIDE DEF hearers
<1>13. QED
  BY <1>10, <1>11, <1>12 DEF RowRecord, Believed, RowBeliefIsTrue

\* The flags, the provider and the row start out agreeing: nobody holds anything.
LEMMA WiringStarts == WiringInit => WiringInv
BY FiberAssumption
   DEF WiringInit, NoneApplied, Up, Configs, WiringInv, WiringTypeOK, PendingIsCurrent,
       ProviderHasSettled, ListenersLive, OwnershipIsTrue, RowBeliefIsTrue

\* A fiber that is applied may claim the service at once: the claim counts only when its
\* settings child has run.
LEMMA ApplyKeeps ==
  ASSUME WiringInv, NEW f \in Fiber, ApplyPlugin(f)
  PROVE  WiringInv'
<1>1. /\ phase[f] = "new" /\ phase' = [phase EXCEPT ![f] = "up"]
      /\ pending' = [pending EXCEPT ![f] = UNION {Children(s) : s \in services}]
      /\ serviceOwned' = [serviceOwned EXCEPT ![f] = provider = NoFiber]
      /\ UNCHANGED <<services, config, writable, listening, llmBound, provider, registered, row>>
  BY DEF ApplyPlugin, Applied
<1> DEFINE kids == UNION {Children(s) : s \in services}
<1>2. /\ kids \in SUBSET {"provide", "bind", "preset", "adapter"}
      /\ kids \intersect {"provide", "bind", "preset"} # {} => "settings" \in services
      /\ "settings" \in services => "provide" \in kids
  BY DEF Children, WiringInv, WiringTypeOK
<1> HIDE DEF kids
<1>3. /\ Up' = Up \union {f} /\ f \notin Up
      /\ pending'[f] = kids /\ \A g \in Fiber \ {f} : pending'[g] = pending[g]
      /\ \A g \in Fiber \ {f} : serviceOwned'[g] = serviceOwned[g]
  BY <1>1 DEF Up, kids, WiringInv, WiringTypeOK
<1>4. WiringTypeOK'
  <2>1. (provider = NoFiber) \in BOOLEAN
    OBVIOUS
  <2>2. serviceOwned' \in [Fiber -> BOOLEAN]
    BY <1>1, <2>1 DEF WiringInv, WiringTypeOK
  <2>3. phase' \in [Fiber -> {"new", "up", "down"}]
    BY <1>1 DEF WiringInv, WiringTypeOK
  <2>4. pending' \in [Fiber -> SUBSET {"provide", "bind", "preset", "adapter"}]
    BY <1>1, <1>2 DEF kids, WiringInv, WiringTypeOK
  <2>5. QED
    BY <1>1, <2>2, <2>3, <2>4 DEF WiringInv, WiringTypeOK
<1>5. PendingIsCurrent'
  BY <1>1, <1>2, <1>3 DEF WiringInv, PendingIsCurrent
<1>6. ProviderHasSettled'
  <2>1. provider # NoFiber => provider # f /\ provider \in Fiber
    BY <1>3 DEF WiringInv, WiringTypeOK, ProviderHasSettled
  <2>2. QED
    BY <1>1, <1>3, <2>1 DEF WiringInv, ProviderHasSettled
<1>7. OwnershipIsTrue'
  BY <1>1, <1>2, <1>3 DEF WiringInv, OwnershipIsTrue, Up
<1>8. RowBeliefIsTrue'
  BY <1>1 DEF WiringInv, RowBeliefIsTrue
<1>9. ListenersLive'
  BY <1>1, <1>3 DEF WiringInv, ListenersLive
<1>10. QED
  BY <1>4, <1>5, <1>6, <1>7, <1>8, <1>9 DEF WiringInv

\* A child that settles was waiting on a living fiber, and waits no longer.
LEMMA SettlesIs ==
  ASSUME WiringInv, NEW f \in Fiber,
         NEW child \in {"provide", "bind", "preset", "adapter"}, Settles(f, child)
  PROVE  /\ f \in Up /\ Up' = Up /\ UNCHANGED <<phase, services, config>>
         /\ child \in pending[f] /\ Before(child) \intersect pending[f] = {}
         /\ child # "adapter" => "settings" \in services
         /\ pending' \in [Fiber -> SUBSET {"provide", "bind", "preset", "adapter"}]
         /\ pending'[f] = pending[f] \ {child}
         /\ \A g \in Fiber \ {f} : pending'[g] = pending[g]
         /\ PendingIsCurrent'
<1>1. /\ pending' = [pending EXCEPT ![f] = pending[f] \ {child}]
      /\ child \in pending[f] /\ Before(child) \intersect pending[f] = {}
      /\ UNCHANGED <<phase, services, config>>
  BY DEF Settles, WiringInv, WiringTypeOK
<1>2. /\ Up' = Up
      /\ pending'[f] = pending[f] \ {child}
      /\ \A g \in Fiber \ {f} : pending'[g] = pending[g]
      /\ pending' \in [Fiber -> SUBSET {"provide", "bind", "preset", "adapter"}]
  BY <1>1 DEF Up, WiringInv, WiringTypeOK
<1>3. f \in Up /\ (child # "adapter" => "settings" \in services)
  BY <1>1 DEF WiringInv, PendingIsCurrent
<1>4. \A g \in Fiber : pending'[g] \subseteq pending[g]
  BY <1>2
<1>5. PendingIsCurrent'
  BY <1>1, <1>2, <1>4 DEF WiringInv, PendingIsCurrent
<1>6. QED
  BY <1>1, <1>2, <1>3, <1>5

\* The settings child makes the claim true: the first to provide owns the service, and
\* whoever comes after it loses its claim.
LEMMA ProvideKeeps ==
  ASSUME WiringInv, NEW f \in Fiber, ProvideService(f)
  PROVE  WiringInv'
<1>1. Settles(f, "provide")
  BY DEF ProvideService
<1>2. /\ f \in Up /\ Up' = Up /\ UNCHANGED <<phase, services, config>> /\ "provide" \in pending[f]
      /\ "settings" \in services
      /\ pending' \in [Fiber -> SUBSET {"provide", "bind", "preset", "adapter"}]
      /\ pending'[f] = pending[f] \ {"provide"} /\ \A g \in Fiber \ {f} : pending'[g] = pending[g]
      /\ PendingIsCurrent'
  BY <1>1, SettlesIs
<1>3. /\ writable' = [writable EXCEPT ![f] = TRUE]
      /\ provider' = IF provider = NoFiber THEN f ELSE provider
      /\ serviceOwned' = [serviceOwned EXCEPT ![f] = provider = NoFiber]
      /\ UNCHANGED <<listening, llmBound, registered, row>>
  BY DEF ProvideService, OwnedAfterProvide
<1>4. WiringTypeOK'
  <2>1. (provider = NoFiber) \in BOOLEAN
    OBVIOUS
  <2>2. serviceOwned' \in [Fiber -> BOOLEAN]
    BY <1>3, <2>1 DEF WiringInv, WiringTypeOK
  <2>3. QED
    BY <1>2, <1>3, <2>2 DEF WiringInv, WiringTypeOK
<1>5. provider # f /\ f # NoFiber
  BY <1>2, FiberAssumption DEF WiringInv, ProviderHasSettled
<1>6. /\ \A g \in Fiber \ {f} : serviceOwned'[g] = serviceOwned[g] /\ writable'[g] = writable[g]
      /\ writable'[f] /\ (serviceOwned'[f] <=> provider = NoFiber)
  BY <1>3 DEF WiringInv, WiringTypeOK
<1>7. ProviderHasSettled'
  <2>1. CASE provider = NoFiber
    BY <1>2, <1>3, <1>6, <2>1 DEF ProviderHasSettled
  <2>2. CASE provider # NoFiber
    BY <1>2, <1>3, <1>5, <1>6, <2>2 DEF ProviderHasSettled, WiringInv, WiringTypeOK
  <2>3. QED
    BY <2>1, <2>2
<1>8. OwnershipIsTrue'
  BY <1>2, <1>3, <1>5, <1>6, FiberAssumption DEF WiringInv, OwnershipIsTrue, Up
<1>9. RowBeliefIsTrue'
  BY <1>3 DEF WiringInv, RowBeliefIsTrue
<1>10. ListenersLive'
  BY <1>2, <1>3 DEF WiringInv, ListenersLive
<1>11. QED
  BY <1>2, <1>4, <1>7, <1>8, <1>9, <1>10 DEF WiringInv

\* A child other than the settings child touches nothing of the service.
LEMMA OtherChildKeeps ==
  ASSUME WiringInv, NEW f \in Fiber, NEW child \in {"bind", "preset", "adapter"},
         Settles(f, child), UNCHANGED <<serviceOwned, writable, provider>>,
         listening' \in [Fiber -> BOOLEAN], llmBound' \in [Fiber -> BOOLEAN],
         \A g \in Fiber : listening'[g] => listening[g] \/ g = f,
         registered' \in [Fiber -> BOOLEAN], row' \in Fiber \union {NoFiber}, RowBeliefIsTrue'
  PROVE  WiringInv'
<1>1. /\ f \in Up /\ Up' = Up /\ UNCHANGED <<phase, services, config>> /\ child \in pending[f]
      /\ pending' \in [Fiber -> SUBSET {"provide", "bind", "preset", "adapter"}]
      /\ pending'[f] = pending[f] \ {child} /\ \A g \in Fiber \ {f} : pending'[g] = pending[g]
      /\ PendingIsCurrent'
  BY SettlesIs
<1>2. \A g \in Fiber : "provide" \in pending'[g] <=> "provide" \in pending[g]
  BY <1>1
<1>3. WiringTypeOK'
  BY <1>1 DEF WiringInv, WiringTypeOK
<1>4. ProviderHasSettled'
  BY <1>1, <1>2 DEF WiringInv, WiringTypeOK, ProviderHasSettled
<1>5. OwnershipIsTrue'
  BY <1>1, <1>2 DEF WiringInv, OwnershipIsTrue, Up
<1>6. ListenersLive'
  BY <1>1 DEF WiringInv, ListenersLive
<1>7. QED
  BY <1>1, <1>3, <1>4, <1>5, <1>6 DEF WiringInv

\* The binding, the runtime and the presets: of these only the runtime moves the row.
LEMMA ChildrenKeep ==
  ASSUME WiringInv, NEW f \in Fiber, BindSettings(f) \/ BindRuntime(f) \/ DeclarePresets(f)
  PROVE  WiringInv'
<1>1. CASE BindSettings(f)
  BY <1>1, OtherChildKeeps DEF BindSettings, WiringInv, WiringTypeOK, RowBeliefIsTrue
<1>2. CASE DeclarePresets(f)
  BY <1>2, OtherChildKeeps DEF DeclarePresets, bindings, WiringInv, WiringTypeOK, RowBeliefIsTrue
<1>3. CASE BindRuntime(f)
  <2> DEFINE t == Reconciled(f, TRUE, config, RowState)
  <2>1. RowState \in RowRecord /\ Believed(RowState)
    BY DEF RowState, RowRecord, Believed, WiringInv, WiringTypeOK, RowBeliefIsTrue
  <2>2. config \in Configs
    BY DEF WiringInv, WiringTypeOK
  <2>3. t \in RowRecord /\ Believed(t)
    BY <2>1, <2>2, ReconciledIs
  <2> HIDE DEF t
  <2>4. registered' = t.registered /\ row' = t.row
    BY <1>3 DEF BindRuntime, RowBecomes, t
  <2>5. /\ registered' \in [Fiber -> BOOLEAN] /\ row' \in Fiber \union {NoFiber}
        /\ RowBeliefIsTrue'
    BY <2>3, <2>4 DEF RowRecord, Believed, RowBeliefIsTrue
  <2>6. llmBound' \in [Fiber -> BOOLEAN] /\ listening' \in [Fiber -> BOOLEAN] /\ listening' = listening
        /\ Settles(f, "adapter") /\ UNCHANGED <<serviceOwned, writable, provider>>
    BY <1>3 DEF BindRuntime, WiringInv, WiringTypeOK
  <2>7. QED
    BY <2>5, <2>6, OtherChildKeeps
<1>4. QED
  BY <1>1, <1>2, <1>3

\* What RowWithout leaves of true beliefs is true.
LEMMA RowWithoutIs ==
  ASSUME WiringInv, NEW gone \in SUBSET Fiber, RowWithout(gone)
  PROVE  /\ registered' \in [Fiber -> BOOLEAN] /\ row' \in Fiber \union {NoFiber}
         /\ RowBeliefIsTrue'
<1>1. /\ registered' = [f \in Fiber |-> registered[f] /\ f \notin gone]
      /\ row' = IF row \in gone THEN NoFiber ELSE row
  BY DEF RowWithout, RowBecomes
<1>2. registered' \in [Fiber -> BOOLEAN] /\ row' \in Fiber \union {NoFiber}
  BY <1>1 DEF WiringInv, WiringTypeOK
<1>3. QED
  BY <1>1, <1>2, FiberAssumption DEF WiringInv, WiringTypeOK, RowBeliefIsTrue

\* A service that appears finds no provider left from its last time, and every living
\* fiber with its children waiting.
LEMMA AppearsKeeps ==
  ASSUME WiringInv, NEW s \in {"settings", "llm"}, Appears(s)
  PROVE  WiringInv'
<1>1. /\ s \notin services /\ services' = services \union {s}
      /\ pending' = [f \in Fiber |-> IF f \in Up THEN pending[f] \union Children(s) ELSE pending[f]]
      /\ UNCHANGED <<phase, config, serviceOwned, writable, listening, llmBound, provider,
                     registered, row>>
  BY DEF Appears, bindings
<1>2. /\ s = "settings" => Children(s) = {"provide", "bind", "preset"}
      /\ s = "llm" => Children(s) = {"adapter"}
  BY DEF Children
<1>3. Up' = Up
  BY <1>1 DEF Up
<1>4. WiringTypeOK'
  BY <1>1, <1>2 DEF WiringInv, WiringTypeOK
<1>5. PendingIsCurrent'
  BY <1>1, <1>2, <1>3 DEF WiringInv, PendingIsCurrent
<1>6. s = "settings" => provider = NoFiber
  BY <1>1 DEF WiringInv, ProviderHasSettled
<1>7. s = "llm" => \A f \in Fiber : "provide" \in pending'[f] <=> "provide" \in pending[f]
  BY <1>1, <1>2
<1>8. s = "settings" => \A f \in Up : "provide" \in pending'[f]
  BY <1>1, <1>2 DEF Up
<1>9. ProviderHasSettled'
  BY <1>1, <1>3, <1>6, <1>7 DEF WiringInv, WiringTypeOK, ProviderHasSettled
<1>10. OwnershipIsTrue'
  BY <1>1, <1>3, <1>7, <1>8 DEF WiringInv, OwnershipIsTrue, Up
<1>11. QED
  BY <1>1, <1>3, <1>4, <1>5, <1>9, <1>10 DEF WiringInv, ListenersLive, RowBeliefIsTrue

\* A service that goes takes its children along: the provider with the settings, the row
\* with the runtime.
LEMMA DisappearsKeeps ==
  ASSUME WiringInv, NEW s \in {"settings", "llm"}, Disappears(s)
  PROVE  WiringInv'
<1>1. /\ services' = services \ {s} /\ pending' = [f \in Fiber |-> pending[f] \ Children(s)]
      /\ UNCHANGED <<phase, config, serviceOwned>> /\ Up' = Up
  BY DEF Disappears, Up
<1>2. CASE s = "settings"
  <2>1. Children(s) = {"provide", "bind", "preset"}
    BY <1>2 DEF Children
  <2>2. /\ writable' = [f \in Fiber |-> FALSE] /\ listening' = [f \in Fiber |-> FALSE]
        /\ provider' = NoFiber /\ UNCHANGED <<llmBound, registered, row>>
    BY <1>2 DEF Disappears, WithdrawService, WiringInv, WiringTypeOK
  <2>3. WiringTypeOK'
    BY <1>1, <2>2 DEF WiringInv, WiringTypeOK
  <2>4. PendingIsCurrent'
    BY <1>1, <2>1 DEF WiringInv, PendingIsCurrent
  <2>5. QED
    BY <1>1, <1>2, <2>2, <2>3, <2>4
    DEF WiringInv, ProviderHasSettled, ListenersLive, OwnershipIsTrue, RowBeliefIsTrue
<1>3. CASE s = "llm"
  <2>1. Children(s) = {"adapter"}
    BY <1>3 DEF Children
  <2>2. /\ llmBound' = [f \in Fiber |-> FALSE] /\ RowWithout(Fiber)
        /\ UNCHANGED <<writable, listening, provider>>
    BY <1>3 DEF Disappears
  <2>3. /\ registered' \in [Fiber -> BOOLEAN] /\ row' \in Fiber \union {NoFiber}
        /\ RowBeliefIsTrue'
    BY <2>2, RowWithoutIs
  <2>4. WiringTypeOK'
    BY <1>1, <2>2, <2>3 DEF WiringInv, WiringTypeOK
  <2>5. /\ \A f \in Fiber : pending'[f] \subseteq pending[f]
        /\ \A f \in Fiber : "provide" \in pending'[f] <=> "provide" \in pending[f]
        /\ "settings" \in services' <=> "settings" \in services
    BY <1>1, <1>3, <2>1
  <2>6. PendingIsCurrent'
    BY <1>1, <2>5 DEF WiringInv, PendingIsCurrent
  <2>7. ProviderHasSettled'
    BY <1>1, <2>2, <2>5 DEF WiringInv, WiringTypeOK, ProviderHasSettled
  <2>8. OwnershipIsTrue'
    BY <1>1, <2>2, <2>5 DEF WiringInv, OwnershipIsTrue, Up
  <2>9. QED
    BY <1>1, <2>2, <2>3, <2>4, <2>6, <2>7, <2>8 DEF WiringInv, ListenersLive
<1>4. QED
  BY <1>2, <1>3

\* A fiber that unloads leaves nothing of its own behind and nothing of a sibling changed.
LEMMA UnloadKeeps ==
  ASSUME WiringInv, NEW f \in Fiber, UnloadPlugin(f)
  PROVE  WiringInv'
<1>1. /\ phase[f] = "up" /\ phase' = [phase EXCEPT ![f] = "down"]
      /\ pending' = [pending EXCEPT ![f] = {}] /\ writable' = [writable EXCEPT ![f] = FALSE]
      /\ listening' = [listening EXCEPT ![f] = FALSE] /\ llmBound' = [llmBound EXCEPT ![f] = FALSE]
      /\ provider' = IF provider = f THEN NoFiber ELSE provider
      /\ RowWithout({f}) /\ UNCHANGED <<services, config, serviceOwned>>
  BY DEF UnloadPlugin, Disposed, WithdrawService
<1>2. /\ registered' \in [Fiber -> BOOLEAN] /\ row' \in Fiber \union {NoFiber}
      /\ RowBeliefIsTrue'
  BY <1>1, RowWithoutIs
<1>3. WiringTypeOK'
  BY <1>1, <1>2 DEF WiringInv, WiringTypeOK
<1>4. /\ Up' = Up \ {f} /\ pending'[f] = {}
      /\ \A g \in Fiber \ {f} : pending'[g] = pending[g] /\ writable'[g] = writable[g]
  BY <1>1 DEF Up, WiringInv, WiringTypeOK
<1>5. PendingIsCurrent'
  BY <1>1, <1>4 DEF WiringInv, PendingIsCurrent
<1>6. ProviderHasSettled'
  BY <1>1, <1>4 DEF WiringInv, WiringTypeOK, ProviderHasSettled
<1>7. OwnershipIsTrue'
  BY <1>1, <1>4, FiberAssumption DEF WiringInv, WiringTypeOK, OwnershipIsTrue, Up
<1>8. ListenersLive'
  BY <1>1, <1>4 DEF WiringInv, WiringTypeOK, ListenersLive
<1>9. QED
  BY <1>2, <1>3, <1>5, <1>6, <1>7, <1>8 DEF WiringInv

\* An update of the settings document moves the row and nothing else of what is owned.
LEMMA UpdateKeeps ==
  ASSUME WiringInv, NEW now \in Configs, DocumentUpdated(now)
  PROVE  WiringInv'
<1>1. /\ registered' \in [Fiber -> BOOLEAN] /\ row' \in Fiber \union {NoFiber}
      /\ RowBeliefIsTrue'
  BY UpdateIs
<1>2. config' = now /\ UNCHANGED <<phase, services, pending, serviceOwned, writable, listening,
                                   llmBound, provider>>
  BY DEF DocumentUpdated, bindings
<1>3. WiringTypeOK' /\ Up' = Up
  BY <1>1, <1>2 DEF WiringInv, WiringTypeOK, Up
<1>4. QED
  BY <1>1, <1>2, <1>3
  DEF WiringInv, PendingIsCurrent, ProviderHasSettled, ListenersLive, OwnershipIsTrue

\* Every move of a fiber, of a service or of the settings keeps the ownership true.
LEMMA WiringStep ==
  ASSUME WiringInv, [WiringNext]_wiringVars
  PROVE  WiringInv'
<1>1. CASE UNCHANGED wiringVars
  BY <1>1 DEF wiringVars, bindings, WiringInv, WiringTypeOK, PendingIsCurrent, ProviderHasSettled,
              ListenersLive, OwnershipIsTrue, RowBeliefIsTrue, Up
<1>2. CASE WiringNext
  BY <1>2, ApplyKeeps, UnloadKeeps, ProvideKeeps, ChildrenKeep, AppearsKeeps, DisappearsKeeps,
     UpdateKeeps DEF WiringNext
<1>3. QED
  BY <1>1, <1>2

\* Ownership is settled in every state, for any number of fibers: a fiber whose settings
\* child has run says it owns the service exactly when it does, the service can be written,
\* and the fiber that believes the row its own holds it.
THEOREM OwnershipSettles == WiringSpec => []SingletonsAreOwned
<1>1. WiringInv => SingletonsAreOwned
  BY DEF WiringInv, SingletonsAreOwned, ProviderHasSettled, ServiceIsWritable
<1>2. QED
  BY <1>1, WiringStarts, WiringStep, PTL DEF WiringSpec

\* The bundled presets are declared by the provider of the service: the preset child runs
\* after the settings child of its fiber, when the claim is already true.
THEOREM PresetsComeFromTheOwner == WiringSpec => PresetsByOwner
<1>1. ASSUME WiringInv, WiringNext, declarer' # declarer
      PROVE  declarer' = provider
  <2>1. PICK f \in Fiber : DeclarePresets(f)
    BY <1>1 DEF WiringNext, ApplyPlugin, UnloadPlugin, ProvideService, BindSettings, BindRuntime,
                Appears, Disappears, DocumentUpdated, Settles
  <2>2. declarer' = f /\ serviceOwned[f] /\ Settles(f, "preset")
    BY <1>1, <2>1 DEF DeclarePresets
  <2>3. f \in Up /\ "settings" \in services /\ Before("preset") \intersect pending[f] = {}
    BY <1>1, <2>2, SettlesIs
  <2>4. "provide" \notin pending[f]
    BY <2>3 DEF Before
  <2>5. QED
    BY <1>1, <2>2, <2>3, <2>4 DEF WiringInv, OwnershipIsTrue
<1>2. WiringInv /\ [WiringNext]_wiringVars => [declarer' # declarer => declarer' = provider]_wiringVars
  BY <1>1
<1>3. QED
  BY <1>2, WiringStarts, WiringStep, PTL DEF WiringSpec, PresetsByOwner

\* A settings update leaves the row as the config asks, however many fibers hear it and in
\* whichever order they do.
THEOREM UpdatesReachTheRow == WiringSpec => RowAnswersUpdates
<1> DEFINE A == (\E now \in Configs : DocumentUpdated(now)) =>
                  IF config'.active THEN (\E f \in Up : listening[f] /\ llmBound[f]) => row' # NoFiber
                  ELSE row' = NoFiber \/ ~listening[row']
<1>1. ASSUME WiringInv PROVE A
  <2> SUFFICES ASSUME NEW now \in Configs, DocumentUpdated(now)
               PROVE  IF config'.active
                      THEN (\E f \in Up : listening[f] /\ llmBound[f]) => row' # NoFiber
                      ELSE row' = NoFiber \/ ~listening[row']
    OBVIOUS
  <2>1. config' = now
    BY DEF DocumentUpdated
  <2>2. QED
    BY <1>1, <2>1, UpdateIs DEF WiringInv, ListenersLive
<1>2. WiringInv /\ [WiringNext]_wiringVars => [A]_wiringVars
  BY <1>1
<1>3. QED
  BY <1>2, WiringStarts, WiringStep, PTL DEF WiringSpec, RowAnswersUpdates

-----------------------------------------------------------------------------
(* The persona listeners.                                                  *)

TickType == [kind : {"activate", "unload"}, fiber : Fiber, child : Child,
             cancelled : BOOLEAN, gone : BOOLEAN]

PersonaTypeOK ==
  /\ phase \in [Fiber -> {"new", "up", "down"}]
  /\ alive \in SUBSET Child /\ told \in [Child -> SUBSET Fiber]
  /\ record \in [Child -> {"none", "clear", "failed"}]
  /\ claim \in [Child -> Fiber \union {NoFiber}] /\ fibers \in [Fiber -> SUBSET Child]
  /\ ticks \in Seq(TickType) /\ section \in [Child -> Fiber \union {NoFiber, Own}]

\* Living listeners hear of living children.
NoticesLive == \A c \in Child : told[c] \subseteq Up /\ (told[c] # {} => c \in alive)

\* A claim has a living holder and is of a living role child.
ClaimsLive ==
  \A c \in Child : claim[c] # NoFiber => claim[c] \in Up /\ c \in alive /\ record[c] # "none"

\* A listener that holds the injected fiber of a child holds its claim.
HandlesClaimed == \A f \in Fiber, c \in Child : c \in fibers[f] => claim[c] = f

\* An activation under way is of a fiber somebody holds, or was cancelled; one of a child
\* that is gone was; and there is one for a listener and a child.
ActivationsHeld ==
  \A i \in 1..Len(ticks) : ticks[i].kind = "activate" =>
    /\ ~ticks[i].cancelled => ticks[i].child \in fibers[ticks[i].fiber]
    /\ ticks[i].gone => ticks[i].cancelled
    /\ phase[ticks[i].fiber] # "new"
OneActivation ==
  \A i, j \in 1..Len(ticks) :
    /\ ticks[i].kind = "activate" /\ ticks[j].kind = "activate"
    /\ ticks[i].fiber = ticks[j].fiber /\ ticks[i].child = ticks[j].child
    => i = j

\* The section of a living child is withdrawn for a listener that was disposed, and before
\* the next listener registers its own.
UnloadsDown ==
  \A i \in 1..Len(ticks) : ticks[i].kind = "unload" /\ ~ticks[i].gone =>
    phase[ticks[i].fiber] = "down" /\ ~ticks[i].cancelled
UnloadsFirst ==
  \A i, j \in 1..Len(ticks) :
    /\ ticks[i].kind = "unload" /\ ~ticks[i].gone
    /\ ticks[j].kind = "activate" /\ ~ticks[j].cancelled
    /\ ticks[i].child = ticks[j].child
    => i < j

\* Who registered the section a scope carries can still withdraw it, or is withdrawing it.
SectionsHeld ==
  \A c \in Child : section[c] \in Fiber =>
    \/ /\ section[c] \in Up /\ c \in fibers[section[c]]
       /\ \A i \in 1..Len(ticks) :
            ~(ticks[i].kind = "activate" /\ ticks[i].fiber = section[c] /\ ticks[i].child = c)
    \/ \E i \in 1..Len(ticks) : ticks[i] = Tick("unload", section[c], c)

\* A claim that stands for a section stands for its own, or for one the scope brought along.
ClaimsOwn ==
  \A c \in Child : claim[c] # NoFiber =>
    \/ section[c] \in {claim[c], Own}
    \/ record[c] = "failed"
    \/ \E i \in 1..Len(ticks) :
         /\ ticks[i].kind = "activate" /\ ~ticks[i].cancelled
         /\ ticks[i].fiber = claim[c] /\ ticks[i].child = c

PersonaInv ==
  /\ PersonaTypeOK /\ NoticesLive /\ ClaimsLive /\ HandlesClaimed
  /\ ActivationsHeld /\ OneActivation /\ UnloadsDown /\ UnloadsFirst
  /\ SectionsHeld /\ ClaimsOwn

\* A finite set put into a sequence is there in full, each element once.
LEMMA SetToSeqIs ==
  ASSUME NEW S, IsFiniteSet(S)
  PROVE  LET s == SetToSeq(S)
         IN  /\ s \in Seq(S)
             /\ \A i, j \in 1..Len(s) : s[i] = s[j] => i = j
             /\ \A x \in S : \E i \in 1..Len(s) : s[i] = x
<1> DEFINE n == Cardinality(S)
           s == SetToSeq(S)
<1>1. n \in Nat
  BY FS_CardinalityType
<1>2. PICK f : f \in Bijection(1..n, S)
  BY <1>1, FS_NatBijection, FS_CountingElements DEF ExistsBijection
<1>3. f \in [1..n -> S] /\ IsInjective(f)
  BY <1>2 DEF Bijection, Injection
<1>4. s \in [1..n -> S] /\ IsInjective(s)
  BY <1>3 DEF SetToSeq
<1> HIDE DEF s
<1>5. s \in Seq(S) /\ Len(s) = n
  BY <1>1, <1>4
<1>6. \A i, j \in 1..n : s[i] = s[j] => i = j
  BY <1>4 DEF IsInjective
<1>7. s \in Injection(1..n, S)
  BY <1>4 DEF Injection
<1>8. Cardinality(1..n) = n
  BY <1>1, FS_Interval
<1>9. s \in Surjection(1..n, S)
  BY <1>7, <1>8, FS_Injection
<1>10. \A x \in S : \E i \in 1..n : s[i] = x
  BY <1>9 DEF Surjection
<1>11. QED
  BY <1>5, <1>6, <1>10 DEF s

\* What is asked of cordis is a tick of what it was asked for, neither cancelled nor gone.
LEMMA TickIs ==
  ASSUME NEW kind \in {"activate", "unload"}, NEW f \in Fiber, NEW c \in Child
  PROVE  LET t == Tick(kind, f, c)
         IN  t \in TickType /\ ~t.cancelled /\ ~t.gone
BY DEF Tick, TickType

\* `new` is `old` and, after it, the ticks of S, each once.
Adds(old, new, S) ==
  /\ new \in Seq(TickType) /\ Len(new) >= Len(old)
  /\ \A i \in 1..Len(old) : new[i] = old[i]
  /\ \A i \in 1..Len(new) : i > Len(old) => new[i] \in S
  /\ \A i, j \in 1..Len(new) : i > Len(old) /\ j > Len(old) /\ new[i] = new[j] => i = j
  /\ \A t \in S : \E i \in 1..Len(new) : i > Len(old) /\ new[i] = t

\* The ticks asked for at once come after those under way.
LEMMA AddsIs ==
  ASSUME NEW old \in Seq(TickType), NEW S \in SUBSET TickType, IsFiniteSet(S)
  PROVE  Adds(old, old \o SetToSeq(S), S)
<1> DEFINE s == SetToSeq(S)
           new == old \o s
<1>1. /\ s \in Seq(S) /\ s \in Seq(TickType) /\ Len(s) \in Nat /\ Len(old) \in Nat
      /\ \A i, j \in 1..Len(s) : s[i] = s[j] => i = j
      /\ \A x \in S : \E i \in 1..Len(s) : s[i] = x
      /\ \A i \in 1..Len(s) : s[i] \in S
  <2>1. s \in Seq(S)
    BY SetToSeqIs
  <2> HIDE DEF s
  <2>2. s \in Seq(TickType) /\ Len(s) \in Nat /\ Len(old) \in Nat /\ \A i \in 1..Len(s) : s[i] \in S
    BY <2>1, SeqMonotonic
  <2>3. QED
    BY <2>1, <2>2, SetToSeqIs DEF s
<1> HIDE DEF s
<1>2. /\ new \in Seq(TickType) /\ Len(new) = Len(old) + Len(s)
      /\ \A i \in 1..(Len(old) + Len(s)) : new[i] = IF i <= Len(old) THEN old[i] ELSE s[i - Len(old)]
  BY <1>1, ConcatProperties
<1> HIDE DEF new
<1>3. /\ Len(new) >= Len(old)
      /\ \A i \in 1..Len(old) : new[i] = old[i]
  BY <1>1, <1>2
<1>4. \A i \in 1..Len(new) : i > Len(old) => i - Len(old) \in 1..Len(s) /\ new[i] = s[i - Len(old)]
  BY <1>1, <1>2
<1>5. \A i, j \in 1..Len(new) : i > Len(old) /\ j > Len(old) /\ new[i] = new[j] => i = j
  <2> SUFFICES ASSUME NEW i \in 1..Len(new), NEW j \in 1..Len(new), i > Len(old), j > Len(old),
                      new[i] = new[j]
               PROVE  i = j
    OBVIOUS
  <2>1. s[i - Len(old)] = s[j - Len(old)]
    BY <1>4
  <2>2. i - Len(old) = j - Len(old)
    BY <1>1, <1>4, <2>1
  <2>3. QED
    BY <1>1, <1>2, <2>2
<1>6. \A t \in S : \E i \in 1..Len(new) : i > Len(old) /\ new[i] = t
  <2> SUFFICES ASSUME NEW t \in S PROVE \E i \in 1..Len(new) : i > Len(old) /\ new[i] = t
    OBVIOUS
  <2>1. PICK k \in 1..Len(s) : s[k] = t
    BY <1>1
  <2>2. k \in Nat /\ k >= 1 /\ k <= Len(s) /\ Len(new) = Len(old) + Len(s)
    BY <1>1, <1>2
  <2>3. \A a, b \in Nat : k <= b =>
          a + k \in 1..(a + b) /\ a + k > a /\ (a + k) - a = k
    BY <2>2
  <2>4. Len(old) + k \in 1..Len(new) /\ Len(old) + k > Len(old) /\ (Len(old) + k) - Len(old) = k
    BY <1>1, <2>2, <2>3
  <2>5. QED
    BY <1>4, <2>1, <2>4
<1>7. QED
  BY <1>1, <1>2, <1>3, <1>4, <1>5, <1>6 DEF Adds, new, s

\* The image of a finite set of children under the asking is finite.
LEMMA AskedIsFinite ==
  ASSUME NEW kind, NEW P, IsFiniteSet(P)
  PROVE  IsFiniteSet({Tick(kind, p[1], p[2]) : p \in P})
<1> DEFINE g == [p \in P |-> Tick(kind, p[1], p[2])]
           T == {Tick(kind, p[1], p[2]) : p \in P}
<1>1. g \in Surjection(P, T)
  BY DEF Surjection
<1>2. QED
  BY <1>1, FS_Surjection

\* What a release makes of the ticks: those of the released handles are cancelled, and a
\* handle that has activated is asked to unload.
LEMMA ReleasedIs ==
  ASSUME PersonaTypeOK, NEW pairs \in SUBSET (Fiber \X Child)
  PROVE  LET r == Released(pairs)
             waiting == {<<ticks[i].fiber, ticks[i].child>> :
                           i \in {j \in 1..Len(ticks) : ticks[j].kind = "activate"}}
         IN  /\ r \in Seq(TickType) /\ Len(r) >= Len(ticks)
             /\ \A i \in 1..Len(ticks) :
                  /\ r[i].kind = ticks[i].kind /\ r[i].fiber = ticks[i].fiber
                  /\ r[i].child = ticks[i].child /\ r[i].gone = ticks[i].gone
                  /\ r[i].cancelled <=> ticks[i].cancelled \/ <<ticks[i].fiber, ticks[i].child>> \in pairs
                  /\ <<ticks[i].fiber, ticks[i].child>> \notin pairs => r[i] = ticks[i]
             /\ \A i \in 1..Len(r) : i > Len(ticks) =>
                  \E f \in Fiber, c \in Child :
                    <<f, c>> \in pairs \ waiting /\ r[i] = Tick("unload", f, c)
             /\ \A f \in Fiber, c \in Child : <<f, c>> \in pairs \ waiting =>
                  \E i \in 1..Len(r) : r[i] = Tick("unload", f, c)
<1> DEFINE r == Released(pairs)
           waiting == {<<ticks[i].fiber, ticks[i].child>> :
                         i \in {j \in 1..Len(ticks) : ticks[j].kind = "activate"}}
           cancelled == [i \in 1..Len(ticks) |->
                          [ticks[i] EXCEPT !.cancelled =
                             ticks[i].cancelled \/ <<ticks[i].fiber, ticks[i].child>> \in pairs]]
           asked == {Tick("unload", p[1], p[2]) : p \in pairs \ waiting}
<1>1. /\ ticks \in Seq(TickType) /\ Len(ticks) \in Nat /\ DOMAIN ticks = 1..Len(ticks)
      /\ \A i \in 1..Len(ticks) : ticks[i] \in TickType
  BY DEF PersonaTypeOK
<1>2. r = cancelled \o SetToSeq(asked)
  BY <1>1 DEF Released
<1>3. \A i \in 1..Len(ticks) :
        /\ cancelled[i] \in TickType
        /\ cancelled[i].kind = ticks[i].kind /\ cancelled[i].fiber = ticks[i].fiber
        /\ cancelled[i].child = ticks[i].child /\ cancelled[i].gone = ticks[i].gone
        /\ cancelled[i].cancelled <=> ticks[i].cancelled \/ <<ticks[i].fiber, ticks[i].child>> \in pairs
        /\ <<ticks[i].fiber, ticks[i].child>> \notin pairs => cancelled[i] = ticks[i]
  <2> SUFFICES ASSUME NEW i \in 1..Len(ticks)
               PROVE  LET t == ticks[i]
                          among == <<t.fiber, t.child>> \in pairs
                      IN  /\ cancelled[i] \in TickType
                          /\ cancelled[i].kind = t.kind /\ cancelled[i].fiber = t.fiber
                          /\ cancelled[i].child = t.child /\ cancelled[i].gone = t.gone
                          /\ cancelled[i].cancelled <=> t.cancelled \/ among
                          /\ ~among => cancelled[i] = t
    OBVIOUS
  <2> DEFINE t == ticks[i]
             among == <<t.fiber, t.child>> \in pairs
  <2>1. t \in TickType /\ among \in BOOLEAN
    BY <1>1
  <2>2. cancelled[i] = [t EXCEPT !.cancelled = t.cancelled \/ among]
    OBVIOUS
  <2> HIDE DEF t, among, cancelled
  <2>3. (t.cancelled \/ among) \in BOOLEAN /\ (~among => (t.cancelled \/ among) = t.cancelled)
    BY <2>1 DEF TickType
  <2>4. ASSUME NEW b \in BOOLEAN, cancelled[i] = [t EXCEPT !.cancelled = b]
        PROVE  /\ cancelled[i] \in TickType
               /\ cancelled[i].kind = t.kind /\ cancelled[i].fiber = t.fiber
               /\ cancelled[i].child = t.child /\ cancelled[i].gone = t.gone
               /\ cancelled[i].cancelled = b
               /\ b = t.cancelled => cancelled[i] = t
    BY <2>1, <2>4 DEF TickType
  <2>5. QED
    BY <2>2, <2>3, <2>4 DEF t, among
<1>4. cancelled \in Seq(TickType) /\ Len(cancelled) = Len(ticks)
  <2>1. cancelled \in [1..Len(ticks) -> TickType]
    BY <1>3
  <2> HIDE DEF cancelled
  <2>2. QED
    BY <1>1, <2>1
<1>5. asked \in SUBSET TickType
  <2>1. \A p \in pairs : Tick("unload", p[1], p[2]) \in TickType
    BY TickIs
  <2>2. QED
    BY <2>1
<1>6. IsFiniteSet(asked)
  <2>1. IsFiniteSet(Fiber \X Child)
    BY FS_Product, FiberAssumption, PersonaAssumption
  <2>2. IsFiniteSet(pairs \ waiting)
    BY <2>1, FS_Subset
  <2> HIDE DEF waiting
  <2>3. QED
    BY <2>2, AskedIsFinite
<1> HIDE DEF cancelled, r
<1>7. Adds(cancelled, r, asked)
  <2> HIDE DEF asked
  <2>1. QED
    BY <1>2, <1>4, <1>5, <1>6, AddsIs
<1>8. r \in Seq(TickType) /\ Len(r) >= Len(ticks) /\ \A i \in 1..Len(ticks) : r[i] = cancelled[i]
  BY <1>4, <1>7 DEF Adds
<1>9. \A i \in 1..Len(r) : i > Len(ticks) => r[i] \in asked
  BY <1>4, <1>7 DEF Adds
<1>10. \A t \in asked : \E i \in 1..Len(r) : r[i] = t
  BY <1>7 DEF Adds
<1>11. \A i \in 1..Len(r) : i > Len(ticks) =>
         \E f \in Fiber, c \in Child : <<f, c>> \in pairs \ waiting /\ r[i] = Tick("unload", f, c)
  <2> HIDE DEF waiting
  <2>1. QED
    BY <1>9
<1>12. \A f \in Fiber, c \in Child : <<f, c>> \in pairs \ waiting =>
         \E i \in 1..Len(r) : r[i] = Tick("unload", f, c)
  <2> HIDE DEF waiting
  <2>1. \A f \in Fiber, c \in Child : <<f, c>> \in pairs \ waiting => Tick("unload", f, c) \in asked
    OBVIOUS
  <2> HIDE DEF asked
  <2>2. QED
    BY <1>10, <2>1
<1>13. QED
  BY <1>3, <1>8, <1>11, <1>12 DEF r

\* An installation asks for the activations of the children nobody had claimed.
LEMMA InstallIs ==
  ASSUME PersonaTypeOK, NEW f \in Fiber, NEW asked \in SUBSET Child,
         NEW declaring \in SUBSET Child, InstallPersona(f, asked, declaring)
  PROVE  \E given \in SUBSET asked :
           /\ \A c \in given : claim[c] = NoFiber /\ record[c] # "none"
           /\ claim' = [c \in Child |-> IF c \in given THEN f ELSE claim[c]]
           /\ fibers' = [fibers EXCEPT ![f] = fibers[f] \union given]
           /\ Adds(ticks, ticks', {Tick("activate", f, c) : c \in given})
<1> DEFINE given == {c \in asked : Owes(c)} \intersect declaring
           S == {Tick("activate", f, c) : c \in given}
<1>1. /\ claim' = [c \in Child |-> IF c \in given THEN f ELSE claim[c]]
      /\ fibers' = [fibers EXCEPT ![f] = fibers[f] \union given]
      /\ ticks' = ticks \o SetToSeq(S)
  BY DEF InstallPersona, PersonaTypeOK
<1>2. given \in SUBSET asked /\ \A c \in given : claim[c] = NoFiber /\ record[c] # "none"
  BY DEF Owes
<1>3. IsFiniteSet(given)
  BY FS_Subset, PersonaAssumption
<1> HIDE DEF given
<1>4. S \in SUBSET TickType
  <2>1. \A c \in given : Tick("activate", f, c) \in TickType
    BY <1>2, TickIs
  <2>2. QED
    BY <2>1
<1>5. IsFiniteSet(S)
  <2> DEFINE g == [c \in given |-> Tick("activate", f, c)]
  <2>1. g \in Surjection(given, S)
    BY DEF Surjection
  <2>2. QED
    BY <1>3, <2>1, FS_Surjection
<1>6. Adds(ticks, ticks', S)
  <2> HIDE DEF S
  <2>1. QED
    BY <1>1, <1>4, <1>5, AddsIs DEF PersonaTypeOK
<1>7. QED
  BY <1>1, <1>2, <1>6

\* The claim comes with its activation, and is for a child no listener had: nothing that
\* stands is disturbed.
LEMMA InstallKeeps ==
  ASSUME PersonaInv, NEW f \in Fiber, NEW asked \in SUBSET Child, NEW declaring \in SUBSET Child,
         InstallPersona(f, asked, declaring), asked \subseteq alive,
         \A i \in 1..Len(ticks) :
           ticks[i].kind = "activate" => ticks[i].fiber # f \/ ticks[i].child \notin asked,
         phase' = [phase EXCEPT ![f] = "up"], phase[f] # "down",
         told' \in [Child -> SUBSET Fiber], \A c \in Child : told'[c] \subseteq told[c],
         UNCHANGED <<alive, record, section>>
  PROVE  PersonaInv'
<1>1. PICK given \in SUBSET asked :
        /\ \A c \in given : claim[c] = NoFiber /\ record[c] # "none"
        /\ claim' = [c \in Child |-> IF c \in given THEN f ELSE claim[c]]
        /\ fibers' = [fibers EXCEPT ![f] = fibers[f] \union given]
        /\ Adds(ticks, ticks', {Tick("activate", f, c) : c \in given})
  BY InstallIs DEF PersonaInv
<1>2. /\ ticks' \in Seq(TickType) /\ Len(ticks') \in Nat /\ Len(ticks) \in Nat
      /\ Len(ticks') >= Len(ticks)
      /\ \A i \in 1..Len(ticks) : i \in 1..Len(ticks') /\ ticks'[i] = ticks[i] /\ ticks[i] \in TickType
  BY <1>1 DEF Adds, PersonaInv, PersonaTypeOK
<1>3. \A i \in 1..Len(ticks') : i \notin 1..Len(ticks) =>
        \E c \in given : /\ ticks'[i] = Tick("activate", f, c) /\ ticks'[i].kind = "activate"
                         /\ ticks'[i].fiber = f /\ ticks'[i].child = c
                         /\ ticks'[i].cancelled = FALSE /\ ticks'[i].gone = FALSE
  <2> SUFFICES ASSUME NEW i \in 1..Len(ticks'), i \notin 1..Len(ticks)
               PROVE  \E c \in given :
                        /\ ticks'[i] = Tick("activate", f, c) /\ ticks'[i].kind = "activate"
                        /\ ticks'[i].fiber = f /\ ticks'[i].child = c
                        /\ ticks'[i].cancelled = FALSE /\ ticks'[i].gone = FALSE
    OBVIOUS
  <2>1. i > Len(ticks)
    BY <1>2
  <2>2. PICK c \in given : ticks'[i] = Tick("activate", f, c)
    BY <1>1, <2>1 DEF Adds
  <2>3. LET t == Tick("activate", f, c)
        IN  /\ t.kind = "activate" /\ t.fiber = f /\ t.child = c
            /\ t.cancelled = FALSE /\ t.gone = FALSE
    BY DEF Tick
  <2>4. QED
    BY <2>2, <2>3
<1>4. /\ Up \subseteq Up' /\ f \in Up' /\ phase' \in [Fiber -> {"new", "up", "down"}]
      /\ phase'[f] = "up" /\ \A g \in Fiber \ {f} : phase'[g] = phase[g]
  BY DEF Up, PersonaInv, PersonaTypeOK
<1>5. /\ \A c \in given : claim'[c] = f /\ claim[c] = NoFiber /\ c \in alive /\ record[c] # "none"
      /\ \A c \in Child \ given : claim'[c] = claim[c]
      /\ given \subseteq Child /\ f # NoFiber
  BY <1>1, FiberAssumption
<1>6. /\ fibers' \in [Fiber -> SUBSET Child] /\ fibers'[f] = fibers[f] \union given
      /\ \A g \in Fiber \ {f} : fibers'[g] = fibers[g]
      /\ \A g \in Fiber : fibers[g] \subseteq fibers'[g]
  BY <1>1, <1>5 DEF PersonaInv, PersonaTypeOK
<1>7. PersonaTypeOK'
  BY <1>1, <1>2, <1>4, <1>6 DEF PersonaInv, PersonaTypeOK
<1>8. NoticesLive'
  BY <1>4 DEF PersonaInv, NoticesLive
<1>9. ClaimsLive'
  BY <1>4, <1>5 DEF PersonaInv, ClaimsLive
<1>10. HandlesClaimed'
  BY <1>5, <1>6, FiberAssumption DEF PersonaInv, HandlesClaimed
<1>11. ActivationsHeld'
  <2> SUFFICES ASSUME NEW i \in 1..Len(ticks'), ticks'[i].kind = "activate"
               PROVE  /\ ~ticks'[i].cancelled => ticks'[i].child \in fibers'[ticks'[i].fiber]
                      /\ ticks'[i].gone => ticks'[i].cancelled
                      /\ phase'[ticks'[i].fiber] # "new"
    BY DEF ActivationsHeld
  <2>1. CASE i \in 1..Len(ticks)
    <3>1. ticks'[i] = ticks[i] /\ ticks[i].fiber \in Fiber
      BY <1>2, <2>1 DEF TickType
    <3>2. /\ ~ticks[i].cancelled => ticks[i].child \in fibers[ticks[i].fiber]
          /\ ticks[i].gone => ticks[i].cancelled
          /\ phase[ticks[i].fiber] # "new"
      BY <2>1, <3>1 DEF PersonaInv, ActivationsHeld
    <3>3. QED
      BY <1>4, <1>6, <3>1, <3>2
  <2>2. CASE i \notin 1..Len(ticks)
    BY <1>3, <1>4, <1>6, <2>2
  <2>3. QED
    BY <2>1, <2>2
<1>12. OneActivation'
  <2> SUFFICES ASSUME NEW i \in 1..Len(ticks'), NEW j \in 1..Len(ticks'),
                      ticks'[i].kind = "activate", ticks'[j].kind = "activate",
                      ticks'[i].fiber = ticks'[j].fiber, ticks'[i].child = ticks'[j].child
               PROVE  i = j
    BY DEF OneActivation
  <2>1. CASE i \in 1..Len(ticks) /\ j \in 1..Len(ticks)
    BY <1>2, <2>1 DEF PersonaInv, OneActivation
  <2>2. CASE i \notin 1..Len(ticks) /\ j \notin 1..Len(ticks)
    <3>1. ticks'[i] = ticks'[j]
      BY <1>3, <2>2
    <3>2. i > Len(ticks) /\ j > Len(ticks)
      BY <1>2, <2>2
    <3>3. QED
      BY <1>1, <3>1, <3>2 DEF Adds
  <2>3. CASE i \in 1..Len(ticks) /\ j \notin 1..Len(ticks)
    BY <1>2, <1>3, <2>3
  <2>4. CASE i \notin 1..Len(ticks) /\ j \in 1..Len(ticks)
    BY <1>2, <1>3, <2>4
  <2>5. QED
    BY <2>1, <2>2, <2>3, <2>4
<1>13. \A i \in 1..Len(ticks') : ticks'[i].kind = "unload" => i \in 1..Len(ticks) /\ ticks'[i] = ticks[i]
  BY <1>2, <1>3
<1>14. UnloadsDown'
  <2> SUFFICES ASSUME NEW i \in 1..Len(ticks'), ticks'[i].kind = "unload", ~ticks'[i].gone
               PROVE  phase'[ticks'[i].fiber] = "down" /\ ~ticks'[i].cancelled
    BY DEF UnloadsDown
  <2>1. i \in 1..Len(ticks) /\ ticks'[i] = ticks[i] /\ ticks[i].fiber \in Fiber
    BY <1>2, <1>13 DEF TickType
  <2>2. phase[ticks[i].fiber] = "down" /\ ~ticks[i].cancelled
    BY <2>1 DEF PersonaInv, UnloadsDown
  <2>3. QED
    BY <1>4, <2>1, <2>2
<1>15. UnloadsFirst'
  <2> SUFFICES ASSUME NEW i \in 1..Len(ticks'), NEW j \in 1..Len(ticks'),
                      ticks'[i].kind = "unload", ~ticks'[i].gone,
                      ticks'[j].kind = "activate", ~ticks'[j].cancelled,
                      ticks'[i].child = ticks'[j].child
               PROVE  i < j
    BY DEF UnloadsFirst
  <2>1. i \in 1..Len(ticks) /\ ticks'[i] = ticks[i]
    BY <1>13
  <2>2. CASE j \in 1..Len(ticks)
    BY <1>2, <2>1, <2>2 DEF PersonaInv, UnloadsFirst
  <2>3. CASE j \notin 1..Len(ticks)
    BY <1>2, <2>1, <2>3
  <2>4. QED
    BY <2>2, <2>3
<1>16. SectionsHeld'
  <2> SUFFICES ASSUME NEW c \in Child, section[c] \in Fiber
               PROVE  \/ /\ section[c] \in Up' /\ c \in fibers'[section[c]]
                         /\ \A i \in 1..Len(ticks') :
                              ~(ticks'[i].kind = "activate" /\ ticks'[i].fiber = section[c]
                                /\ ticks'[i].child = c)
                      \/ \E i \in 1..Len(ticks') : ticks'[i] = Tick("unload", section[c], c)
    BY DEF SectionsHeld
  <2>1. CASE \E i \in 1..Len(ticks) : ticks[i] = Tick("unload", section[c], c)
    BY <1>2, <2>1
  <2>2. CASE /\ section[c] \in Up /\ c \in fibers[section[c]]
             /\ \A i \in 1..Len(ticks) :
                  ~(ticks[i].kind = "activate" /\ ticks[i].fiber = section[c] /\ ticks[i].child = c)
    <3>1. c \notin given
      BY <1>5, <2>2, FiberAssumption DEF PersonaInv, HandlesClaimed
    <3>2. QED
      BY <1>2, <1>3, <1>4, <1>6, <2>2, <3>1
  <2>3. QED
    BY <2>1, <2>2 DEF PersonaInv, SectionsHeld
<1>17. ClaimsOwn'
  <2> SUFFICES ASSUME NEW c \in Child, claim'[c] # NoFiber
               PROVE  \/ section[c] \in {claim'[c], Own}
                      \/ record[c] = "failed"
                      \/ \E i \in 1..Len(ticks') :
                           /\ ticks'[i].kind = "activate" /\ ~ticks'[i].cancelled
                           /\ ticks'[i].fiber = claim'[c] /\ ticks'[i].child = c
    BY DEF ClaimsOwn
  <2>1. CASE c \in given
    <3>1. PICK i \in 1..Len(ticks') : ticks'[i] = Tick("activate", f, c)
      BY <1>1, <2>1 DEF Adds
    <3>2. LET t == Tick("activate", f, c)
          IN  t.kind = "activate" /\ t.fiber = f /\ t.child = c /\ ~t.cancelled
      BY DEF Tick
    <3>3. QED
      BY <1>5, <2>1, <3>1, <3>2
  <2>2. CASE c \notin given
    <3>1. claim'[c] = claim[c]
      BY <1>5, <2>2
    <3>2. QED
      BY <1>2, <3>1 DEF PersonaInv, ClaimsOwn
  <2>3. QED
    BY <2>1, <2>2
<1>18. QED
  BY <1>7, <1>8, <1>9, <1>10, <1>11, <1>12, <1>14, <1>15, <1>16, <1>17 DEF PersonaInv

\* The backfill of a listener that is new, and the notification of a child no installation
\* is under way for.
LEMMA ListenersInstall ==
  ASSUME PersonaInv, NEW f \in Fiber,
         InstallRolePersona(f) \/ (\E c \in Child : AgentCreated(f, c))
  PROVE  PersonaInv'
<1>1. CASE InstallRolePersona(f)
  <2>1. PICK declaring \in SUBSET Child : InstallPersona(f, alive, declaring)
    BY <1>1 DEF InstallRolePersona
  <2>2. /\ phase[f] = "new" /\ phase' = [phase EXCEPT ![f] = "up"]
        /\ UNCHANGED <<alive, told, record, section>>
    BY <1>1 DEF InstallRolePersona, Applied
  <2>3. \A i \in 1..Len(ticks) : ticks[i].kind = "activate" => ticks[i].fiber # f
    BY <2>2 DEF PersonaInv, ActivationsHeld
  <2>4. alive \in SUBSET Child /\ told \in [Child -> SUBSET Fiber]
    BY DEF PersonaInv, PersonaTypeOK
  <2>5. QED
    BY <2>1, <2>2, <2>3, <2>4, InstallKeeps
<1>2. ASSUME NEW c \in Child, AgentCreated(f, c) PROVE PersonaInv'
  <2>1. PICK declaring \in SUBSET {c} : InstallPersona(f, {c}, declaring)
    BY <1>2 DEF AgentCreated
  <2>2. /\ f \in told[c] /\ InFlight(c) = {} /\ told' = [told EXCEPT ![c] = told[c] \ {f}]
        /\ UNCHANGED <<phase, alive, record, section>>
    BY <1>2 DEF AgentCreated, PersonaInv, PersonaTypeOK
  <2>3. f \in Up /\ c \in alive
    BY <2>2 DEF PersonaInv, NoticesLive
  <2>4. phase' = [phase EXCEPT ![f] = "up"] /\ phase[f] # "down"
    BY <2>2, <2>3 DEF Up, PersonaInv, PersonaTypeOK
  <2>5. \A i \in 1..Len(ticks) :
          ticks[i].kind = "activate" => ticks[i].fiber # f \/ ticks[i].child \notin {c}
    BY <2>2 DEF InFlight, PersonaInv, PersonaTypeOK
  <2>6. told' \in [Child -> SUBSET Fiber] /\ \A d \in Child : told'[d] \subseteq told[d]
    BY <2>2 DEF PersonaInv, PersonaTypeOK
  <2>7. declaring \in SUBSET Child /\ {c} \in SUBSET Child /\ {c} \subseteq alive
    BY <2>1, <2>3
  <2>8. QED
    BY <2>1, <2>2, <2>4, <2>5, <2>6, <2>7, InstallKeeps
<1>3. QED
  BY <1>1, <1>2

\* No listener, no child, no claim: nothing to be out of step.
LEMMA PersonaStarts == PersonaInit => PersonaInv
<1> SUFFICES ASSUME PersonaInit PROVE PersonaInv
  OBVIOUS
<1>1. /\ ticks = <<>> /\ Len(ticks) = 0 /\ alive = {} /\ phase = [f \in Fiber |-> "new"]
      /\ told = [c \in Child |-> {}] /\ record = [c \in Child |-> "none"]
      /\ claim = [c \in Child |-> NoFiber] /\ section = [c \in Child |-> NoFiber]
      /\ fibers = [f \in Fiber |-> {}]
  BY DEF PersonaInit, NoneApplied
<1>2. PersonaTypeOK
  BY <1>1 DEF PersonaTypeOK
<1>3. \A i \in 1..Len(ticks) : FALSE
  BY <1>1
<1>4. NoticesLive /\ ClaimsLive /\ HandlesClaimed /\ SectionsHeld /\ ClaimsOwn
  BY <1>1, FiberAssumption DEF NoticesLive, ClaimsLive, HandlesClaimed, SectionsHeld, ClaimsOwn
<1>5. ActivationsHeld /\ OneActivation /\ UnloadsDown /\ UnloadsFirst
  BY <1>3 DEF ActivationsHeld, OneActivation, UnloadsDown, UnloadsFirst
<1>6. QED
  BY <1>2, <1>4, <1>5 DEF PersonaInv

\* A child that is born, or announced again, has no claim to lose and owes nobody a section.
LEMMA BirthsKeep ==
  ASSUME PersonaInv, NEW c \in Child, CreateChild(c) \/ Announce(c)
  PROVE  PersonaInv'
<1>1. CASE CreateChild(c)
  <2>1. /\ c \notin alive /\ alive' = alive \union {c} /\ told' = [told EXCEPT ![c] = Up]
        /\ UNCHANGED <<phase, claim, fibers, ticks>> /\ Up' = Up
    BY <1>1 DEF CreateChild, Up
  <2>2. PICK n \in {"none", "clear"} : record' = [record EXCEPT ![c] = n]
    BY <1>1 DEF CreateChild
  <2>3. PICK own \in {NoFiber, Own} : section' = [section EXCEPT ![c] = own]
    BY <1>1 DEF CreateChild
  <2>4. claim[c] = NoFiber
    BY <2>1 DEF PersonaInv, ClaimsLive
  <2>5. /\ section'[c] \notin Fiber
        /\ \A d \in Child \ {c} : section'[d] = section[d] /\ record'[d] = record[d]
    BY <2>2, <2>3, FiberAssumption, PersonaAssumption DEF PersonaInv, PersonaTypeOK
  <2>6. PersonaTypeOK'
    BY <2>1, <2>2, <2>3 DEF PersonaInv, PersonaTypeOK, Up
  <2>7. NoticesLive'
    BY <2>1 DEF PersonaInv, PersonaTypeOK, NoticesLive, Up
  <2>8. ClaimsLive'
    BY <2>1, <2>4, <2>5 DEF PersonaInv, ClaimsLive
  <2>9. SectionsHeld'
    BY <2>1, <2>5 DEF PersonaInv, SectionsHeld
  <2>10. ClaimsOwn'
    BY <2>1, <2>4, <2>5 DEF PersonaInv, ClaimsOwn
  <2>11. QED
    BY <2>1, <2>6, <2>7, <2>8, <2>9, <2>10
    DEF PersonaInv, HandlesClaimed, ActivationsHeld, OneActivation, UnloadsDown, UnloadsFirst
<1>2. CASE Announce(c)
  <2>1. /\ c \in alive /\ told' = [told EXCEPT ![c] = Up] /\ Up' = Up
        /\ UNCHANGED <<phase, alive, record, claim, fibers, ticks, section>>
    BY <1>2 DEF Announce, Up
  <2>2. PersonaTypeOK' /\ NoticesLive'
    BY <2>1 DEF PersonaInv, PersonaTypeOK, NoticesLive, Up
  <2>3. QED
    BY <2>1, <2>2
    DEF PersonaInv, ClaimsLive, HandlesClaimed, ActivationsHeld, OneActivation, UnloadsDown,
        UnloadsFirst, SectionsHeld, ClaimsOwn
<1>3. QED
  BY <1>1, <1>2

\* The disposal of a child cancels what was under way for it and marks the rest as gone
\* with its scope; the ticks of other children are as they were.
LEMMA ScopeGone ==
  ASSUME PersonaInv, NEW c \in Child, ChildDisposed(c)
  PROVE  /\ ticks' \in Seq(TickType) /\ Len(ticks') >= Len(ticks)
         /\ \A i \in 1..Len(ticks) :
              /\ ticks'[i].kind = ticks[i].kind /\ ticks'[i].fiber = ticks[i].fiber
              /\ ticks'[i].child = ticks[i].child
              /\ ticks[i].cancelled => ticks'[i].cancelled
              /\ ticks[i].child = c => /\ ticks'[i].gone
                                       /\ ticks[i].kind = "activate" => ticks'[i].cancelled
              /\ ticks[i].child # c => ticks'[i] = ticks[i]
         /\ \A i \in 1..Len(ticks') : i \notin 1..Len(ticks) =>
              ticks'[i].kind = "unload" /\ ticks'[i].child = c /\ ticks'[i].gone
<1> DEFINE pairs == {<<f, c>> : f \in {g \in Up : c \in fibers[g]}}
           left == Released(pairs)
<1>1. ticks' = [i \in DOMAIN left |-> [left[i] EXCEPT !.gone = left[i].gone \/ left[i].child = c]]
  BY DEF ChildDisposed
<1>2. pairs \in SUBSET (Fiber \X Child)
  BY DEF Up
<1>3. \A f \in Fiber, d \in Child : <<f, d>> \in pairs <=> d = c /\ f \in Up /\ c \in fibers[f]
  BY DEF Up
<1>4. PersonaTypeOK /\ Len(ticks) \in Nat /\ \A i \in 1..Len(ticks) : ticks[i] \in TickType
  BY DEF PersonaInv, PersonaTypeOK
<1> HIDE DEF pairs
<1>5. /\ left \in Seq(TickType) /\ Len(left) >= Len(ticks)
      /\ \A i \in 1..Len(ticks) :
           /\ left[i].kind = ticks[i].kind /\ left[i].fiber = ticks[i].fiber
           /\ left[i].child = ticks[i].child /\ left[i].gone = ticks[i].gone
           /\ left[i].cancelled <=> ticks[i].cancelled \/ <<ticks[i].fiber, ticks[i].child>> \in pairs
           /\ <<ticks[i].fiber, ticks[i].child>> \notin pairs => left[i] = ticks[i]
      /\ \A i \in 1..Len(left) : i > Len(ticks) =>
           \E f \in Fiber, d \in Child : <<f, d>> \in pairs /\ left[i] = Tick("unload", f, d)
  BY <1>2, <1>4, ReleasedIs
<1> HIDE DEF left
<1>6. /\ Len(left) \in Nat /\ DOMAIN left = 1..Len(left)
      /\ \A i \in 1..Len(left) : left[i] \in TickType
  BY <1>5
<1>7. \A i \in 1..Len(left) :
        /\ ticks'[i] \in TickType
        /\ ticks'[i].kind = left[i].kind /\ ticks'[i].fiber = left[i].fiber
        /\ ticks'[i].child = left[i].child /\ ticks'[i].cancelled = left[i].cancelled
        /\ left[i].child = c => ticks'[i].gone
        /\ left[i].child # c => ticks'[i] = left[i]
  <2> SUFFICES ASSUME NEW i \in 1..Len(left)
               PROVE  /\ ticks'[i] \in TickType
                      /\ ticks'[i].kind = left[i].kind /\ ticks'[i].fiber = left[i].fiber
                      /\ ticks'[i].child = left[i].child /\ ticks'[i].cancelled = left[i].cancelled
                      /\ left[i].child = c => ticks'[i].gone
                      /\ left[i].child # c => ticks'[i] = left[i]
    OBVIOUS
  <2> DEFINE b == left[i].gone \/ left[i].child = c
  <2>1. ticks'[i] = [left[i] EXCEPT !.gone = b]
    BY <1>1, <1>6
  <2>2. /\ b \in BOOLEAN /\ (left[i].child = c => b) /\ (left[i].child # c => b = left[i].gone)
        /\ left[i] \in TickType
    BY <1>6 DEF TickType
  <2> HIDE DEF b
  <2>3. QED
    BY <2>1, <2>2 DEF TickType
<1>8. ticks' \in Seq(TickType) /\ Len(ticks') = Len(left)
  <2>1. ticks' \in [1..Len(left) -> TickType]
    BY <1>1, <1>6, <1>7
  <2>2. QED
    BY <1>6, <2>1
<1>9. ASSUME NEW i \in 1..Len(ticks)
      PROVE  /\ ticks'[i].kind = ticks[i].kind /\ ticks'[i].fiber = ticks[i].fiber
             /\ ticks'[i].child = ticks[i].child
             /\ ticks[i].cancelled => ticks'[i].cancelled
             /\ ticks[i].child = c => /\ ticks'[i].gone
                                      /\ ticks[i].kind = "activate" => ticks'[i].cancelled
             /\ ticks[i].child # c => ticks'[i] = ticks[i]
  <2>1. i \in 1..Len(left) /\ ticks[i].fiber \in Fiber /\ ticks[i].child \in Child
    BY <1>4, <1>5, <1>6 DEF TickType
  <2>2. /\ ticks'[i].kind = ticks[i].kind /\ ticks'[i].fiber = ticks[i].fiber
        /\ ticks'[i].child = ticks[i].child
        /\ ticks[i].cancelled => ticks'[i].cancelled
        /\ ticks[i].child = c => ticks'[i].gone
    BY <1>5, <1>7, <2>1
  <2>3. ticks[i].child # c => ticks'[i] = ticks[i]
    BY <1>3, <1>5, <1>7, <2>1
  <2>4. ASSUME ticks[i].child = c, ticks[i].kind = "activate", ~ticks[i].cancelled
        PROVE  ticks'[i].cancelled
    <3>1. c \in fibers[ticks[i].fiber]
      BY <2>4 DEF PersonaInv, ActivationsHeld
    <3>2. ticks[i].fiber \in Up
      BY <2>1, <3>1, FiberAssumption DEF PersonaInv, HandlesClaimed, ClaimsLive
    <3>3. QED
      BY <1>3, <1>5, <1>7, <2>1, <2>4, <3>1, <3>2
  <2>5. QED
    BY <2>2, <2>3, <2>4
<1>10. ASSUME NEW i \in 1..Len(ticks'), i \notin 1..Len(ticks)
       PROVE  ticks'[i].kind = "unload" /\ ticks'[i].child = c /\ ticks'[i].gone
  <2>1. i \in 1..Len(left) /\ i > Len(ticks)
    BY <1>4, <1>6, <1>8, <1>10
  <2>2. PICK f \in Fiber, d \in Child : <<f, d>> \in pairs /\ left[i] = Tick("unload", f, d)
    BY <1>5, <2>1
  <2>3. d = c /\ left[i].kind = "unload" /\ left[i].child = d
    BY <1>3, <2>2 DEF Tick
  <2>4. QED
    BY <1>7, <2>1, <2>3
<1>11. QED
  BY <1>5, <1>8, <1>9, <1>10

\* A child takes its claim, its section and the handles on its fibers along.
LEMMA ChildDisposedKeeps ==
  ASSUME PersonaInv, NEW c \in Child, ChildDisposed(c)
  PROVE  PersonaInv'
<1>1. /\ alive' = alive \ {c} /\ told' = [told EXCEPT ![c] = {}]
      /\ record' = [record EXCEPT ![c] = "none"] /\ section' = [section EXCEPT ![c] = NoFiber]
      /\ claim' = [claim EXCEPT ![c] = NoFiber] /\ fibers' = [f \in Fiber |-> fibers[f] \ {c}]
      /\ phase' = phase /\ Up' = Up
  BY DEF ChildDisposed, Up
<1>2. /\ ticks' \in Seq(TickType) /\ Len(ticks') >= Len(ticks)
      /\ \A i \in 1..Len(ticks) :
           /\ ticks'[i].kind = ticks[i].kind /\ ticks'[i].fiber = ticks[i].fiber
           /\ ticks'[i].child = ticks[i].child
           /\ ticks[i].cancelled => ticks'[i].cancelled
           /\ ticks[i].child = c => /\ ticks'[i].gone
                                    /\ ticks[i].kind = "activate" => ticks'[i].cancelled
           /\ ticks[i].child # c => ticks'[i] = ticks[i]
      /\ \A i \in 1..Len(ticks') : i \notin 1..Len(ticks) =>
           ticks'[i].kind = "unload" /\ ticks'[i].child = c /\ ticks'[i].gone
  BY ScopeGone
<1>3. /\ Len(ticks) \in Nat /\ Len(ticks') \in Nat /\ \A i \in 1..Len(ticks) : ticks[i] \in TickType
      /\ 1..Len(ticks) \subseteq 1..Len(ticks')
  BY <1>2 DEF PersonaInv, PersonaTypeOK
<1>4. /\ claim'[c] = NoFiber /\ section'[c] = NoFiber
      /\ \A d \in Child \ {c} : claim'[d] = claim[d] /\ section'[d] = section[d]
                                /\ record'[d] = record[d]
      /\ \A f \in Fiber, d \in Child : d \in fibers'[f] <=> d \in fibers[f] /\ d # c
  BY <1>1 DEF PersonaInv, PersonaTypeOK
<1>5. PersonaTypeOK'
  BY <1>1, <1>2 DEF PersonaInv, PersonaTypeOK
<1>6. NoticesLive'
  BY <1>1 DEF PersonaInv, PersonaTypeOK, NoticesLive
<1>7. ClaimsLive'
  BY <1>1, <1>4 DEF PersonaInv, ClaimsLive
<1>8. HandlesClaimed'
  BY <1>4 DEF PersonaInv, HandlesClaimed
<1>9. \A i \in 1..Len(ticks') : ticks'[i].kind = "activate" => i \in 1..Len(ticks)
  BY <1>2
<1>10. ActivationsHeld'
  <2> SUFFICES ASSUME NEW i \in 1..Len(ticks'), ticks'[i].kind = "activate"
               PROVE  /\ ~ticks'[i].cancelled => ticks'[i].child \in fibers'[ticks'[i].fiber]
                      /\ ticks'[i].gone => ticks'[i].cancelled
                      /\ phase'[ticks'[i].fiber] # "new"
    BY DEF ActivationsHeld
  <2>1. i \in 1..Len(ticks) /\ ticks[i].kind = "activate" /\ ticks[i] \in TickType
    BY <1>2, <1>3, <1>9
  <2>2. /\ ~ticks[i].cancelled => ticks[i].child \in fibers[ticks[i].fiber]
        /\ ticks[i].gone => ticks[i].cancelled
        /\ phase[ticks[i].fiber] # "new"
    BY <2>1 DEF PersonaInv, ActivationsHeld
  <2>3. QED
    BY <1>1, <1>2, <1>4, <2>1, <2>2 DEF TickType
<1>11. OneActivation'
  BY <1>2, <1>9 DEF PersonaInv, OneActivation
<1>12. \A i \in 1..Len(ticks') : ticks'[i].kind = "unload" /\ ~ticks'[i].gone =>
         i \in 1..Len(ticks) /\ ticks'[i] = ticks[i]
  BY <1>2
<1>13. UnloadsDown'
  BY <1>1, <1>12 DEF PersonaInv, UnloadsDown
<1>14. UnloadsFirst'
  <2> SUFFICES ASSUME NEW i \in 1..Len(ticks'), NEW j \in 1..Len(ticks'),
                      ticks'[i].kind = "unload", ~ticks'[i].gone,
                      ticks'[j].kind = "activate", ~ticks'[j].cancelled,
                      ticks'[i].child = ticks'[j].child
               PROVE  i < j
    BY DEF UnloadsFirst
  <2>1. i \in 1..Len(ticks) /\ ticks'[i] = ticks[i] /\ j \in 1..Len(ticks)
    BY <1>9, <1>12
  <2>2. ticks[j].kind = "activate" /\ ~ticks[j].cancelled /\ ticks[i].child = ticks[j].child
    BY <1>2, <2>1
  <2>3. QED
    BY <2>1, <2>2 DEF PersonaInv, UnloadsFirst
<1>15. SectionsHeld'
  <2> SUFFICES ASSUME NEW d \in Child, section'[d] \in Fiber
               PROVE  \/ /\ section'[d] \in Up' /\ d \in fibers'[section'[d]]
                         /\ \A i \in 1..Len(ticks') :
                              ~(ticks'[i].kind = "activate" /\ ticks'[i].fiber = section'[d]
                                /\ ticks'[i].child = d)
                      \/ \E i \in 1..Len(ticks') : ticks'[i] = Tick("unload", section'[d], d)
    BY DEF SectionsHeld
  <2>1. d # c /\ section'[d] = section[d]
    BY <1>4, FiberAssumption
  <2>2. CASE \E i \in 1..Len(ticks) : ticks[i] = Tick("unload", section[d], d)
    <3>1. PICK i \in 1..Len(ticks) : ticks[i] = Tick("unload", section[d], d)
      BY <2>2
    <3>2. ticks[i].child = d
      BY <3>1 DEF Tick
    <3>3. QED
      BY <1>2, <1>3, <2>1, <3>1, <3>2
  <2>3. CASE /\ section[d] \in Up /\ d \in fibers[section[d]]
             /\ \A i \in 1..Len(ticks) :
                  ~(ticks[i].kind = "activate" /\ ticks[i].fiber = section[d] /\ ticks[i].child = d)
    BY <1>1, <1>2, <1>4, <1>9, <2>1, <2>3
  <2>4. QED
    BY <2>1, <2>2, <2>3 DEF PersonaInv, SectionsHeld
<1>16. ClaimsOwn'
  <2> SUFFICES ASSUME NEW d \in Child, claim'[d] # NoFiber
               PROVE  \/ section'[d] \in {claim'[d], Own}
                      \/ record'[d] = "failed"
                      \/ \E i \in 1..Len(ticks') :
                           /\ ticks'[i].kind = "activate" /\ ~ticks'[i].cancelled
                           /\ ticks'[i].fiber = claim'[d] /\ ticks'[i].child = d
    BY DEF ClaimsOwn
  <2>1. d # c /\ claim'[d] = claim[d] /\ section'[d] = section[d] /\ record'[d] = record[d]
    BY <1>4
  <2>2. QED
    BY <1>2, <1>3, <2>1 DEF PersonaInv, ClaimsOwn
<1>17. QED
  BY <1>5, <1>6, <1>7, <1>8, <1>10, <1>11, <1>13, <1>14, <1>15, <1>16 DEF PersonaInv

\* A listener that is disposed cancels what it still waits for, and asks for the withdrawal
\* of every section it registered, before its claims go.
LEMMA DisposeKeeps ==
  ASSUME PersonaInv, NEW f \in Fiber, DisposeListener(f)
  PROVE  PersonaInv'
<1> DEFINE pairs == {<<f, c>> : c \in fibers[f]}
           waiting == {<<ticks[i].fiber, ticks[i].child>> :
                         i \in {j \in 1..Len(ticks) : ticks[j].kind = "activate"}}
<1>1. /\ phase[f] = "up" /\ phase' = [phase EXCEPT ![f] = "down"]
      /\ told' = [c \in Child |-> told[c] \ {f}] /\ ticks' = Released(pairs)
      /\ fibers' = [fibers EXCEPT ![f] = {}]
      /\ claim' = [c \in Child |-> IF claim[c] = f THEN NoFiber ELSE claim[c]]
      /\ record' = IF Up = {f} THEN [c \in Child |-> "none"] ELSE record
      /\ UNCHANGED <<alive, section>>
  BY DEF DisposeListener, Disposed, Handles, OwnClaims
<1>2. PersonaTypeOK /\ pairs \in SUBSET (Fiber \X Child)
  BY DEF PersonaInv, PersonaTypeOK
<1>3. \A g \in Fiber, c \in Child : <<g, c>> \in pairs <=> g = f /\ c \in fibers[f]
  OBVIOUS
<1>4. \A i \in 1..Len(ticks) : ticks[i].kind = "activate" =>
        <<ticks[i].fiber, ticks[i].child>> \in waiting
  OBVIOUS
<1> HIDE DEF pairs
<1>5. /\ ticks' \in Seq(TickType) /\ Len(ticks') >= Len(ticks)
      /\ \A i \in 1..Len(ticks) :
           /\ ticks'[i].kind = ticks[i].kind /\ ticks'[i].fiber = ticks[i].fiber
           /\ ticks'[i].child = ticks[i].child /\ ticks'[i].gone = ticks[i].gone
           /\ ticks'[i].cancelled <=> ticks[i].cancelled \/ <<ticks[i].fiber, ticks[i].child>> \in pairs
           /\ <<ticks[i].fiber, ticks[i].child>> \notin pairs => ticks'[i] = ticks[i]
      /\ \A i \in 1..Len(ticks') : i > Len(ticks) =>
           \E g \in Fiber, c \in Child :
             <<g, c>> \in pairs \ waiting /\ ticks'[i] = Tick("unload", g, c)
      /\ \A g \in Fiber, c \in Child : <<g, c>> \in pairs \ waiting =>
           \E i \in 1..Len(ticks') : ticks'[i] = Tick("unload", g, c)
  <2> DEFINE r == Released(pairs)
  <2>1. /\ r \in Seq(TickType) /\ Len(r) >= Len(ticks)
        /\ \A i \in 1..Len(ticks) :
             /\ r[i].kind = ticks[i].kind /\ r[i].fiber = ticks[i].fiber
             /\ r[i].child = ticks[i].child /\ r[i].gone = ticks[i].gone
             /\ r[i].cancelled <=> ticks[i].cancelled \/ <<ticks[i].fiber, ticks[i].child>> \in pairs
             /\ <<ticks[i].fiber, ticks[i].child>> \notin pairs => r[i] = ticks[i]
        /\ \A i \in 1..Len(r) : i > Len(ticks) =>
             \E g \in Fiber, c \in Child :
               <<g, c>> \in pairs \ waiting /\ r[i] = Tick("unload", g, c)
        /\ \A g \in Fiber, c \in Child : <<g, c>> \in pairs \ waiting =>
             \E i \in 1..Len(r) : r[i] = Tick("unload", g, c)
    BY <1>2, ReleasedIs
  <2>2. ticks' = r
    BY <1>1
  <2> HIDE DEF r, waiting
  <2>3. QED
    BY <2>1, <2>2
<1> HIDE DEF waiting
<1>6. /\ Len(ticks) \in Nat /\ Len(ticks') \in Nat
      /\ \A i \in 1..Len(ticks) : ticks[i] \in TickType /\ ticks[i].fiber \in Fiber /\ ticks[i].child \in Child
      /\ 1..Len(ticks) \subseteq 1..Len(ticks')
  <2>1. /\ Len(ticks) \in Nat /\ Len(ticks') \in Nat /\ Len(ticks') >= Len(ticks)
        /\ \A i \in 1..Len(ticks) : ticks[i] \in TickType
    BY <1>2, <1>5 DEF PersonaTypeOK
  <2>2. \A t \in TickType : t.fiber \in Fiber /\ t.child \in Child
    BY DEF TickType
  <2>3. 1..Len(ticks) \subseteq 1..Len(ticks')
    BY <2>1
  <2>4. QED
    BY <2>1, <2>2, <2>3
<1>7. /\ \A i \in 1..Len(ticks) :
           /\ ticks'[i].kind = ticks[i].kind /\ ticks'[i].fiber = ticks[i].fiber
           /\ ticks'[i].child = ticks[i].child /\ ticks'[i].gone = ticks[i].gone
           /\ ticks[i].cancelled => ticks'[i].cancelled
           /\ ticks[i].fiber = f /\ ticks[i].child \in fibers[f] => ticks'[i].cancelled
           /\ ticks[i].fiber # f => ticks'[i] = ticks[i]
      /\ \A i \in 1..Len(ticks') : i \notin 1..Len(ticks) =>
           \E c \in Child : /\ c \in fibers[f] /\ <<f, c>> \notin waiting
                            /\ ticks'[i].kind = "unload" /\ ticks'[i].fiber = f
                            /\ ticks'[i].child = c /\ ~ticks'[i].cancelled
  <2>1. \A i \in 1..Len(ticks) :
          /\ ticks'[i].kind = ticks[i].kind /\ ticks'[i].fiber = ticks[i].fiber
          /\ ticks'[i].child = ticks[i].child /\ ticks'[i].gone = ticks[i].gone
          /\ ticks[i].cancelled => ticks'[i].cancelled
          /\ ticks[i].fiber = f /\ ticks[i].child \in fibers[f] => ticks'[i].cancelled
          /\ ticks[i].fiber # f => ticks'[i] = ticks[i]
    BY <1>3, <1>5, <1>6
  <2>2. ASSUME NEW i \in 1..Len(ticks'), i \notin 1..Len(ticks)
        PROVE  \E c \in Child : /\ c \in fibers[f] /\ <<f, c>> \notin waiting
                                /\ ticks'[i].kind = "unload" /\ ticks'[i].fiber = f
                                /\ ticks'[i].child = c /\ ~ticks'[i].cancelled
    <3>1. i > Len(ticks)
      BY <1>6, <2>2
    <3>2. PICK g \in Fiber, c \in Child :
            <<g, c>> \in pairs \ waiting /\ ticks'[i] = Tick("unload", g, c)
      BY <1>5, <3>1
    <3>3. g = f /\ c \in fibers[f]
      BY <1>3, <3>2
    <3>4. QED
      BY <3>2, <3>3 DEF Tick
  <2>3. QED
    BY <2>1, <2>2
<1>8. /\ phase' \in [Fiber -> {"new", "up", "down"}] /\ phase'[f] = "down"
      /\ \A g \in Fiber \ {f} : phase'[g] = phase[g]
      /\ Up' = Up \ {f} /\ f \in Up /\ f # NoFiber
  BY <1>1, FiberAssumption DEF Up, PersonaInv, PersonaTypeOK
<1>9. /\ fibers' \in [Fiber -> SUBSET Child] /\ fibers'[f] = {}
      /\ \A g \in Fiber \ {f} : fibers'[g] = fibers[g]
  BY <1>1 DEF PersonaInv, PersonaTypeOK
<1>10. \A c \in Child : claim'[c] # NoFiber => claim'[c] = claim[c] /\ claim[c] # f
  BY <1>1
<1>11. \A c \in Child : claim'[c] # NoFiber => claim[c] \in Up /\ Up # {f} /\ record' = record
  BY <1>1, <1>10 DEF PersonaInv, ClaimsLive
<1>12. PersonaTypeOK'
  BY <1>1, <1>5, <1>8, <1>9 DEF PersonaInv, PersonaTypeOK
<1>13. NoticesLive'
  BY <1>1, <1>8 DEF PersonaInv, NoticesLive
<1>14. ClaimsLive'
  BY <1>1, <1>8, <1>10, <1>11 DEF PersonaInv, ClaimsLive
<1>15. HandlesClaimed'
  BY <1>1, <1>9 DEF PersonaInv, HandlesClaimed
<1>16. ActivationsHeld'
  <2> SUFFICES ASSUME NEW i \in 1..Len(ticks'), ticks'[i].kind = "activate"
               PROVE  /\ ~ticks'[i].cancelled => ticks'[i].child \in fibers'[ticks'[i].fiber]
                      /\ ticks'[i].gone => ticks'[i].cancelled
                      /\ phase'[ticks'[i].fiber] # "new"
    BY DEF ActivationsHeld
  <2>1. i \in 1..Len(ticks) /\ ticks[i].kind = "activate"
    BY <1>7
  <2>2. /\ ~ticks[i].cancelled => ticks[i].child \in fibers[ticks[i].fiber]
        /\ ticks[i].gone => ticks[i].cancelled
        /\ phase[ticks[i].fiber] # "new"
    BY <2>1 DEF PersonaInv, ActivationsHeld
  <2>3. QED
    BY <1>6, <1>7, <1>8, <1>9, <2>1, <2>2
<1>17. \A i \in 1..Len(ticks') : ticks'[i].kind = "activate" => i \in 1..Len(ticks)
  BY <1>7
<1>18. OneActivation'
  BY <1>7, <1>17 DEF PersonaInv, OneActivation
<1>19. UnloadsDown'
  <2> SUFFICES ASSUME NEW i \in 1..Len(ticks'), ticks'[i].kind = "unload", ~ticks'[i].gone
               PROVE  phase'[ticks'[i].fiber] = "down" /\ ~ticks'[i].cancelled
    BY DEF UnloadsDown
  <2>1. CASE i \in 1..Len(ticks)
    <3>1. phase[ticks[i].fiber] = "down" /\ ~ticks[i].cancelled
      BY <1>7, <2>1 DEF PersonaInv, UnloadsDown
    <3>2. QED
      BY <1>1, <1>6, <1>7, <1>8, <2>1, <3>1
  <2>2. CASE i \notin 1..Len(ticks)
    BY <1>7, <1>8, <2>2
  <2>3. QED
    BY <2>1, <2>2
<1>20. UnloadsFirst'
  <2> SUFFICES ASSUME NEW i \in 1..Len(ticks'), NEW j \in 1..Len(ticks'),
                      ticks'[i].kind = "unload", ~ticks'[i].gone,
                      ticks'[j].kind = "activate", ~ticks'[j].cancelled,
                      ticks'[i].child = ticks'[j].child
               PROVE  i < j
    BY DEF UnloadsFirst
  <2>1. j \in 1..Len(ticks) /\ ticks[j].kind = "activate" /\ ~ticks[j].cancelled
        /\ ticks'[j].child = ticks[j].child
    BY <1>7, <1>17
  <2>2. CASE i \in 1..Len(ticks)
    BY <1>7, <2>1, <2>2 DEF PersonaInv, UnloadsFirst
  <2>3. CASE i \notin 1..Len(ticks)
    <3>1. PICK c \in Child : c \in fibers[f] /\ <<f, c>> \notin waiting /\ ticks'[i].child = c
      BY <1>7, <2>3
    <3>2. ticks[j].child = c /\ c \in fibers[ticks[j].fiber]
      BY <2>1, <3>1 DEF PersonaInv, ActivationsHeld
    <3>3. ticks[j].fiber = f
      BY <1>6, <2>1, <3>1, <3>2 DEF PersonaInv, HandlesClaimed
    <3>4. QED
      BY <1>4, <2>1, <3>1, <3>2, <3>3
  <2>4. QED
    BY <2>2, <2>3
<1>21. SectionsHeld'
  <2> SUFFICES ASSUME NEW c \in Child, section[c] \in Fiber
               PROVE  \/ /\ section[c] \in Up' /\ c \in fibers'[section[c]]
                         /\ \A i \in 1..Len(ticks') :
                              ~(ticks'[i].kind = "activate" /\ ticks'[i].fiber = section[c]
                                /\ ticks'[i].child = c)
                      \/ \E i \in 1..Len(ticks') : ticks'[i] = Tick("unload", section[c], c)
    BY <1>1 DEF SectionsHeld
  <2>1. CASE \E i \in 1..Len(ticks) : ticks[i] = Tick("unload", section[c], c)
    <3>1. PICK i \in 1..Len(ticks) : ticks[i] = Tick("unload", section[c], c)
      BY <2>1
    <3>2. ticks[i].fiber = section[c] /\ ticks[i].kind = "unload" /\ ~ticks[i].gone
      BY <3>1 DEF Tick
    <3>3. ticks[i].fiber # f
      BY <1>1, <3>2 DEF PersonaInv, UnloadsDown
    <3>4. QED
      BY <1>6, <1>7, <3>1, <3>3
  <2>2. CASE /\ section[c] \in Up /\ c \in fibers[section[c]]
             /\ \A i \in 1..Len(ticks) :
                  ~(ticks[i].kind = "activate" /\ ticks[i].fiber = section[c] /\ ticks[i].child = c)
    <3>1. CASE section[c] = f
      <4>1. <<f, c>> \in pairs
        BY <1>3, <2>2, <3>1
      <4>2. <<f, c>> \notin waiting
        BY <2>2, <3>1 DEF waiting
      <4>3. QED
        BY <1>5, <3>1, <4>1, <4>2
    <3>2. CASE section[c] # f
      BY <1>7, <1>8, <1>9, <1>17, <2>2, <3>2
    <3>3. QED
      BY <3>1, <3>2
  <2>3. QED
    BY <2>1, <2>2 DEF PersonaInv, SectionsHeld
<1>22. ClaimsOwn'
  <2> SUFFICES ASSUME NEW c \in Child, claim'[c] # NoFiber
               PROVE  \/ section[c] \in {claim'[c], Own}
                      \/ record'[c] = "failed"
                      \/ \E i \in 1..Len(ticks') :
                           /\ ticks'[i].kind = "activate" /\ ~ticks'[i].cancelled
                           /\ ticks'[i].fiber = claim'[c] /\ ticks'[i].child = c
    BY <1>1 DEF ClaimsOwn
  <2>1. claim'[c] = claim[c] /\ claim[c] # f /\ record' = record
    BY <1>10, <1>11
  <2>2. QED
    BY <1>6, <1>7, <2>1 DEF PersonaInv, ClaimsOwn
<1>23. QED
  BY <1>12, <1>13, <1>14, <1>15, <1>16, <1>18, <1>19, <1>20, <1>21, <1>22 DEF PersonaInv

\* When the first tick has settled the others are where they were, one place earlier.
LEMMA SettledIs ==
  ASSUME PersonaTypeOK, ticks # <<>>, ticks' = Tail(ticks)
  PROVE  /\ ticks' \in Seq(TickType) /\ Head(ticks) = ticks[1] /\ ticks[1] \in TickType
         /\ Len(ticks) \in Nat /\ 1 \in 1..Len(ticks)
         /\ \A i \in 1..Len(ticks') :
              i + 1 \in 1..Len(ticks) /\ i + 1 > 1 /\ ticks'[i] = ticks[i + 1]
         /\ \A i \in 1..Len(ticks) : i # 1 => \E k \in 1..Len(ticks') : ticks'[k] = ticks[i]
<1>1. ticks \in Seq(TickType)
  BY DEF PersonaTypeOK
<1>2. /\ Head(ticks) \in TickType /\ ticks' \in Seq(TickType) /\ Len(ticks') = Len(ticks) - 1
      /\ \A i \in 1..Len(ticks') : ticks'[i] = ticks[i + 1]
  BY <1>1, HeadTailProperties
<1>3. Len(ticks) \in Nat /\ Len(ticks) # 0 /\ Head(ticks) = ticks[1]
  BY <1>1
<1>4. \A i \in 1..Len(ticks') : i + 1 \in 1..Len(ticks) /\ i + 1 > 1
  BY <1>2, <1>3
<1>5. ASSUME NEW i \in 1..Len(ticks), i # 1
      PROVE  \E k \in 1..Len(ticks') : ticks'[k] = ticks[i]
  <2>1. i - 1 \in 1..Len(ticks') /\ (i - 1) + 1 = i
    BY <1>2, <1>3, <1>5
  <2>2. QED
    BY <1>2, <2>1
<1>6. QED
  BY <1>2, <1>3, <1>4, <1>5

\* The order of what is still to settle does not change.
LEMMA SettledKeeps ==
  ASSUME PersonaInv, ticks # <<>>, ticks' = Tail(ticks), phase' = phase
  PROVE  OneActivation' /\ UnloadsDown' /\ UnloadsFirst'
<1>1. \A i \in 1..Len(ticks') : i + 1 \in 1..Len(ticks) /\ ticks'[i] = ticks[i + 1]
  BY SettledIs DEF PersonaInv
<1>2. Len(ticks') \in Nat
  BY SettledIs DEF PersonaInv
<1>3. OneActivation'
  <2> SUFFICES ASSUME NEW i \in 1..Len(ticks'), NEW j \in 1..Len(ticks'),
                      ticks'[i].kind = "activate", ticks'[j].kind = "activate",
                      ticks'[i].fiber = ticks'[j].fiber, ticks'[i].child = ticks'[j].child
               PROVE  i = j
    BY DEF OneActivation
  <2>1. i + 1 = j + 1
    BY <1>1 DEF PersonaInv, OneActivation
  <2>2. QED
    BY <1>2, <2>1
<1>4. UnloadsDown'
  BY <1>1 DEF PersonaInv, UnloadsDown
<1>5. UnloadsFirst'
  <2> SUFFICES ASSUME NEW i \in 1..Len(ticks'), NEW j \in 1..Len(ticks'),
                      ticks'[i].kind = "unload", ~ticks'[i].gone,
                      ticks'[j].kind = "activate", ~ticks'[j].cancelled,
                      ticks'[i].child = ticks'[j].child
               PROVE  i < j
    BY DEF UnloadsFirst
  <2>1. i + 1 < j + 1
    BY <1>1 DEF PersonaInv, UnloadsFirst
  <2>2. QED
    BY <1>2, <2>1
<1>6. QED
  BY <1>3, <1>4, <1>5

\* An activation delivers the section or leaves the verdict on the record: the claim never
\* stands for nothing, and a section of a disposed sibling is gone before it is looked at.
LEMMA ActivatesKeeps ==
  ASSUME PersonaInv, Activates
  PROVE  PersonaInv'
<1> DEFINE t == ticks[1]
           others == fibers' = [fibers EXCEPT ![t.fiber] = fibers[t.fiber] \ {t.child}]
<1>1. /\ ticks # <<>> /\ Head(ticks).kind = "activate" /\ ticks' = Tail(ticks)
      /\ UNCHANGED <<phase, alive, told, claim>> /\ Up' = Up
  BY DEF Activates, Up
<1>2. /\ ticks' \in Seq(TickType) /\ Head(ticks) = t /\ t \in TickType
      /\ Len(ticks) \in Nat /\ 1 \in 1..Len(ticks)
      /\ \A i \in 1..Len(ticks') : i + 1 \in 1..Len(ticks) /\ i + 1 > 1 /\ ticks'[i] = ticks[i + 1]
      /\ \A i \in 1..Len(ticks) : i # 1 => \E k \in 1..Len(ticks') : ticks'[k] = ticks[i]
  BY <1>1, SettledIs DEF PersonaInv
<1>3. Registers(t) \/ SectionRefused(t) \/ ActivationFails(t) \/ CancelledQuietly(t)
  BY <1>2 DEF Activates
<1>4. t.kind = "activate" /\ t.fiber \in Fiber /\ t.child \in Child
  BY <1>1, <1>2 DEF TickType
<1>5. ~t.cancelled =>
        /\ t.child \in fibers[t.fiber] /\ claim[t.child] = t.fiber /\ t.fiber \in Up
        /\ record[t.child] # "none" /\ ~t.gone
  BY <1>2, <1>4, FiberAssumption DEF PersonaInv, ActivationsHeld, HandlesClaimed, ClaimsLive
<1>6. record' = record \/ (record[t.child] # "none" /\ record' = [record EXCEPT ![t.child] = "failed"])
  BY <1>3 DEF Registers, SectionRefused, ActivationFails, CancelledQuietly, Contained
<1>7. section' = section
      \/ (/\ ~t.cancelled /\ section[t.child] = NoFiber /\ fibers' = fibers
          /\ section' = [section EXCEPT ![t.child] = t.fiber])
  BY <1>3 DEF Registers, SectionRefused, ActivationFails, CancelledQuietly
<1>8. fibers' = fibers \/ others
  BY <1>3 DEF Registers, SectionRefused, ActivationFails, CancelledQuietly
<1>9. ~t.cancelled => \/ record'[t.child] = "failed"
                      \/ section' = IF section[t.child] = NoFiber
                                    THEN [section EXCEPT ![t.child] = t.fiber] ELSE section
  <2>1. ~t.cancelled => (record' = Contained(t) => record'[t.child] = "failed")
    BY <1>4, <1>5 DEF Contained, PersonaInv, PersonaTypeOK
  <2>2. QED
    BY <1>3, <2>1 DEF Registers, SectionRefused, ActivationFails, CancelledQuietly
<1>10. /\ fibers' \in [Fiber -> SUBSET Child] /\ \A g \in Fiber : fibers'[g] \subseteq fibers[g]
       /\ \A g \in Fiber, c \in Child : c \in fibers[g] /\ (g # t.fiber \/ c # t.child) => c \in fibers'[g]
  BY <1>4, <1>8 DEF PersonaInv, PersonaTypeOK
<1>11. /\ record' \in [Child -> {"none", "clear", "failed"}]
       /\ section' \in [Child -> Fiber \union {NoFiber, Own}]
       /\ \A c \in Child : /\ record[c] # "none" => record'[c] # "none"
                           /\ record[c] = "failed" => record'[c] = "failed"
                           /\ section[c] # NoFiber => section'[c] = section[c]
  BY <1>4, <1>6, <1>7 DEF PersonaInv, PersonaTypeOK
<1> HIDE DEF t, others
<1>12. PersonaTypeOK'
  BY <1>1, <1>2, <1>10, <1>11 DEF PersonaInv, PersonaTypeOK
<1>13. NoticesLive' /\ ClaimsLive' /\ HandlesClaimed'
  BY <1>1, <1>10, <1>11 DEF PersonaInv, NoticesLive, ClaimsLive, HandlesClaimed
<1>14. \A i \in 1..Len(ticks) : i # 1 /\ ticks[i].kind = "activate" =>
         ticks[i].fiber # t.fiber \/ ticks[i].child # t.child
  BY <1>2, <1>4 DEF PersonaInv, OneActivation, t
<1>15. ActivationsHeld'
  <2> SUFFICES ASSUME NEW i \in 1..Len(ticks'), ticks'[i].kind = "activate"
               PROVE  /\ ~ticks'[i].cancelled => ticks'[i].child \in fibers'[ticks'[i].fiber]
                      /\ ticks'[i].gone => ticks'[i].cancelled
                      /\ phase[ticks'[i].fiber] # "new"
    BY <1>1 DEF ActivationsHeld
  <2> DEFINE k == i + 1
  <2>1. k \in 1..Len(ticks) /\ k # 1 /\ ticks'[i] = ticks[k] /\ ticks[k] \in TickType
    BY <1>2 DEF PersonaInv, PersonaTypeOK
  <2> HIDE DEF k
  <2>2. /\ ~ticks[k].cancelled => ticks[k].child \in fibers[ticks[k].fiber]
        /\ ticks[k].gone => ticks[k].cancelled
        /\ phase[ticks[k].fiber] # "new"
    BY <2>1 DEF PersonaInv, ActivationsHeld
  <2>3. ticks[k].fiber \in Fiber /\ ticks[k].child \in Child
    BY <2>1 DEF TickType
  <2>4. QED
    BY <1>10, <1>14, <2>1, <2>2, <2>3
<1>16. OneActivation' /\ UnloadsDown' /\ UnloadsFirst'
  BY <1>1, SettledKeeps
<1>17. SectionsHeld'
  <2> SUFFICES ASSUME NEW c \in Child, section'[c] \in Fiber
               PROVE  \/ /\ section'[c] \in Up /\ c \in fibers'[section'[c]]
                         /\ \A i \in 1..Len(ticks') :
                              ~(ticks'[i].kind = "activate" /\ ticks'[i].fiber = section'[c]
                                /\ ticks'[i].child = c)
                      \/ \E i \in 1..Len(ticks') : ticks'[i] = Tick("unload", section'[c], c)
    BY <1>1 DEF SectionsHeld
  <2>1. \A i \in 1..Len(ticks') : \E k \in 1..Len(ticks) : k # 1 /\ ticks'[i] = ticks[k]
    BY <1>2
  <2>2. CASE section'[c] # section[c]
    <3>1. c = t.child /\ section'[c] = t.fiber /\ ~t.cancelled /\ fibers' = fibers
      BY <1>4, <1>7, <2>2 DEF PersonaInv, PersonaTypeOK
    <3>2. QED
      BY <1>5, <1>14, <2>1, <3>1
  <2>3. CASE section'[c] = section[c]
    <3>1. CASE \E i \in 1..Len(ticks) : ticks[i] = Tick("unload", section[c], c)
      <4>1. PICK i \in 1..Len(ticks) : ticks[i] = Tick("unload", section[c], c)
        BY <3>1
      <4>2. i # 1
        BY <1>4, <4>1 DEF Tick, t
      <4>3. QED
        BY <1>2, <2>3, <4>1, <4>2
    <3>2. CASE /\ section[c] \in Up /\ c \in fibers[section[c]]
               /\ \A i \in 1..Len(ticks) :
                    ~(ticks[i].kind = "activate" /\ ticks[i].fiber = section[c] /\ ticks[i].child = c)
      <4>1. section[c] # t.fiber \/ c # t.child
        BY <1>2, <1>4, <3>2 DEF t
      <4>2. c \in fibers'[section[c]]
        BY <1>10, <2>3, <3>2, <4>1
      <4>3. QED
        BY <2>1, <2>3, <3>2, <4>2
    <3>3. QED
      BY <2>3, <3>1, <3>2 DEF PersonaInv, SectionsHeld
  <2>4. QED
    BY <2>2, <2>3
<1>18. ClaimsOwn'
  <2> SUFFICES ASSUME NEW c \in Child, claim[c] # NoFiber
               PROVE  \/ section'[c] \in {claim[c], Own}
                      \/ record'[c] = "failed"
                      \/ \E i \in 1..Len(ticks') :
                           /\ ticks'[i].kind = "activate" /\ ~ticks'[i].cancelled
                           /\ ticks'[i].fiber = claim[c] /\ ticks'[i].child = c
    BY <1>1 DEF ClaimsOwn
  <2>1. CASE section[c] \in {claim[c], Own}
    BY <1>11, <2>1, PersonaAssumption
  <2>2. CASE record[c] = "failed"
    BY <1>11, <2>2
  <2>3. ASSUME NEW i \in 1..Len(ticks), ticks[i].kind = "activate", ~ticks[i].cancelled,
               ticks[i].fiber = claim[c], ticks[i].child = c
        PROVE  \/ section'[c] \in {claim[c], Own}
               \/ record'[c] = "failed"
               \/ \E k \in 1..Len(ticks') :
                    /\ ticks'[k].kind = "activate" /\ ~ticks'[k].cancelled
                    /\ ticks'[k].fiber = claim[c] /\ ticks'[k].child = c
    <3>1. CASE i # 1
      BY <1>2, <2>3, <3>1
    <3>2. CASE i = 1
      <4>1. ~t.cancelled /\ t.child = c /\ t.fiber = claim[c]
        BY <2>3, <3>2 DEF t
      <4>2. CASE section[c] = NoFiber
        <5>1. record'[c] = "failed" \/ section'[c] = t.fiber
          BY <1>9, <4>1, <4>2 DEF PersonaInv, PersonaTypeOK
        <5>2. QED
          BY <4>1, <5>1
      <4>3. CASE section[c] = Own
        BY <1>11, <4>3, PersonaAssumption
      <4>4. CASE section[c] \in Fiber
        <5>1. ~ \E k \in 1..Len(ticks) : ticks[k] = Tick("unload", section[c], c)
          <6> SUFFICES ASSUME NEW k \in 1..Len(ticks), ticks[k] = Tick("unload", section[c], c)
                       PROVE  FALSE
            OBVIOUS
          <6>1. ticks[k].kind = "unload" /\ ~ticks[k].gone /\ ticks[k].child = c
            BY DEF Tick
          <6>2. k < 1
            BY <1>2, <2>3, <3>2, <6>1 DEF PersonaInv, UnloadsFirst
          <6>3. QED
            BY <1>2, <6>2
        <5>2. c \in fibers[section[c]]
          BY <4>4, <5>1 DEF PersonaInv, SectionsHeld
        <5>3. section[c] = claim[c]
          BY <4>4, <5>2 DEF PersonaInv, HandlesClaimed
        <5>4. QED
          BY <1>11, <4>4, <5>3, FiberAssumption
      <4>5. QED
        BY <4>2, <4>3, <4>4 DEF PersonaInv, PersonaTypeOK
    <3>3. QED
      BY <3>1, <3>2
  <2>4. QED
    BY <2>1, <2>2, <2>3 DEF PersonaInv, ClaimsOwn
<1>19. QED
  BY <1>12, <1>13, <1>15, <1>16, <1>17, <1>18 DEF PersonaInv

\* An unload takes the section of a listener that was disposed, and so never the one a
\* claim stands for.
LEMMA UnloadsKeeps ==
  ASSUME PersonaInv, Unloads
  PROVE  PersonaInv'
<1> DEFINE t == ticks[1]
<1>1. /\ ticks # <<>> /\ Head(ticks).kind = "unload" /\ ticks' = Tail(ticks)
      /\ UNCHANGED <<phase, alive, told, record, claim, fibers>> /\ Up' = Up
  BY DEF Unloads, Up
<1>2. /\ ticks' \in Seq(TickType) /\ Head(ticks) = t /\ t \in TickType
      /\ Len(ticks) \in Nat /\ 1 \in 1..Len(ticks)
      /\ \A i \in 1..Len(ticks') : i + 1 \in 1..Len(ticks) /\ i + 1 > 1 /\ ticks'[i] = ticks[i + 1]
      /\ \A i \in 1..Len(ticks) : i # 1 => \E k \in 1..Len(ticks') : ticks'[k] = ticks[i]
  BY <1>1, SettledIs DEF PersonaInv
<1>3. section' = IF ~t.gone /\ section[t.child] = t.fiber
                 THEN [section EXCEPT ![t.child] = NoFiber] ELSE section
  BY <1>2 DEF Unloads
<1>4. t.kind = "unload" /\ t.fiber \in Fiber /\ t.child \in Child
  BY <1>1, <1>2 DEF TickType
<1>5. /\ section' \in [Child -> Fiber \union {NoFiber, Own}]
      /\ \A c \in Child :
           section'[c] = IF c = t.child /\ ~t.gone /\ section[c] = t.fiber THEN NoFiber ELSE section[c]
  BY <1>3, <1>4 DEF PersonaInv, PersonaTypeOK
<1>6. ~t.gone => phase[t.fiber] = "down"
  BY <1>2, <1>4 DEF PersonaInv, UnloadsDown
<1> HIDE DEF t
<1>7. PersonaTypeOK'
  BY <1>1, <1>2, <1>5 DEF PersonaInv, PersonaTypeOK
<1>8. NoticesLive' /\ ClaimsLive' /\ HandlesClaimed'
  BY <1>1 DEF PersonaInv, NoticesLive, ClaimsLive, HandlesClaimed
<1>9. \A i \in 1..Len(ticks') : \E k \in 1..Len(ticks) : k # 1 /\ ticks'[i] = ticks[k]
  BY <1>2
<1>14. \A i \in 1..Len(ticks) : i # 1 => \E k \in 1..Len(ticks') : ticks'[k] = ticks[i]
  BY <1>2
<1>10. ActivationsHeld'
  BY <1>1, <1>9 DEF PersonaInv, ActivationsHeld
<1>11. OneActivation' /\ UnloadsDown' /\ UnloadsFirst'
  BY <1>1, SettledKeeps
<1>12. SectionsHeld'
  <2> SUFFICES ASSUME NEW c \in Child, section'[c] \in Fiber
               PROVE  \/ /\ section'[c] \in Up /\ c \in fibers[section'[c]]
                         /\ \A i \in 1..Len(ticks') :
                              ~(ticks'[i].kind = "activate" /\ ticks'[i].fiber = section'[c]
                                /\ ticks'[i].child = c)
                      \/ \E i \in 1..Len(ticks') : ticks'[i] = Tick("unload", section'[c], c)
    BY <1>1 DEF SectionsHeld
  <2>1. section'[c] = section[c] /\ ~(c = t.child /\ ~t.gone /\ section[c] = t.fiber)
    BY <1>5, FiberAssumption
  <2>2. CASE \E i \in 1..Len(ticks) : ticks[i] = Tick("unload", section[c], c)
    <3>1. PICK i \in 1..Len(ticks) : ticks[i] = Tick("unload", section[c], c)
      BY <2>2
    <3>2. i # 1
      BY <2>1, <3>1 DEF Tick, t
    <3>3. PICK k \in 1..Len(ticks') : ticks'[k] = ticks[i]
      BY <1>14, <3>2
    <3>4. QED
      BY <2>1, <3>1, <3>3
  <2>3. CASE /\ section[c] \in Up /\ c \in fibers[section[c]]
             /\ \A i \in 1..Len(ticks) :
                  ~(ticks[i].kind = "activate" /\ ticks[i].fiber = section[c] /\ ticks[i].child = c)
    BY <1>9, <2>1, <2>3
  <2>4. QED
    BY <2>1, <2>2, <2>3 DEF PersonaInv, SectionsHeld
<1>13. ClaimsOwn'
  <2> SUFFICES ASSUME NEW c \in Child, claim[c] # NoFiber
               PROVE  \/ section'[c] \in {claim[c], Own}
                      \/ record[c] = "failed"
                      \/ \E i \in 1..Len(ticks') :
                           /\ ticks'[i].kind = "activate" /\ ~ticks'[i].cancelled
                           /\ ticks'[i].fiber = claim[c] /\ ticks'[i].child = c
    BY <1>1 DEF ClaimsOwn
  <2>1. CASE section[c] \in {claim[c], Own}
    <3>1. ~t.gone => t.fiber # claim[c]
      BY <1>6 DEF PersonaInv, ClaimsLive, Up
    <3>2. QED
      BY <1>4, <1>5, <2>1, <3>1, PersonaAssumption
  <2>2. CASE record[c] = "failed"
    BY <2>2
  <2>3. ASSUME NEW i \in 1..Len(ticks), ticks[i].kind = "activate", ~ticks[i].cancelled,
               ticks[i].fiber = claim[c], ticks[i].child = c
        PROVE  \E k \in 1..Len(ticks') :
                 /\ ticks'[k].kind = "activate" /\ ~ticks'[k].cancelled
                 /\ ticks'[k].fiber = claim[c] /\ ticks'[k].child = c
    <3>1. i # 1
      BY <1>4, <2>3 DEF t
    <3>2. PICK k \in 1..Len(ticks') : ticks'[k] = ticks[i]
      BY <1>14, <3>1
    <3>3. QED
      BY <2>3, <3>2
  <2>4. QED
    BY <2>1, <2>2, <2>3 DEF PersonaInv, ClaimsOwn
<1>15. QED
  BY <1>7, <1>8, <1>10, <1>11, <1>12, <1>13 DEF PersonaInv

\* Every step of the listeners, of the children and of cordis keeps the claims in step.
LEMMA PersonaStep ==
  ASSUME PersonaInv, [PersonaNext]_personaVars
  PROVE  PersonaInv'
<1>1. CASE UNCHANGED personaVars
  BY <1>1 DEF personaVars, PersonaInv, PersonaTypeOK, NoticesLive, ClaimsLive, HandlesClaimed,
              ActivationsHeld, OneActivation, UnloadsDown, UnloadsFirst, SectionsHeld, ClaimsOwn, Up
<1>2. CASE PersonaNext
  BY <1>2, ListenersInstall, DisposeKeeps, BirthsKeep, ChildDisposedKeeps, ActivatesKeeps,
     UnloadsKeeps DEF PersonaNext
<1>3. QED
  BY <1>1, <1>2

\* A claim never stands for nothing, for any number of listeners and children: there is a
\* section, a verdict, or an activation of the holder that was not cancelled.
THEOREM ClaimsAreBacked == PersonaSpec => []ClaimIsBacked
<1>1. PersonaInv => ClaimIsBacked
  <2> SUFFICES ASSUME PersonaInv, NEW c \in Child, claim[c] # NoFiber
               PROVE  \/ section[c] # NoFiber
                      \/ record[c] = "failed"
                      \/ \E i \in InFlight(c) : ticks[i].fiber = claim[c] /\ ~ticks[i].cancelled
    BY DEF ClaimIsBacked
  <2>1. DOMAIN ticks = 1..Len(ticks)
    BY DEF PersonaInv, PersonaTypeOK
  <2>2. QED
    BY <2>1, PersonaAssumption DEF PersonaInv, ClaimsOwn, InFlight
<1>2. QED
  BY <1>1, PersonaStarts, PersonaStep, PTL DEF PersonaSpec

\* A disposed listener leaves nothing behind: claims are of the living, and a section can be
\* withdrawn by who registered it or is being withdrawn.
THEOREM DisposalIsClean == PersonaSpec => []NothingLeftBehind
<1>1. PersonaInv => NothingLeftBehind
  <2> SUFFICES ASSUME PersonaInv PROVE NothingLeftBehind
    OBVIOUS
  <2>1. DOMAIN ticks = 1..Len(ticks)
    BY DEF PersonaInv, PersonaTypeOK
  <2>2. QED
    BY <2>1 DEF PersonaInv, ClaimsLive, SectionsHeld, NothingLeftBehind
<1>2. QED
  BY <1>1, PersonaStarts, PersonaStep, PTL DEF PersonaSpec

=============================================================================
