-------------------------- MODULE RoleSeeds_proofs --------------------------
(***************************************************************************)
(* What holds of the role seeds for every set of roles, personas,          *)
(* producers and calls.                                                    *)
(***************************************************************************)
EXTENDS RoleSeeds, Inductions

-----------------------------------------------------------------------------
\* Resolution.

\* Among the producers that declare an id one is the most recent.
LEMMA MostRecentExists ==
  ASSUME NEW r \in [Label -> Slice], NEW id \in Role, NEW b \in Nat,
         \A l \in SetName : r[l].seq <= b,
         Declaring(r, id) # {}
  PROVE  \E l \in Declaring(r, id) : \A k \in Declaring(r, id) : r[k].seq <= r[l].seq
<1> DEFINE Age(l) == b - r[l].seq
           Ages == {Age(l) : l \in Declaring(r, id)}
<1>1. \A l \in Declaring(r, id) : r[l].seq \in Nat /\ r[l].seq <= b
  BY DEF Declaring, Label, Slice
<1>2. Ages \subseteq Nat /\ Ages # {}
  BY <1>1
<1>3. PICK a \in Ages : \A x \in Ages : a <= x
  <2> HIDE DEF Ages
  <2> QED BY <1>2, LeastNaturalExists
<1>4. PICK l \in Declaring(r, id) : a = Age(l)
  OBVIOUS
<1>5. ASSUME NEW k \in Declaring(r, id) PROVE r[k].seq <= r[l].seq
  <2>1. Age(l) <= Age(k)
    BY <1>3, <1>4
  <2>2. QED
    BY <1>1, <2>1
<1>6. QED
  BY <1>5

\* An id has a default exactly when some producer declares it, and the default is
\* a persona one of them declared.
LEMMA ResolvedIsDeclared ==
  ASSUME NEW r \in [Label -> Slice], NEW id \in Role, NEW b \in Nat,
         \A l \in SetName : r[l].seq <= b
  PROVE  /\ Resolved(r, id) \in Maybe
         /\ Resolved(r, id) = None <=> \A l \in Label : r[l].entries[id] = None
<1>1. \A l \in Label : r[l].entries[id] \in Maybe
  BY DEF Slice, Rows
<1>2. CASE r[Bundled].entries[id] # None
  BY <1>1, <1>2 DEF Resolved, Label
<1>3. CASE r[Bundled].entries[id] = None /\ Declaring(r, id) = {}
  <2>1. Resolved(r, id) = None
    BY <1>3 DEF Resolved
  <2>2. \A l \in Label : r[l].entries[id] = None
    BY <1>3 DEF Declaring, Label
  <2>3. QED
    BY <2>1, <2>2 DEF Maybe
<1>4. CASE r[Bundled].entries[id] = None /\ Declaring(r, id) # {}
  <2> DEFINE winner == CHOOSE l \in Declaring(r, id) :
                         \A k \in Declaring(r, id) : r[k].seq <= r[l].seq
  <2>1. winner \in Declaring(r, id)
    BY <1>4, MostRecentExists
  <2>2. Resolved(r, id) = r[winner].entries[id]
    BY <1>4 DEF Resolved
  <2>3. winner \in Label /\ r[winner].entries[id] # None
    BY <2>1 DEF Declaring, Label
  <2>4. QED
    BY <1>1, <2>2, <2>3
<1>5. QED
  BY <1>2, <1>3, <1>4

-----------------------------------------------------------------------------
\* The invariant.

\* A live slice has a number of its own past, never beyond the counter.
SeqSound ==
  \A l \in Label : /\ registry[l].seq <= declareSeq
                   /\ registry[l] # NoSlice => registry[l].seq > 0

Inv == TypeOK /\ SeqSound

\* Replacing a producer's slice with a number past the counter keeps the registry
\* well formed.
LEMMA DeclaredSound ==
  ASSUME TypeOK, SeqSound,
         NEW label \in Label \union {None}, NEW entries \in Rows
  PROVE  LET r == Declared(registry, label, entries, declareSeq + 1)
         IN  /\ r \in [Label -> Slice]
             /\ \A l \in Label : r[l].entries = NoRows <=> r[l] = NoSlice
             /\ \A l \in Label : r[l].seq <= declareSeq + 1
             /\ \A l \in Label : r[l] # NoSlice => r[l].seq > 0
             /\ entries = NoRows => \A l \in Label : r[l].seq <= declareSeq
<1> DEFINE new == IF entries = NoRows THEN NoSlice
                  ELSE [seq |-> declareSeq + 1, entries |-> entries]
           r == Declared(registry, label, entries, declareSeq + 1)
<1>1. declareSeq \in Nat /\ registry \in [Label -> Slice]
  BY SeedsAssumption DEF TypeOK
<1>2. new \in Slice
  BY <1>1 DEF Slice, NoSlice, Rows, NoRows, Maybe
<1>3. r = [registry EXCEPT ![label] = new]
  BY DEF Declared
<1>4. \A l \in Label : r[l] = IF l = label THEN new ELSE registry[l]
  BY <1>1, <1>3
<1>5. new.entries = NoRows <=> new = NoSlice
  BY <1>1 DEF NoSlice
<1>6. new.seq <= declareSeq + 1
  BY <1>1 DEF NoSlice
<1>7. new # NoSlice => new.seq > 0
  BY <1>1 DEF NoSlice
<1>8. entries = NoRows => new.seq <= declareSeq
  BY <1>1 DEF NoSlice
<1>10. \A l \in Label : registry[l].seq \in Nat
  BY <1>1 DEF Slice
<1> HIDE DEF new
<1>11. r \in [Label -> Slice]
  BY <1>1, <1>2, <1>3
<1>12. \A l \in Label : r[l].entries = NoRows <=> r[l] = NoSlice
  BY <1>4, <1>5 DEF TypeOK
<1>13. \A l \in Label : r[l].seq <= declareSeq + 1
  BY <1>1, <1>4, <1>6, <1>10 DEF SeqSound
<1>14. \A l \in Label : r[l] # NoSlice => r[l].seq > 0
  BY <1>4, <1>7 DEF SeqSound
<1>15. entries = NoRows => \A l \in Label : r[l].seq <= declareSeq
  BY <1>4, <1>8 DEF SeqSound
<1>16. QED
  BY <1>11, <1>12, <1>13, <1>14, <1>15

\* The defaults of a well formed registry are rows.
LEMMA DefaultsAreRows ==
  ASSUME NEW r \in [Label -> Slice], NEW b \in Nat, \A l \in Label : r[l].seq <= b
  PROVE  Defaults(r) \in Rows
<1>1. \A id \in Role : Resolved(r, id) \in Maybe
  BY ResolvedIsDeclared DEF Label
<1>2. QED
  BY <1>1 DEF Defaults, Rows

\* Materialising a batch into rows gives rows.
LEMMA MaterializedIsRows ==
  ASSUME NEW rows \in Rows, NEW prior \in Rows, NEW incoming \in Rows, NEW entries \in Rows
  PROVE  Materialized(rows, prior, incoming, entries) \in Rows
BY DEF Materialized, Rows

-----------------------------------------------------------------------------
\* Every step keeps the types and the sequence numbers.

\* The inductive invariant holds initially.
LEMMA InitSound == Init => Inv
<1> SUFFICES ASSUME Init PROVE Inv
  OBVIOUS
<1> USE SeedsAssumption
<1>1. NoRows \in Rows /\ NoSlice \in Slice
  BY DEF NoRows, Rows, Maybe, NoSlice, Slice
<1>2. Idle \in CallRecord
  BY <1>1 DEF Idle, CallRecord
<1>3. doc \in Doc
  BY DEF Init, Doc
<1>4. registry \in [Label -> Slice] /\ \A l \in Label : registry[l] = NoSlice
  BY <1>1 DEF Init
<1>5. \A l \in Label : registry[l].entries = NoRows
  BY <1>4 DEF NoSlice
<1>6. TypeOK
  <2>1. queue \in Seq(Write) /\ Len(queue) <= MaxInFlight
    BY DEF Init
  <2>2. call \in [Call -> CallRecord]
    BY <1>2 DEF Init
  <2>3. declareSeq \in 0 .. MaxSeq /\ edited \subseteq Role
    BY DEF Init
  <2>4. channel \in BOOLEAN /\ presetDue \in BOOLEAN
    BY Zenon DEF Init
  <2>5. QED
    BY <1>3, <1>4, <1>5, <2>1, <2>2, <2>3, <2>4 DEF TypeOK
<1>7. SeqSound
  BY <1>4 DEF Init, SeqSound, NoSlice
<1>8. QED
  BY <1>6, <1>7 DEF Inv

\* A write of somebody else takes from a call only what the write changes.
LEMMA OvertakenFields ==
  ASSUME NEW c, call[c] \in CallRecord, NEW roles
  PROVE  /\ Overtaken(c, roles) \in CallRecord
         /\ Overtaken(c, roles).pc = call[c].pc
         /\ Overtaken(c, roles).label = call[c].label
         /\ Overtaken(c, roles).entries = call[c].entries
         /\ Overtaken(c, roles).seq = call[c].seq
         /\ Overtaken(c, roles).atDefault = call[c].atDefault \ Rewritten(roles)
         /\ Overtaken(c, roles).asRead = call[c].asRead \ Rewritten(roles)
         /\ Overtaken(c, roles).rulesAsRead
              = (call[c].rulesAsRead /\ roles.rules = doc.rules)
<1> DEFINE known == call[c].rulesAsRead /\ roles.rules = doc.rules
<1>1. known \in BOOLEAN
  BY Zenon
<1>2. Overtaken(c, roles) = [call[c] EXCEPT !.atDefault = @ \ Rewritten(roles),
                                            !.asRead = @ \ Rewritten(roles),
                                            !.rulesAsRead = known]
  BY DEF Overtaken
<1> HIDE DEF known
<1>3. Overtaken(c, roles)
        = [pc |-> call[c].pc, label |-> call[c].label, entries |-> call[c].entries,
           seq |-> call[c].seq, atDefault |-> call[c].atDefault \ Rewritten(roles),
           asRead |-> call[c].asRead \ Rewritten(roles), rulesAsRead |-> known]
  BY <1>2 DEF CallRecord
<1>4. Overtaken(c, roles) \in CallRecord
  BY <1>1, <1>3 DEF CallRecord
<1>5. QED
  BY <1>3, <1>4 DEF known

\* What a declare computes is well typed, and so is what it leaves behind.
LEMMA DeclareSound ==
  ASSUME Inv, NEW c \in Call, NEW label \in Label, NEW entries \in Rows,
         Declare(c, label, entries), presetDue' \in BOOLEAN
  PROVE  Inv'
<1> USE SeedsAssumption
<1> DEFINE candidate == Declared(registry, label, entries, declareSeq + 1)
           list == Materialized(doc.list, Defaults(registry), Defaults(candidate), entries)
<1>1. TypeOK /\ SeqSound /\ declareSeq \in Nat /\ declareSeq < MaxSeq
  BY DEF Inv, TypeOK, Declare
<1>2. /\ candidate \in [Label -> Slice]
      /\ \A l \in Label : candidate[l].entries = NoRows <=> candidate[l] = NoSlice
      /\ \A l \in Label : candidate[l].seq <= declareSeq + 1
      /\ \A l \in Label : candidate[l] # NoSlice => candidate[l].seq > 0
      /\ entries = NoRows => \A l \in Label : candidate[l].seq <= declareSeq
  BY <1>1, DeclaredSound
<1>3. Defaults(registry) \in Rows
  BY <1>1, DefaultsAreRows DEF TypeOK, SeqSound
<1>4. Defaults(candidate) \in Rows
  <2> HIDE DEF candidate
  <2> QED BY <1>1, <1>2, DefaultsAreRows
<1>5. doc.list \in Rows
  BY <1>1 DEF TypeOK, Doc
<1>6. list \in Rows
  <2> HIDE DEF candidate
  <2> QED BY <1>3, <1>4, <1>5, MaterializedIsRows
<1> HIDE DEF candidate, list
<1>7. CASE list = doc.list /\ registry' = candidate
           /\ declareSeq' = (IF entries = NoRows THEN declareSeq ELSE declareSeq + 1)
           /\ edited' = edited \ Settled(registry', doc.list)
           /\ UNCHANGED <<queue, call, doc, channel>>
  <2>1. declareSeq' \in 0 .. MaxSeq
    BY <1>1, <1>7
  <2>2. TypeOK'
    BY <1>1, <1>2, <1>7, <2>1 DEF TypeOK
  <2>3. SeqSound'
    BY <1>1, <1>2, <1>7 DEF SeqSound
  <2>4. QED
    BY <2>2, <2>3 DEF Inv
<1>8. ASSUME list # doc.list, Len(queue) < MaxInFlight,
             Issue(c, [doc EXCEPT !.list = list]),
             NEW request \in CallRecord, call' = [call EXCEPT ![c] = request],
             UNCHANGED <<registry, declareSeq, edited, doc, channel>>
      PROVE  Inv'
  <2>1. [by |-> c, roles |-> [doc EXCEPT !.list = list]] \in Write
    BY <1>1, <1>6 DEF TypeOK, Doc, Write
  <2>2. queue' \in Seq(Write) /\ Len(queue') <= MaxInFlight
    BY <1>1, <1>8, <2>1 DEF TypeOK, Issue
  <2>3. TypeOK'
    BY <1>1, <1>8, <2>2 DEF TypeOK
  <2>4. SeqSound'
    BY <1>1, <1>8 DEF SeqSound
  <2>5. QED
    BY <2>3, <2>4 DEF Inv
<1>9. [pc |-> "declaring", label |-> label, entries |-> entries, seq |-> declareSeq + 1,
       atDefault |-> {id \in Role : entries[id] # None /\ FollowsDefault(id)},
       asRead |-> Role, rulesAsRead |-> TRUE] \in CallRecord
  BY <1>1 DEF CallRecord
<1>10. QED
  BY <1>7, <1>8, <1>9 DEF Declare, candidate, list

\* Every step keeps the inductive invariant.
LEMMA NextSound == Inv /\ [Next]_vars => Inv'
<1> SUFFICES ASSUME Inv, [Next]_vars PROVE Inv'
  OBVIOUS
<1> USE SeedsAssumption
<1>0. TypeOK /\ SeqSound /\ declareSeq \in Nat
  BY DEF Inv, TypeOK
<1>1. ASSUME NEW c \in Call, CompanionDeclares(c) PROVE Inv'
  <2>1. PICK label \in SetName, entries \in Batch : Declare(c, label, entries)
    BY <1>1 DEF CompanionDeclares
  <2>2. label \in Label /\ entries \in Rows /\ presetDue' \in BOOLEAN
    BY <1>0, <1>1 DEF Label, CompanionDeclares, TypeOK
  <2>3. QED
    BY <2>1, <2>2, DeclareSound
<1>2. ASSUME NEW c \in Call, PresetsDeclare(c) PROVE Inv'
  <2>1. Bundled \in Label /\ Preset \in Rows /\ presetDue' \in BOOLEAN
    BY <1>2 DEF Label, PresetsDeclare
  <2>2. QED
    BY <1>2, <2>1, DeclareSound DEF PresetsDeclare
<1>3. ASSUME NEW c \in Call, CommitDeclare(c) PROVE Inv'
  <2> DEFINE r == Declared(registry, call[c].label, call[c].entries, declareSeq + 1)
  <2>1. call[c] \in CallRecord
    BY <1>0 DEF TypeOK
  <2>2. call[c].label \in Label \union {None} /\ call[c].entries \in Rows
    BY <2>1 DEF CallRecord
  <2>3. /\ r \in [Label -> Slice]
        /\ \A l \in Label : r[l].entries = NoRows <=> r[l] = NoSlice
        /\ \A l \in Label : r[l].seq <= declareSeq + 1
        /\ \A l \in Label : r[l] # NoSlice => r[l].seq > 0
        /\ call[c].entries = NoRows => \A l \in Label : r[l].seq <= declareSeq
    <3>1. ASSUME NEW label \in Label \union {None}, NEW entries \in Rows
          PROVE  LET s == Declared(registry, label, entries, declareSeq + 1)
                 IN  /\ s \in [Label -> Slice]
                     /\ \A l \in Label : s[l].entries = NoRows <=> s[l] = NoSlice
                     /\ \A l \in Label : s[l].seq <= declareSeq + 1
                     /\ \A l \in Label : s[l] # NoSlice => s[l].seq > 0
                     /\ entries = NoRows => \A l \in Label : s[l].seq <= declareSeq
      BY <1>0, DeclaredSound
    <3>2. QED
      BY <2>2, <3>1
  <2>4. registry' = r /\ declareSeq < MaxSeq
        /\ declareSeq' = (IF call[c].entries = NoRows THEN declareSeq ELSE declareSeq + 1)
        /\ call' = [call EXCEPT ![c] = Idle]
        /\ edited' = edited \ Settled(registry', doc.list)
        /\ UNCHANGED <<doc, queue, channel, presetDue>>
    BY <1>3 DEF CommitDeclare, CommitSeq
  <2> HIDE DEF r
  <2>5. Idle \in CallRecord
    BY DEF Idle, CallRecord, NoRows, Rows, Maybe
  <2>6. TypeOK'
    BY <1>0, <2>3, <2>4, <2>5 DEF TypeOK
  <2>7. SeqSound'
    BY <1>0, <2>3, <2>4 DEF SeqSound
  <2>8. QED
    BY <2>6, <2>7 DEF Inv
<1>4. ASSUME NEW c \in Call, NEW id \in Role, Revert(c, id) PROVE Inv'
  <2>1. Resolved(registry, id) \in Maybe
    BY <1>0, ResolvedIsDeclared DEF TypeOK, SeqSound, Label
  <2>2. [by |-> c, roles |-> [doc EXCEPT !.list[id] = Resolved(registry, id)]] \in Write
    BY <1>0, <2>1 DEF TypeOK, Doc, Rows, Write
  <2>3. queue' \in Seq(Write) /\ Len(queue') <= MaxInFlight
    BY <1>0, <1>4, <2>2 DEF TypeOK, Revert, Issue
  <2>4. [Idle EXCEPT !.pc = "reverting"] \in CallRecord
    BY DEF Idle, CallRecord, NoRows, Rows, Maybe
  <2>5. TypeOK'
    BY <1>0, <1>4, <2>3, <2>4 DEF TypeOK, Revert
  <2>6. SeqSound'
    BY <1>0, <1>4 DEF SeqSound, Revert
  <2>7. QED
    BY <2>5, <2>6 DEF Inv
<1>5. ASSUME NEW c \in Call, RevertReturns(c) PROVE Inv'
  <2>1. Idle \in CallRecord
    BY DEF Idle, CallRecord, NoRows, Rows, Maybe
  <2>2. QED
    BY <1>0, <1>5, <2>1 DEF Inv, TypeOK, SeqSound, RevertReturns
<1>6. CASE PresetsSkipped
  BY <1>0, <1>6 DEF Inv, TypeOK, SeqSound, PresetsSkipped
<1>7. CASE OperatorSets
  <2>1. PICK roles \in {[doc EXCEPT !.list[id] = persona] : id \in Role, persona \in Maybe}
                         \union {[doc EXCEPT !.rules = @ + 1]} :
          roles.rules <= MaxRules /\ Issue(Operator, roles)
    BY <1>7 DEF OperatorSets
  <2>2. roles \in Doc
    BY <1>0, <2>1 DEF TypeOK, Doc, Rows
  <2>3. [by |-> Operator, roles |-> roles] \in Write
    BY <2>2 DEF Write
  <2>4. queue' \in Seq(Write) /\ Len(queue') <= MaxInFlight
    BY <1>0, <1>7, <2>1, <2>3 DEF TypeOK, OperatorSets, Issue
  <2>5. TypeOK'
    BY <1>0, <1>7, <2>4 DEF TypeOK, OperatorSets
  <2>6. SeqSound'
    BY <1>0, <1>7 DEF SeqSound, OperatorSets
  <2>7. QED
    BY <2>5, <2>6 DEF Inv
<1>8. CASE OperatorResets
  <2>1. [by |-> Operator, roles |-> [list |-> NoRows, rules |-> 0]] \in Write
    BY DEF Write, Doc, NoRows, Rows, Maybe
  <2>2. queue' \in Seq(Write) /\ Len(queue') <= MaxInFlight
    BY <1>0, <1>8, <2>1 DEF TypeOK, OperatorResets, Issue
  <2>3. TypeOK'
    BY <1>0, <1>8, <2>2 DEF TypeOK, OperatorResets
  <2>4. SeqSound'
    BY <1>0, <1>8 DEF SeqSound, OperatorResets
  <2>5. QED
    BY <2>3, <2>4 DEF Inv
<1>9. CASE HostCommits
  <2> DEFINE w == Head(queue)
  <2>1. w \in Write /\ queue' \in Seq(Write) /\ Len(queue') <= MaxInFlight
    BY <1>0, <1>9 DEF TypeOK, HostCommits
  <2>2. doc' \in Doc
    BY <1>9, <2>1 DEF HostCommits, Write
  <2>3. \A c \in Call : Answered(c) \in CallRecord
    <3>1. \A c \in Call : [call[c] EXCEPT !.pc = "declared"] \in CallRecord
      BY <1>0 DEF TypeOK, CallRecord
    <3>2. [Idle EXCEPT !.pc = "reverted"] \in CallRecord
      BY DEF Idle, CallRecord, NoRows, Rows, Maybe
    <3>3. QED
      BY <3>1, <3>2 DEF Answered
  <2>4. \A c \in Call : Overtaken(c, w.roles) \in CallRecord
    BY <1>0, OvertakenFields DEF TypeOK
  <2>5. call' \in [Call -> CallRecord] /\ edited' \subseteq Role
    <3>1. call' = [c \in Call |->
                     IF c = w.by THEN Answered(c) ELSE Overtaken(c, w.roles)]
      BY <1>9 DEF HostCommits
    <3>2. call' \in [Call -> CallRecord]
      BY <2>3, <2>4, <3>1
    <3>3. Departing(w.roles) \subseteq Role /\ edited \subseteq Role
      BY <1>0 DEF TypeOK, Rewritten, Departing
    <3>4. edited' \subseteq edited \union Departing(w.roles)
      BY <1>9 DEF HostCommits
    <3>5. QED
      BY <3>2, <3>3, <3>4
  <2>6. TypeOK'
    BY <1>0, <1>9, <2>1, <2>2, <2>5 DEF TypeOK, HostCommits
  <2>7. SeqSound'
    BY <1>0, <1>9 DEF SeqSound, HostCommits
  <2>8. QED
    BY <2>6, <2>7 DEF Inv
<1>10. CASE HostRejects
  <2>1. queue' \in Seq(Write) /\ Len(queue') <= MaxInFlight
    BY <1>0, <1>10 DEF TypeOK, HostRejects
  <2>2. Idle \in CallRecord
    BY DEF Idle, CallRecord, NoRows, Rows, Maybe
  <2>3. call' \in [Call -> CallRecord]
    BY <1>0, <1>10, <2>2 DEF TypeOK, HostRejects
  <2>4. TypeOK'
    BY <1>0, <1>10, <2>1, <2>3 DEF TypeOK, HostRejects
  <2>5. SeqSound'
    BY <1>0, <1>10 DEF SeqSound, HostRejects
  <2>6. QED
    BY <2>4, <2>5 DEF Inv
<1>11. CASE SettingsAppear
  BY <1>0, <1>11 DEF Inv, TypeOK, SeqSound, SettingsAppear
<1>12. CASE SettingsVanish
  BY <1>0, <1>12 DEF Inv, TypeOK, SeqSound, SettingsVanish
<1>13. CASE Restart
  <2>1. Idle \in CallRecord /\ NoSlice \in Slice /\ NoSlice.entries = NoRows /\ NoSlice.seq = 0
    BY DEF Idle, CallRecord, NoRows, Rows, Maybe, NoSlice, Slice
  <2>2. registry' \in [Label -> Slice] /\ \A l \in Label : registry'[l] = NoSlice
    BY <1>13, <2>1 DEF Restart
  <2>3. declareSeq' = 0 /\ queue' = <<>> /\ call' \in [Call -> CallRecord]
    BY <1>13, <2>1 DEF Restart
  <2>4. TypeOK'
    <3>1. \A l \in Label : registry'[l].entries = NoRows
      BY <2>1, <2>2
    <3>2. queue' \in Seq(Write) /\ Len(queue') <= MaxInFlight
      BY <2>3
    <3>3. doc' \in Doc /\ edited' \subseteq Role /\ channel' \in BOOLEAN /\ presetDue' \in BOOLEAN
      BY <1>0, <1>13 DEF TypeOK, Restart
    <3>4. declareSeq' \in 0 .. MaxSeq
      BY <2>3
    <3>5. QED
      BY <2>2, <2>3, <3>1, <3>2, <3>3, <3>4 DEF TypeOK
  <2>5. SeqSound'
    BY <2>1, <2>2, <2>3 DEF SeqSound
  <2>6. QED
    BY <2>4, <2>5 DEF Inv
<1>14. CASE UNCHANGED vars
  BY <1>0, <1>14 DEF Inv, TypeOK, SeqSound, vars
<1>15. QED
  BY <1>1, <1>2, <1>3, <1>4, <1>5, <1>6, <1>7, <1>8, <1>9, <1>10, <1>11, <1>12, <1>13, <1>14
     DEF Next

\* Every reachable state is well typed and a producer that declares nothing has no
\* slice, for any roles, producers and number of calls.
THEOREM TypeCorrect == Spec => []TypeOK
<1>1. Spec => []Inv
  BY InitSound, NextSound, PTL DEF Spec
<1>2. Inv => TypeOK
  BY DEF Inv
<1>3. QED
  BY <1>1, <1>2, PTL

-----------------------------------------------------------------------------
\* The most recent producer.

\* A slice committed with the next number leaves no two slices with one number.
LEMMA DeclaredDecidable ==
  ASSUME Inv, MostRecentIsDecidable,
         NEW label, NEW entries \in Rows,
         registry' = Declared(registry, label, entries, declareSeq + 1)
  PROVE  MostRecentIsDecidable'
<1>1. registry \in [Label -> Slice] /\ declareSeq \in Nat
  BY SeedsAssumption DEF Inv, TypeOK
<1>2. \A l \in SetName : /\ registry[l].seq \in Nat /\ registry[l].seq <= declareSeq
                         /\ registry[l] # NoSlice => registry[l].seq > 0
  BY <1>1 DEF Inv, SeqSound, Label, Slice
<1>3. ASSUME NEW k \in SetName, NEW l \in SetName,
             registry'[k] # NoSlice, registry'[k].seq = registry'[l].seq
      PROVE  k = l
  <2> DEFINE new == IF entries = NoRows THEN NoSlice
                    ELSE [seq |-> declareSeq + 1, entries |-> entries]
  <2>1. registry' = [registry EXCEPT ![label] = new]
    BY DEF Declared
  <2>2. \A m \in SetName : registry'[m] = IF m = label THEN new ELSE registry[m]
    BY <1>1, <2>1 DEF Label
  <2>3. new # NoSlice => new.seq = declareSeq + 1
    OBVIOUS
  <2>4. new = NoSlice => new.seq = 0
    BY DEF NoSlice
  <2> HIDE DEF new
  <2>5. QED
    BY <1>1, <1>2, <1>3, <2>2, <2>3, <2>4 DEF MostRecentIsDecidable
<1>4. QED
  BY <1>3 DEF MostRecentIsDecidable

\* However the declares of several producers interleave, "the most recent producer"
\* names one of them.
THEOREM RecentProducerIsUnique == Spec => []MostRecentIsDecidable
<1>1. Init => MostRecentIsDecidable
  BY DEF Init, MostRecentIsDecidable, Label
<1>2. Inv /\ MostRecentIsDecidable /\ [Next]_vars => MostRecentIsDecidable'
  <2> SUFFICES ASSUME Inv, MostRecentIsDecidable, [Next]_vars
               PROVE  MostRecentIsDecidable'
    OBVIOUS
  <2>1. CASE registry' = registry
    BY <2>1 DEF MostRecentIsDecidable
  <2>2. ASSUME NEW c \in Call, NEW label, NEW entries \in Rows, Declare(c, label, entries)
        PROVE  MostRecentIsDecidable'
    <3>1. \/ registry' = Declared(registry, label, entries, declareSeq + 1)
          \/ registry' = registry
      BY <2>2 DEF Declare
    <3>2. QED
      BY <2>1, <3>1, DeclaredDecidable
  <2>3. ASSUME NEW c \in Call, CompanionDeclares(c) PROVE MostRecentIsDecidable'
    BY <2>2, <2>3, SeedsAssumption DEF CompanionDeclares
  <2>4. ASSUME NEW c \in Call, PresetsDeclare(c) PROVE MostRecentIsDecidable'
    BY <2>2, <2>4, SeedsAssumption DEF PresetsDeclare
  <2>5. ASSUME NEW c \in Call, CommitDeclare(c) PROVE MostRecentIsDecidable'
    <3>1. call[c].entries \in Rows
      BY DEF Inv, TypeOK, CallRecord
    <3>2. registry' = Declared(registry, call[c].label, call[c].entries, declareSeq + 1)
      BY <2>5 DEF CommitDeclare, CommitSeq
    <3>3. QED
      BY <3>1, <3>2, DeclaredDecidable
  <2>6. CASE Restart
    BY <2>6 DEF Restart, MostRecentIsDecidable, Label
  <2>7. ASSUME NEW c \in Call, NEW id \in Role, Revert(c, id)
        PROVE  MostRecentIsDecidable'
    BY <2>1, <2>7 DEF Revert
  <2>8. CASE PresetsSkipped \/ SettingsAppear \/ SettingsVanish \/ UNCHANGED vars
    BY <2>1, <2>8 DEF PresetsSkipped, SettingsAppear, SettingsVanish, vars
  <2>9. CASE OperatorSets \/ OperatorResets
    BY <2>1, <2>9 DEF OperatorSets, OperatorResets
  <2>10. CASE HostCommits \/ HostRejects
    BY <2>1, <2>10 DEF HostCommits, HostRejects
  <2>11. ASSUME NEW c \in Call, RevertReturns(c) PROVE MostRecentIsDecidable'
    BY <2>1, <2>11 DEF RevertReturns
  <2>12. QED
    BY <2>3, <2>4, <2>5, <2>6, <2>7, <2>8, <2>9, <2>10, <2>11 DEF Next
<1>3. QED
  BY <1>1, <1>2, InitSound, NextSound, PTL DEF Spec

-----------------------------------------------------------------------------
\* The rows that follow their default, for any number of writes in flight.

Pending == {"declaring", "declared"}

\* What an id of a batch resolves to once the batch is the newest: the bundled
\* presets win, otherwise the batch does.
Winning(label, entries, id) ==
  IF label # Bundled /\ registry[Bundled].entries[id] # None
  THEN registry[Bundled].entries[id] ELSE entries[id]

\* A call has one write at most in the queue, and waits for it.
QueueOwned ==
  \A i \in 1 .. Len(queue) : queue[i].by # Operator =>
     /\ call[queue[i].by].pc \in {"declaring", "reverting"}
     /\ \A j \in 1 .. Len(queue) : queue[j].by = queue[i].by => j = i

\* What a call of declare carries is of its batch, and its number is not yet taken.
CallsSound ==
  \A c \in Call : call[c].pc \in Pending =>
     /\ call[c].seq <= declareSeq + 1
     /\ call[c].label \in Label
     /\ call[c].label = Bundled => call[c].entries = Preset
     /\ \A id \in call[c].atDefault : call[c].entries[id] # None

PresetsOnly == registry[Bundled].entries \in {NoRows, Preset}

\* While no producer declared since, the rows a call materialised stand, or are
\* written, at the default that its commit will make the one that holds.
RowsPending ==
  \A c \in Call : call[c].seq = declareSeq + 1 =>
     \A id \in call[c].atDefault :
        /\ call[c].pc = "declared"
             => doc.list[id] = Winning(call[c].label, call[c].entries, id)
        /\ call[c].pc = "declaring"
             => \A i \in 1 .. Len(queue) : queue[i].by = c =>
                  queue[i].roles.list[id] = Winning(call[c].label, call[c].entries, id)

FollowInv == Inv /\ QueueOwned /\ CallsSound /\ PresetsOnly /\ RowsPending

\* A batch declared with a number past the counter is what its ids resolve to, unless
\* the bundled presets have the id.
LEMMA NewestWins ==
  ASSUME Inv, NEW label \in Label, NEW entries \in Rows, NEW id \in Role, entries[id] # None
  PROVE  Resolved(Declared(registry, label, entries, declareSeq + 1), id)
           = Winning(label, entries, id)
<1> DEFINE r == Declared(registry, label, entries, declareSeq + 1)
<1>1. declareSeq \in Nat /\ registry \in [Label -> Slice]
  BY SeedsAssumption DEF Inv, TypeOK
<1>2. entries # NoRows
  BY DEF NoRows
<1>3. r = [registry EXCEPT ![label] = [seq |-> declareSeq + 1, entries |-> entries]]
  BY <1>2 DEF Declared
<1>4. \A l \in Label : r[l] = IF l = label THEN [seq |-> declareSeq + 1, entries |-> entries]
                              ELSE registry[l]
  BY <1>1, <1>3
<1>5. Bundled \in Label /\ SetName \subseteq Label /\ Bundled \notin SetName
  BY SeedsAssumption DEF Label
<1>6. \A l \in Label : registry[l].seq \in Nat /\ registry[l].seq <= declareSeq
  BY <1>1 DEF Inv, SeqSound, Slice
<1> HIDE DEF r
<1>7. CASE label = Bundled
  <2>1. r[Bundled].entries[id] = entries[id]
    BY <1>4, <1>5, <1>7
  <2>2. QED
    BY <1>7, <2>1 DEF Resolved, Winning, r
<1>8. CASE label # Bundled /\ registry[Bundled].entries[id] # None
  <2>1. r[Bundled].entries[id] = registry[Bundled].entries[id]
    BY <1>4, <1>5, <1>8
  <2>2. QED
    BY <1>8, <2>1 DEF Resolved, Winning, r
<1>9. CASE label # Bundled /\ registry[Bundled].entries[id] = None
  <2> DEFINE newest(l) == \A k \in Declaring(r, id) : r[k].seq <= r[l].seq
             winner == CHOOSE l \in Declaring(r, id) : newest(l)
  <2>1. label \in SetName /\ r[Bundled].entries[id] = None
    BY <1>4, <1>5, <1>9 DEF Label
  <2>2. r[label].entries = entries /\ r[label].seq = declareSeq + 1
    BY <1>4
  <2>3. label \in Declaring(r, id)
    BY <2>1, <2>2 DEF Declaring
  <2>4. \A l \in Declaring(r, id) : l \in Label /\ (l # label => r[l].seq <= declareSeq)
    BY <1>4, <1>5, <1>6 DEF Declaring
  <2>5. newest(label)
    BY <1>1, <1>6, <1>4, <2>2, <2>4
  <2>6. \A l \in Declaring(r, id) : newest(l) => l = label
    BY <1>1, <1>6, <1>4, <2>2, <2>3, <2>4
  <2>7. winner = label
    <3> HIDE DEF newest
    <3> QED BY <2>3, <2>5, <2>6
  <2>8. Resolved(r, id) = r[winner].entries[id]
    BY <2>1, <2>3 DEF Resolved
  <2>9. QED
    BY <1>9, <2>2, <2>7, <2>8 DEF Winning, r
<1>10. QED
  BY <1>7, <1>8, <1>9

\* A write in the queue is of a call or of the operator.
LEMMA WritesAreTyped ==
  ASSUME Inv
  PROVE  /\ queue \in Seq(Write)
         /\ \A i \in 1 .. Len(queue) : queue[i].by \in Call \/ queue[i].by = Operator
<1>1. queue \in Seq(Write)
  BY DEF Inv, TypeOK
<1>2. \A i \in 1 .. Len(queue) : queue[i] \in Write
  BY <1>1
<1>3. QED
  BY <1>1, <1>2 DEF Write

\* Nothing is declared, called or written at first.
LEMMA FollowStarts == Init => FollowInv
<1> SUFFICES ASSUME Init PROVE FollowInv
  OBVIOUS
<1>1. \A c \in Call : call[c].pc = "idle" /\ call[c].atDefault = {}
  BY DEF Init, Idle
<1>2. QueueOwned
  BY DEF Init, QueueOwned
<1>3. CallsSound /\ RowsPending
  BY <1>1 DEF CallsSound, RowsPending, Pending
<1>4. PresetsOnly
  BY DEF Init, PresetsOnly, NoSlice, Label
<1>5. QED
  BY <1>2, <1>3, <1>4, InitSound DEF FollowInv

\* A slice set in place moves the counter, or leaves what every id resolves to.
LEMMA FollowDeclared ==
  ASSUME FollowInv, Inv', doc' = doc, queue' = queue,
         NEW label \in Label, NEW entries \in Rows, label = Bundled => entries = Preset,
         registry' = Declared(registry, label, entries, declareSeq + 1),
         declareSeq' = IF entries = NoRows THEN declareSeq ELSE declareSeq + 1,
         NEW c \in Call, call[c].pc \in {"idle", "declared"},
         call' = call \/ call' = [call EXCEPT ![c] = Idle]
  PROVE  FollowInv'
<1>1. declareSeq \in Nat /\ registry \in [Label -> Slice] /\ call \in [Call -> CallRecord]
  BY SeedsAssumption DEF FollowInv, Inv, TypeOK
<1>2. \A d \in Call : call'[d] = call[d] \/ (d = c /\ call'[d] = Idle)
  BY <1>1
<1>3. \A d \in Call : call'[d].pc \in Pending \/ call'[d].pc = "reverting" => call'[d] = call[d]
  BY <1>2 DEF Idle, Pending
<1>4. Bundled \in Label
  BY DEF Label
<1>5. registry'[Bundled].entries = IF label = Bundled THEN entries ELSE registry[Bundled].entries
  <2>1. CASE entries = NoRows
    <3>1. registry' = [registry EXCEPT ![label] = NoSlice]
      BY <2>1 DEF Declared
    <3>2. QED
      BY <1>1, <1>4, <2>1, <3>1 DEF NoSlice
  <2>2. CASE entries # NoRows
    <3>1. registry' = [registry EXCEPT ![label] = [seq |-> declareSeq + 1, entries |-> entries]]
      BY <2>2 DEF Declared
    <3>2. QED
      BY <1>1, <1>4, <3>1
  <2>3. QED
    BY <2>1, <2>2
<1>6. PresetsOnly'
  BY <1>5 DEF FollowInv, PresetsOnly
<1>7. entries = NoRows => registry'[Bundled].entries = registry[Bundled].entries
  BY <1>5 DEF FollowInv, PresetsOnly
<1>8. QueueOwned'
  <2>1. \A d \in Call : call[d].pc \in {"declaring", "reverting"} => call'[d] = call[d]
    BY <1>2
  <2>2. QED
    BY <2>1, WritesAreTyped DEF FollowInv, QueueOwned
<1>9. CallsSound'
  <2> SUFFICES ASSUME NEW d \in Call, call'[d].pc \in Pending
               PROVE  /\ call'[d].seq <= declareSeq' + 1
                      /\ call'[d].label \in Label
                      /\ call'[d].label = Bundled => call'[d].entries = Preset
                      /\ \A id \in call'[d].atDefault : call'[d].entries[id] # None
    BY DEF CallsSound
  <2>1. call'[d] = call[d] /\ call[d].seq \in Nat
    BY <1>1, <1>3 DEF CallRecord
  <2>2. QED
    BY <1>1, <2>1 DEF FollowInv, CallsSound
<1>10. RowsPending'
  <2> SUFFICES ASSUME NEW d \in Call, call'[d].seq = declareSeq' + 1,
                      call'[d].pc \in Pending, NEW id \in call'[d].atDefault
               PROVE  /\ call'[d].pc = "declared"
                           => doc.list[id] = Winning(call[d].label, call[d].entries, id)'
                      /\ call'[d].pc = "declaring"
                           => \A i \in 1 .. Len(queue) : queue[i].by = d =>
                                queue[i].roles.list[id] = Winning(call[d].label, call[d].entries, id)'
    BY DEF RowsPending, Pending
  <2>1. call'[d] = call[d] /\ call[d].seq \in Nat /\ call[d].seq <= declareSeq + 1
    BY <1>1, <1>3 DEF CallRecord, FollowInv, CallsSound
  <2>2. entries = NoRows /\ declareSeq' = declareSeq
    BY <1>1, <2>1
  <2>3. Winning(call[d].label, call[d].entries, id)' = Winning(call[d].label, call[d].entries, id)
    BY <1>7, <2>1, <2>2 DEF Winning
  <2>4. QED
    BY <2>1, <2>2, <2>3 DEF FollowInv, RowsPending
<1>11. QED
  BY <1>6, <1>8, <1>9, <1>10 DEF FollowInv

\* A write joins the queue: the operator's, or that of a call that was idle.
LEMMA FollowIssued ==
  ASSUME FollowInv, Inv', UNCHANGED <<doc, registry, declareSeq>>,
         NEW by \in Call \union {Operator}, NEW roles, Issue(by, roles),
         by = Operator => call' = call,
         by # Operator => /\ call[by].pc = "idle"
                          /\ call'[by].pc \in {"declaring", "reverting"}
                          /\ \A d \in Call : d # by => call'[d] = call[d],
         (by # Operator /\ call'[by].pc = "declaring") =>
            /\ call'[by].seq = declareSeq + 1
            /\ call'[by].label \in Label
            /\ call'[by].label = Bundled => call'[by].entries = Preset
            /\ \A id \in call'[by].atDefault :
                 /\ call'[by].entries[id] # None
                 /\ roles.list[id] = Winning(call'[by].label, call'[by].entries, id)
  PROVE  FollowInv'
<1>1. declareSeq \in Nat /\ Operator \notin Call /\ queue \in Seq(Write)
  BY SeedsAssumption DEF FollowInv, Inv, TypeOK
<1>2. /\ Len(queue') = Len(queue) + 1
      /\ queue'[Len(queue) + 1] = [by |-> by, roles |-> roles]
      /\ \A i \in 1 .. Len(queue) : queue'[i] = queue[i]
  BY <1>1, AppendProperties DEF Issue
<1>3. Len(queue) \in Nat
  BY <1>1, LenProperties
<1>4. queue'[Len(queue) + 1].by = by /\ queue'[Len(queue) + 1].roles = roles
  BY <1>2
<1>5. \A i \in 1 .. Len(queue') : i \in 1 .. Len(queue) \/ i = Len(queue) + 1
  BY <1>2, <1>3
<1>6. \A i \in 1 .. Len(queue) : (queue[i].by \in Call \/ queue[i].by = Operator)
                                 /\ (by # Operator => queue[i].by # by)
  BY WritesAreTyped DEF FollowInv, QueueOwned
<1>7. \A d \in Call : d # by => call'[d] = call[d]
  BY <1>1
<1>8. QueueOwned'
  <2> SUFFICES ASSUME NEW i \in 1 .. Len(queue'), queue'[i].by # Operator
               PROVE  /\ call'[queue'[i].by].pc \in {"declaring", "reverting"}
                      /\ \A j \in 1 .. Len(queue') : queue'[j].by = queue'[i].by => j = i
    BY DEF QueueOwned
  <2>1. CASE i \in 1 .. Len(queue)
    <3>1. queue'[i].by = queue[i].by /\ queue[i].by \in Call /\ queue[i].by # by
      BY <1>1, <1>2, <1>6, <2>1
    <3>2. call'[queue[i].by] = call[queue[i].by]
      BY <1>7, <3>1
    <3>3. \A j \in 1 .. Len(queue') : queue'[j].by = queue'[i].by => j = i
      <4> SUFFICES ASSUME NEW j \in 1 .. Len(queue'), queue'[j].by = queue'[i].by PROVE j = i
        OBVIOUS
      <4>1. j \in 1 .. Len(queue)
        BY <1>4, <1>5, <3>1
      <4>2. queue[j].by = queue[i].by
        BY <1>2, <3>1, <4>1
      <4>3. QED
        BY <2>1, <3>1, <4>1, <4>2 DEF FollowInv, QueueOwned
    <3>4. QED
      BY <2>1, <3>1, <3>2, <3>3 DEF FollowInv, QueueOwned
  <2>2. CASE i = Len(queue) + 1
    <3>1. queue'[i].by = by /\ by \in Call
      BY <1>4, <2>2
    <3>2. \A j \in 1 .. Len(queue) : queue'[j].by # by
      BY <1>2, <1>6, <3>1, <1>1
    <3>3. QED
      BY <1>1, <1>5, <2>2, <3>1, <3>2
  <2>3. QED
    BY <1>5, <2>1, <2>2
<1>9. CallsSound'
  <2> SUFFICES ASSUME NEW d \in Call, call'[d].pc \in Pending
               PROVE  /\ call'[d].seq <= declareSeq + 1
                      /\ call'[d].label \in Label
                      /\ call'[d].label = Bundled => call'[d].entries = Preset
                      /\ \A id \in call'[d].atDefault : call'[d].entries[id] # None
    BY DEF CallsSound
  <2>1. CASE d = by
    BY <1>1, <2>1 DEF Pending
  <2>2. CASE d # by
    BY <1>7, <2>2 DEF FollowInv, CallsSound
  <2>3. QED
    BY <2>1, <2>2
<1>11. RowsPending'
  <2> SUFFICES ASSUME NEW d \in Call, call'[d].seq = declareSeq + 1, NEW id \in call'[d].atDefault
               PROVE  /\ call'[d].pc = "declared"
                           => doc.list[id] = Winning(call'[d].label, call'[d].entries, id)
                      /\ call'[d].pc = "declaring"
                           => \A i \in 1 .. Len(queue') : queue'[i].by = d =>
                                queue'[i].roles.list[id] = Winning(call'[d].label, call'[d].entries, id)
    BY DEF RowsPending, Winning
  <2>1. CASE d = by
    <3>1. call'[d].pc # "declared"
      BY <1>1, <2>1
    <3>2. \A i \in 1 .. Len(queue') : queue'[i].by = d => i = Len(queue) + 1
      BY <1>1, <1>2, <1>5, <1>6, <2>1
    <3>3. call'[d].pc = "declaring"
            => roles.list[id] = Winning(call'[d].label, call'[d].entries, id)
      BY <1>1, <2>1
    <3>4. QED
      BY <1>4, <3>1, <3>2, <3>3
  <2>2. CASE d # by
    <3>1. call'[d] = call[d]
      BY <1>7, <2>2
    <3>2. \A i \in 1 .. Len(queue') : queue'[i].by = d => i \in 1 .. Len(queue) /\ queue'[i] = queue[i]
      BY <1>2, <1>4, <1>5, <2>2
    <3>3. QED
      BY <3>1, <3>2 DEF FollowInv, RowsPending
  <2>3. QED
    BY <2>1, <2>2
<1>12. PresetsOnly'
  BY DEF FollowInv, PresetsOnly
<1>13. QED
  BY <1>8, <1>9, <1>11, <1>12 DEF FollowInv

\* The head of the queue is committed or rejected.
LEMMA FollowShifted ==
  ASSUME FollowInv, Inv', UNCHANGED <<registry, declareSeq>>, queue # <<>>, queue' = Tail(queue),
         NEW w, w = Head(queue),
         \A d \in Call : d # w.by =>
            /\ call'[d].pc = call[d].pc /\ call'[d].seq = call[d].seq
            /\ call'[d].label = call[d].label /\ call'[d].entries = call[d].entries
            /\ \A id \in call'[d].atDefault :
                 id \in call[d].atDefault /\ doc'.list[id] = doc.list[id],
         w.by # Operator =>
            \/ call'[w.by].pc \notin Pending \union {"reverting"}
            \/ /\ call[w.by].pc = "declaring" /\ call'[w.by].pc = "declared" /\ doc' = w.roles
               /\ call'[w.by].seq = call[w.by].seq /\ call'[w.by].label = call[w.by].label
               /\ call'[w.by].entries = call[w.by].entries
               /\ call'[w.by].atDefault = call[w.by].atDefault
  PROVE  FollowInv'
<1>1. Operator \notin Call /\ call \in [Call -> CallRecord]
  BY SeedsAssumption DEF FollowInv, Inv, TypeOK
<1>2. queue \in Seq(Write) /\ Len(queue) \in Nat /\ Len(queue) # 0
  BY WritesAreTyped, LenProperties, EmptySeq DEF FollowInv
<1>3. /\ Len(queue') = Len(queue) - 1
      /\ \A i \in 1 .. Len(queue') : i + 1 \in 1 .. Len(queue) /\ queue'[i] = queue[i + 1]
  BY <1>2
<1>4. 1 \in 1 .. Len(queue) /\ queue[1] = w
  BY <1>2
<1>5. w.by \in Call \/ w.by = Operator
  BY <1>4, WritesAreTyped DEF FollowInv
<1>6. \A i \in 1 .. Len(queue') :
         /\ queue'[i].by \in Call \/ queue'[i].by = Operator
         /\ queue'[i].by # Operator => queue'[i].by # w.by
  <2> SUFFICES ASSUME NEW i \in 1 .. Len(queue')
               PROVE  /\ queue'[i].by \in Call \/ queue'[i].by = Operator
                      /\ queue'[i].by # Operator => queue'[i].by # w.by
    OBVIOUS
  <2>1. i + 1 \in 1 .. Len(queue) /\ queue'[i] = queue[i + 1] /\ i + 1 # 1
    BY <1>2, <1>3
  <2>2. queue[i + 1].by # Operator => queue[i + 1].by # queue[1].by
    BY <1>4, <2>1 DEF FollowInv, QueueOwned
  <2>3. QED
    BY <1>4, <2>1, <2>2, WritesAreTyped DEF FollowInv
<1>7. QueueOwned'
  <2> SUFFICES ASSUME NEW i \in 1 .. Len(queue'), queue'[i].by # Operator
               PROVE  /\ call'[queue'[i].by].pc \in {"declaring", "reverting"}
                      /\ \A j \in 1 .. Len(queue') : queue'[j].by = queue'[i].by => j = i
    BY DEF QueueOwned
  <2>1. i + 1 \in 1 .. Len(queue) /\ queue'[i] = queue[i + 1]
    BY <1>3
  <2>2. queue'[i].by \in Call /\ queue'[i].by # w.by
    BY <1>6
  <2>3. call'[queue'[i].by].pc = call[queue'[i].by].pc
    BY <2>2
  <2>4. /\ call[queue'[i].by].pc \in {"declaring", "reverting"}
        /\ \A j \in 1 .. Len(queue) : queue[j].by = queue[i + 1].by => j = i + 1
    BY <2>1 DEF FollowInv, QueueOwned
  <2>5. \A j \in 1 .. Len(queue') : queue'[j].by = queue'[i].by => j + 1 = i + 1
    BY <1>3, <2>1, <2>4
  <2>6. QED
    BY <2>3, <2>4, <2>5
<1>8. CallsSound'
  <2> SUFFICES ASSUME NEW d \in Call, call'[d].pc \in Pending
               PROVE  /\ call'[d].seq <= declareSeq + 1
                      /\ call'[d].label \in Label
                      /\ call'[d].label = Bundled => call'[d].entries = Preset
                      /\ \A id \in call'[d].atDefault : call'[d].entries[id] # None
    BY DEF CallsSound
  <2>1. CASE d # w.by
    BY <2>1 DEF FollowInv, CallsSound
  <2>2. CASE d = w.by
    <3>1. /\ call[d].pc = "declaring" /\ call'[d].seq = call[d].seq
          /\ call'[d].label = call[d].label /\ call'[d].entries = call[d].entries
          /\ call'[d].atDefault = call[d].atDefault
      BY <1>1, <2>2
    <3>2. QED
      BY <3>1 DEF FollowInv, CallsSound, Pending
  <2>3. QED
    BY <2>1, <2>2
<1>9. RowsPending'
  <2> SUFFICES ASSUME NEW d \in Call, call'[d].seq = declareSeq + 1, NEW id \in call'[d].atDefault
               PROVE  /\ call'[d].pc = "declared"
                           => doc'.list[id] = Winning(call'[d].label, call'[d].entries, id)
                      /\ call'[d].pc = "declaring"
                           => \A i \in 1 .. Len(queue') : queue'[i].by = d =>
                                queue'[i].roles.list[id] = Winning(call'[d].label, call'[d].entries, id)
    BY DEF RowsPending, Winning
  <2>1. CASE d # w.by
    <3>1. /\ call'[d].pc = call[d].pc /\ call[d].seq = declareSeq + 1
          /\ call'[d].label = call[d].label /\ call'[d].entries = call[d].entries
          /\ id \in call[d].atDefault /\ doc'.list[id] = doc.list[id]
      BY <2>1
    <3>2. QED
      BY <1>3, <3>1 DEF FollowInv, RowsPending
  <2>2. CASE d = w.by /\ call'[d].pc \in Pending
    <3>1. call[d].pc = "declaring" /\ doc' = w.roles
      BY <1>1, <2>2
    <3>2. /\ call'[d].seq = call[d].seq /\ call'[d].label = call[d].label /\ call'[d].pc = "declared"
          /\ call'[d].entries = call[d].entries /\ call'[d].atDefault = call[d].atDefault
      BY <1>1, <2>2
    <3>3. queue[1].by = d /\ queue[1].roles = doc'
      BY <1>4, <2>2, <3>1
    <3>4. queue[1].roles.list[id] = Winning(call[d].label, call[d].entries, id)
      BY <1>4, <3>1, <3>2, <3>3 DEF FollowInv, RowsPending
    <3>5. QED
      BY <3>2, <3>3, <3>4
  <2>3. CASE call'[d].pc \notin Pending
    BY <2>3 DEF Pending
  <2>4. QED
    BY <2>1, <2>2, <2>3
<1>10. PresetsOnly'
  BY DEF FollowInv, PresetsOnly
<1>11. QED
  BY <1>7, <1>8, <1>9, <1>10 DEF FollowInv

\* The head of a declare: the slice set in place at once, or a write that brings the
\* rows of its batch that follow their default to the one it will make.
LEMMA FollowDeclare ==
  ASSUME FollowInv, Inv',
         NEW c \in Call, NEW label \in Label, NEW entries \in Rows,
         label = Bundled => entries = Preset, Declare(c, label, entries)
  PROVE  FollowInv'
<1> DEFINE candidate == Declared(registry, label, entries, declareSeq + 1)
           list == Materialized(doc.list, Defaults(registry), Defaults(candidate), entries)
           request == [pc |-> "declaring", label |-> label, entries |-> entries,
                       seq |-> declareSeq + 1,
                       atDefault |-> {id \in Role : entries[id] # None /\ FollowsDefault(id)},
                       asRead |-> Role, rulesAsRead |-> TRUE]
<1>1. FollowInv /\ Inv /\ doc \in Doc /\ call \in [Call -> CallRecord] /\ Operator \notin Call
  BY SeedsAssumption DEF FollowInv, Inv, TypeOK
<1>2. ASSUME NEW id \in Role, entries[id] # None, FollowsDefault(id)
      PROVE  list[id] = Winning(label, entries, id)
  <2>1. list[id] = Resolved(candidate, id)
    BY <1>2 DEF Materialized, Defaults, FollowsDefault
  <2>2. QED
    BY <1>1, <1>2, <2>1, NewestWins
<1>3. [doc EXCEPT !.list = list].list = list
  BY <1>1 DEF Doc
<1> HIDE DEF list
<1>4. CASE list = doc.list
  <2>1. /\ registry' = candidate
        /\ declareSeq' = (IF entries = NoRows THEN declareSeq ELSE declareSeq + 1)
        /\ UNCHANGED <<queue, call, doc>> /\ call[c].pc = "idle"
    BY <1>4 DEF Declare, list
  <2>2. QED
    BY <2>1, FollowDeclared
<1>5. CASE list # doc.list
  <2>1. /\ Issue(c, [doc EXCEPT !.list = list]) /\ call[c].pc = "idle"
        /\ call' = [call EXCEPT ![c] = request]
        /\ UNCHANGED <<registry, declareSeq, doc>>
    BY <1>5 DEF Declare, list
  <2>2. call'[c] = request /\ \A d \in Call : d # c => call'[d] = call[d]
    BY <1>1, <2>1
  <2>3. /\ call'[c].pc = "declaring" /\ call'[c].seq = declareSeq + 1
        /\ call'[c].label = label /\ call'[c].entries = entries
        /\ \A id \in call'[c].atDefault : id \in Role /\ entries[id] # None /\ FollowsDefault(id)
    BY <2>2
  <2> HIDE DEF request
  <2>4. PICK roles : roles = [doc EXCEPT !.list = list]
    OBVIOUS
  <2>5. \A id \in call'[c].atDefault :
           call'[c].entries[id] # None
           /\ roles.list[id] = Winning(call'[c].label, call'[c].entries, id)
    BY <1>2, <1>3, <2>3, <2>4
  <2>6. Issue(c, roles) /\ c # Operator /\ UNCHANGED <<doc, registry, declareSeq>>
    BY <1>1, <2>1, <2>4
  <2>7. QED
    BY <2>1, <2>2, <2>3, <2>5, <2>6, FollowIssued
<1>6. QED
  BY <1>4, <1>5

\* The host's commit, which takes from every other call the rows it rewrites.
LEMMA FollowCommitted ==
  ASSUME FollowInv, Inv', HostCommits
  PROVE  FollowInv'
<1>1. PICK w : w = Head(queue)
  OBVIOUS
<1>2. /\ queue # <<>> /\ queue' = Tail(queue) /\ doc' = w.roles
      /\ UNCHANGED <<registry, declareSeq>>
      /\ call' = [d \in Call |-> IF d = w.by THEN Answered(d) ELSE Overtaken(d, w.roles)]
  BY <1>1 DEF HostCommits
<1>3. queue \in Seq(Write) /\ call \in [Call -> CallRecord]
  BY DEF FollowInv, Inv, TypeOK
<1>4. 1 \in 1 .. Len(queue) /\ queue[1] = w
  BY <1>1, <1>2, <1>3
<1>5. \A d \in Call : d # w.by =>
         /\ call'[d].pc = call[d].pc /\ call'[d].seq = call[d].seq
         /\ call'[d].label = call[d].label /\ call'[d].entries = call[d].entries
         /\ \A id \in call'[d].atDefault :
              id \in call[d].atDefault /\ doc'.list[id] = doc.list[id]
  <2> SUFFICES ASSUME NEW d \in Call, d # w.by
               PROVE  /\ call'[d].pc = call[d].pc /\ call'[d].seq = call[d].seq
                      /\ call'[d].label = call[d].label /\ call'[d].entries = call[d].entries
                      /\ \A id \in call'[d].atDefault :
                           id \in call[d].atDefault /\ doc'.list[id] = doc.list[id]
    OBVIOUS
  <2>1. call'[d] = Overtaken(d, w.roles) /\ call[d] \in CallRecord
    BY <1>2, <1>3
  <2>2. /\ call'[d].pc = call[d].pc /\ call'[d].seq = call[d].seq
        /\ call'[d].label = call[d].label /\ call'[d].entries = call[d].entries
        /\ call'[d].atDefault = call[d].atDefault \ Rewritten(w.roles)
    BY <2>1, OvertakenFields
  <2>3. call[d].atDefault \subseteq Role
    BY <2>1 DEF CallRecord
  <2>4. QED
    BY <1>2, <2>2, <2>3 DEF Rewritten
<1>6. w.by # Operator =>
        \/ call'[w.by].pc \notin Pending \union {"reverting"}
        \/ /\ call[w.by].pc = "declaring" /\ call'[w.by].pc = "declared" /\ doc' = w.roles
           /\ call'[w.by].seq = call[w.by].seq /\ call'[w.by].label = call[w.by].label
           /\ call'[w.by].entries = call[w.by].entries
           /\ call'[w.by].atDefault = call[w.by].atDefault
  <2>1. w.by # Operator => w.by \in Call /\ call'[w.by] = Answered(w.by) /\ call[w.by] \in CallRecord
    BY <1>2, <1>3, <1>4, WritesAreTyped DEF FollowInv
  <2>2. CASE call[w.by].pc = "declaring"
    <3>1. w.by # Operator =>
            call'[w.by] = [call[w.by] EXCEPT !.pc = "declared"] /\ call[w.by] \in CallRecord
      BY <2>1, <2>2 DEF Answered
    <3>2. QED
      BY <1>2, <2>2, <3>1 DEF CallRecord
  <2>3. CASE call[w.by].pc # "declaring"
    <3>1. w.by # Operator => call'[w.by].pc = "reverted"
      BY <2>1, <2>3 DEF Answered, Idle
    <3>2. QED
      BY <3>1 DEF Pending
  <2>4. QED
    BY <2>2, <2>3
<1>7. UNCHANGED <<registry, declareSeq>> /\ queue # <<>> /\ queue' = Tail(queue)
  BY <1>2
<1>8. QED
  BY <1>1, <1>5, <1>6, <1>7, FollowShifted

\* Every step keeps what the theorem rests on.
LEMMA FollowStep == FollowInv /\ [Next]_vars => FollowInv'
<1> SUFFICES ASSUME FollowInv, [Next]_vars PROVE FollowInv'
  OBVIOUS
<1>0. /\ Inv' /\ call \in [Call -> CallRecord] /\ Operator \notin Call
      /\ queue \in Seq(Write) /\ doc \in Doc
  BY NextSound, SeedsAssumption DEF FollowInv, Inv, TypeOK
<1>1. ASSUME NEW c \in Call, CompanionDeclares(c) PROVE FollowInv'
  BY <1>0, <1>1, FollowDeclare, SeedsAssumption DEF CompanionDeclares, Label
<1>2. ASSUME NEW c \in Call, PresetsDeclare(c) PROVE FollowInv'
  BY <1>0, <1>2, FollowDeclare, SeedsAssumption DEF PresetsDeclare, Label
<1>3. ASSUME NEW c \in Call, CommitDeclare(c) PROVE FollowInv'
  <2>1. /\ call[c].label \in Label /\ call[c].entries \in Rows
        /\ call[c].label = Bundled => call[c].entries = Preset
        /\ call[c].pc \in {"idle", "declared"}
    BY <1>0, <1>3 DEF CommitDeclare, FollowInv, CallsSound, CallRecord, Pending
  <2>2. /\ doc' = doc /\ queue' = queue
        /\ registry' = Declared(registry, call[c].label, call[c].entries, declareSeq + 1)
        /\ declareSeq' = IF call[c].entries = NoRows THEN declareSeq ELSE declareSeq + 1
        /\ call' = [call EXCEPT ![c] = Idle]
    BY <1>3 DEF CommitDeclare, CommitSeq
  <2>3. QED
    BY <1>0, <2>1, <2>2, FollowDeclared
<1>4. ASSUME NEW c \in Call, NEW id \in Role, Revert(c, id) PROVE FollowInv'
  <2>1. /\ call'[c].pc = "reverting" /\ \A d \in Call : d # c => call'[d] = call[d]
        /\ call[c].pc = "idle" /\ UNCHANGED <<doc, registry, declareSeq>>
    BY <1>0, <1>4 DEF Revert, Idle
  <2>2. PICK roles : Issue(c, roles)
    BY <1>4 DEF Revert
  <2>3. QED
    BY <1>0, <2>1, <2>2, FollowIssued
<1>5. ASSUME NEW c \in Call, RevertReturns(c) PROVE FollowInv'
  <2>1. /\ \A d \in Call : call'[d] = call[d] \/ (d = c /\ call'[d] = Idle)
        /\ call[c].pc = "reverted" /\ UNCHANGED <<doc, queue, registry, declareSeq>>
    BY <1>0, <1>5 DEF RevertReturns
  <2>2. \A d \in Call : /\ call'[d].pc \in Pending => call'[d] = call[d]
                        /\ call[d].pc \in {"declaring", "reverting"} => call'[d] = call[d]
    BY <2>1 DEF Pending, Idle
  <2>3. QueueOwned'
    BY <2>1, <2>2, WritesAreTyped DEF FollowInv, QueueOwned
  <2>4. CallsSound' /\ PresetsOnly'
    BY <2>1, <2>2 DEF FollowInv, CallsSound, PresetsOnly
  <2>5. RowsPending'
    BY <2>1, <2>2 DEF FollowInv, RowsPending, Winning, Pending
  <2>6. QED
    BY <1>0, <2>3, <2>4, <2>5 DEF FollowInv
<1>6. CASE UNCHANGED <<doc, queue, registry, declareSeq, call>>
  BY <1>0, <1>6 DEF FollowInv, QueueOwned, CallsSound, PresetsOnly, RowsPending, Winning
<1>7. ASSUME OperatorSets \/ OperatorResets PROVE FollowInv'
  <2>1. PICK roles : Issue(Operator, roles)
    BY <1>7 DEF OperatorSets, OperatorResets
  <2>2. UNCHANGED <<doc, registry, declareSeq, call>>
    BY <1>7 DEF OperatorSets, OperatorResets
  <2>3. QED
    BY <1>0, <2>1, <2>2, FollowIssued
<1>8. CASE HostCommits
  BY <1>0, <1>8, FollowCommitted
<1>9. CASE HostRejects
  <2>1. PICK w : w = Head(queue)
    OBVIOUS
  <2>2. /\ queue # <<>> /\ queue' = Tail(queue) /\ UNCHANGED <<registry, declareSeq, doc>>
        /\ \A d \in Call : call'[d] = IF d = w.by THEN Idle ELSE call[d]
    BY <1>9, <2>1 DEF HostRejects
  <2>3. w.by \in Call \/ w.by = Operator
    <3>1. 1 \in 1 .. Len(queue) /\ queue[1] = w
      BY <1>0, <2>1, <2>2
    <3>2. QED
      BY <3>1, WritesAreTyped DEF FollowInv
  <2>4. w.by # Operator => call'[w.by].pc \notin Pending \union {"reverting"}
    BY <2>2, <2>3 DEF Idle, Pending
  <2>5. QED
    BY <1>0, <2>1, <2>2, <2>4, FollowShifted
<1>10. CASE Restart
  <2>1. \A d \in Call : call'[d].pc = "idle" /\ call'[d].atDefault = {}
    BY <1>10 DEF Restart, Idle
  <2>2. QueueOwned'
    BY <1>10 DEF Restart, QueueOwned
  <2>3. CallsSound' /\ RowsPending'
    BY <2>1 DEF CallsSound, RowsPending, Pending
  <2>4. PresetsOnly'
    BY <1>10 DEF Restart, PresetsOnly, NoSlice, Label
  <2>5. QED
    BY <1>0, <2>2, <2>3, <2>4 DEF FollowInv
<1>11. CASE PresetsSkipped \/ SettingsAppear \/ SettingsVanish \/ UNCHANGED vars
  BY <1>6, <1>11 DEF PresetsSkipped, SettingsAppear, SettingsVanish, vars
<1>12. QED
  BY <1>1, <1>2, <1>3, <1>4, <1>5, <1>7, <1>8, <1>9, <1>10, <1>11 DEF Next

\* Rows follow the resolution winner, for any number of producers, calls and writes in
\* flight: a declare that nobody overtook leaves every row of its batch that followed
\* its default at the default that holds now (seeds.ts, declare and materialize).
THEOREM DefaultsFollow == Spec => DefaultRowsFollow
<1>1. FollowInv /\ [Next]_vars =>
        [\A c \in Call : CommitDeclare(c) /\ call[c].seq = declareSeq + 1 =>
           \A id \in call[c].atDefault :
              doc.list[id] # None => doc.list[id] = Resolved(registry', id)]_vars
  <2> SUFFICES ASSUME FollowInv, NEW c \in Call, CommitDeclare(c), call[c].seq = declareSeq + 1,
                      NEW id \in call[c].atDefault
               PROVE  doc.list[id] = Resolved(registry', id)
    OBVIOUS
  <2>1. call[c] \in CallRecord /\ call[c].pc = "declared"
    BY DEF FollowInv, Inv, TypeOK, CommitDeclare
  <2>2. /\ call[c].label \in Label /\ call[c].entries \in Rows /\ id \in Role
        /\ call[c].entries[id] # None
    BY <2>1 DEF FollowInv, CallsSound, CallRecord, Pending
  <2>3. doc.list[id] = Winning(call[c].label, call[c].entries, id)
    BY <2>1 DEF FollowInv, RowsPending
  <2>4. registry' = Declared(registry, call[c].label, call[c].entries, declareSeq + 1)
    BY DEF CommitDeclare, CommitSeq
  <2>5. Resolved(registry', id) = Winning(call[c].label, call[c].entries, id)
    BY <2>2, <2>4, NewestWins DEF FollowInv
  <2>6. QED
    BY <2>3, <2>5
<1>2. QED
  BY <1>1, FollowStarts, FollowStep, PTL DEF Spec, DefaultRowsFollow

-----------------------------------------------------------------------------
\* The operator's rows and rules, for any number of writes in flight.

\* What a write to come does to what the operator made and the call could read.
Keeps(read, roles) ==
  /\ read.rulesAsRead => roles.rules = doc.rules
  /\ \A id \in read.asRead : doc.list[id] # None => roles.list[id] # None
  /\ \A id \in edited \intersect read.asRead : roles.list[id] = doc.list[id]

\* A row counts as the operator's while it departs from its default.
EditedDepart ==
  \A id \in edited : doc.list[id] \notin {None, Resolved(registry, id)}

InFlightKeeps ==
  \A i \in 1 .. Len(queue) :
     (queue[i].by # Operator /\ call[queue[i].by].pc = "declaring")
       => Keeps(call[queue[i].by], queue[i].roles)

Own == FollowInv /\ EditedDepart /\ InFlightKeeps

\* What a declare computes keeps the operator's rows: an id with an entry has a
\* default once the slice is in place, and a row that departs from its default stays.
LEMMA MaterializedKeeps ==
  ASSUME Inv, EditedDepart,
         NEW label \in Label, NEW entries \in Rows, NEW read, read.asRead = Role
  PROVE  LET candidate == Declared(registry, label, entries, declareSeq + 1)
             list == Materialized(doc.list, Defaults(registry), Defaults(candidate), entries)
         IN  Keeps(read, [doc EXCEPT !.list = list])
<1> DEFINE candidate == Declared(registry, label, entries, declareSeq + 1)
           list == Materialized(doc.list, Defaults(registry), Defaults(candidate), entries)
<1>1. TypeOK /\ SeqSound /\ declareSeq + 1 \in Nat
  BY SeedsAssumption DEF Inv, TypeOK
<1>2. candidate \in [Label -> Slice] /\ \A l \in Label : candidate[l].seq <= declareSeq + 1
  BY <1>1, DeclaredSound
<1>3. candidate[label].entries = entries
  BY <1>1 DEF TypeOK, Declared, NoSlice
<1>4. ASSUME NEW id \in Role, entries[id] # None PROVE Defaults(candidate)[id] # None
  <2> HIDE DEF candidate
  <2>1. Resolved(candidate, id) # None
    <3>1. \A l \in SetName : candidate[l].seq <= declareSeq + 1
      BY <1>2 DEF Label
    <3>2. Resolved(candidate, id) = None <=> \A l \in Label : candidate[l].entries[id] = None
      BY <1>1, <1>2, <3>1, ResolvedIsDeclared
    <3>3. QED
      BY <1>3, <1>4, <3>2
  <2>2. QED
    BY <2>1 DEF Defaults
<1>5. \A id \in Role : list[id] = IF entries[id] = None THEN doc.list[id]
                                  ELSE IF doc.list[id] = None \/ doc.list[id] = Resolved(registry, id)
                                       THEN Defaults(candidate)[id] ELSE doc.list[id]
  BY DEF Materialized, Defaults
<1>6. [doc EXCEPT !.list = list].list = list /\ [doc EXCEPT !.list = list].rules = doc.rules
  BY <1>1 DEF TypeOK, Doc
<1> HIDE DEF candidate, list
<1>7. \A id \in Role : doc.list[id] # None => list[id] # None
  BY <1>4, <1>5
<1>8. \A id \in edited : list[id] = doc.list[id]
  BY <1>1, <1>5 DEF EditedDepart, TypeOK
<1>9. Keeps(read, [doc EXCEPT !.list = list])
  BY <1>6, <1>7, <1>8 DEF Keeps
<1>10. QED
  BY <1>9 DEF candidate, list

\* Init makes no row the operator's.
LEMMA InitOwn == Init => Own
<1>1. Init => EditedDepart
  BY DEF Init, EditedDepart
<1>2. Init => InFlightKeeps
  BY DEF Init, InFlightKeeps
<1>3. QED
  BY <1>1, <1>2, FollowStarts DEF Own

\* A step that leaves the rows, the registry and the writes in flight as they are: the
\* ids the operator made its own are those, or fewer that still depart, and no call
\* begins to declare.
LEMMA OwnStays ==
  ASSUME Own, FollowInv', doc' = doc, queue' = queue,
         edited' \subseteq edited, EditedDepart',
         \A c \in Call : call'[c].pc = "declaring" => call'[c] = call[c]
  PROVE  Own'
<1>1. InFlightKeeps'
  <2> SUFFICES ASSUME NEW i \in 1 .. Len(queue), queue[i].by # Operator,
                      call'[queue[i].by].pc = "declaring"
               PROVE  Keeps(call[queue[i].by], queue[i].roles)'
    BY DEF InFlightKeeps
  <2>1. queue[i].by \in Call
    BY WritesAreTyped DEF Own, FollowInv
  <2>2. call'[queue[i].by] = call[queue[i].by]
    BY <2>1
  <2>3. Keeps(call[queue[i].by], queue[i].roles)
    BY <2>1, <2>2 DEF Own, InFlightKeeps
  <2>4. QED
    BY <2>2, <2>3 DEF Keeps
<1>2. QED
  BY <1>1 DEF Own

\* One write issued behind those in flight, by the operator or by a call that was idle.
LEMMA OwnIssued ==
  ASSUME Own, FollowInv', UNCHANGED <<doc, registry, edited>>,
         NEW by \in Call \union {Operator}, NEW roles, Issue(by, roles),
         \A d \in Call : d # by => call'[d] = call[d],
         by # Operator => call[by].pc = "idle",
         (by # Operator /\ call'[by].pc = "declaring") => Keeps(call'[by], roles)
  PROVE  Own'
<1>1. EditedDepart'
  BY DEF Own, EditedDepart
<1>2. queue \in Seq(Write) /\ Len(queue) \in Nat /\ Inv /\ QueueOwned
  BY WritesAreTyped, LenProperties DEF Own, FollowInv
<1>3. /\ Len(queue') = Len(queue) + 1
      /\ queue'[Len(queue) + 1] = [by |-> by, roles |-> roles]
      /\ \A i \in 1 .. Len(queue) : queue'[i] = queue[i]
  BY <1>2, AppendProperties DEF Issue
<1>4. InFlightKeeps'
  <2> SUFFICES ASSUME NEW i \in 1 .. Len(queue'), queue'[i].by # Operator,
                      call'[queue'[i].by].pc = "declaring"
               PROVE  Keeps(call[queue[i].by], queue[i].roles)'
    BY DEF InFlightKeeps
  <2>1. CASE i \in 1 .. Len(queue)
    <3>1. queue'[i] = queue[i] /\ queue[i].by \in Call
      BY <1>2, <1>3, <2>1, WritesAreTyped
    <3>2. queue[i].by # by
      BY <1>2, <2>1, <3>1 DEF QueueOwned
    <3>3. call'[queue[i].by] = call[queue[i].by]
      BY <3>1, <3>2
    <3>4. Keeps(call[queue[i].by], queue[i].roles)
      BY <2>1, <3>1, <3>3 DEF Own, InFlightKeeps
    <3>5. QED
      BY <3>1, <3>3, <3>4 DEF Keeps
  <2>2. CASE i = Len(queue) + 1
    <3>1. queue'[i].by = by /\ queue'[i].roles = roles
      BY <1>3, <2>2
    <3>2. Keeps(call'[by], roles)
      BY <3>1
    <3>3. QED
      BY <3>1, <3>2 DEF Keeps
  <2>3. QED
    BY <1>2, <1>3, <2>1, <2>2
<1>5. QED
  BY <1>1, <1>4 DEF Own

\* A slice committed: the ids it settles are the operator's no longer.
LEMMA SettledDepart ==
  ASSUME Own, doc' = doc, edited' = edited \ Settled(registry', doc.list)
  PROVE  EditedDepart' /\ edited' \subseteq edited
BY DEF Own, FollowInv, Inv, TypeOK, EditedDepart, Settled

\* The head of a declare keeps the operator's rows the operator's.
LEMMA OwnDeclare ==
  ASSUME Own, FollowInv',
         NEW c \in Call, NEW label \in Label, NEW entries \in Rows,
         Declare(c, label, entries)
  PROVE  Own'
<1> DEFINE list == Materialized(doc.list, Defaults(registry),
                     Defaults(Declared(registry, label, entries, declareSeq + 1)), entries)
           request == [pc |-> "declaring", label |-> label, entries |-> entries,
                       seq |-> declareSeq + 1,
                       atDefault |-> {id \in Role : entries[id] # None /\ FollowsDefault(id)},
                       asRead |-> Role, rulesAsRead |-> TRUE]
<1>1. Keeps(request, [doc EXCEPT !.list = list])
  <2>1. request.asRead = Role
    OBVIOUS
  <2> HIDE DEF request
  <2>2. QED
    BY <2>1, MaterializedKeeps DEF Own, FollowInv
<1>2. call \in [Call -> CallRecord]
  BY DEF Own, FollowInv, Inv, TypeOK
<1> HIDE DEF list
<1>3. CASE list = doc.list
  <2>1. /\ edited' = edited \ Settled(registry', doc.list)
        /\ UNCHANGED <<queue, call, doc>>
    BY <1>3 DEF Declare, list
  <2>2. QED
    BY <2>1, SettledDepart, OwnStays
<1>4. CASE list # doc.list
  <2>1. PICK roles : roles = [doc EXCEPT !.list = list]
    OBVIOUS
  <2>2. /\ Issue(c, roles) /\ call[c].pc = "idle"
        /\ call' = [call EXCEPT ![c] = request]
        /\ UNCHANGED <<registry, edited, doc>>
    BY <1>4, <2>1 DEF Declare, list
  <2> HIDE DEF request
  <2>3. call'[c] = request /\ \A d \in Call : d # c => call'[d] = call[d]
    BY <1>2, <2>2
  <2>4. QED
    BY <1>1, <2>1, <2>2, <2>3, OwnIssued
<1>5. QED
  BY <1>3, <1>4

\* The head of the queue leaves it: what the others read is what they read, less what
\* the write changed.
LEMMA OwnShifted ==
  ASSUME Own, FollowInv', EditedDepart', queue # <<>>, queue' = Tail(queue),
         NEW w, w = Head(queue),
         \A d \in Call : d # w.by =>
            /\ call'[d].pc = call[d].pc
            /\ call'[d].rulesAsRead => call[d].rulesAsRead /\ doc'.rules = doc.rules
            /\ \A id \in call'[d].asRead :
                 id \in call[d].asRead /\ doc'.list[id] = doc.list[id]
                 /\ (id \in edited' => id \in edited)
  PROVE  Own'
<1>1. queue \in Seq(Write) /\ Len(queue) \in Nat /\ Len(queue) # 0 /\ QueueOwned /\ Inv
  BY WritesAreTyped, LenProperties, EmptySeq DEF Own, FollowInv
<1>2. /\ Len(queue') = Len(queue) - 1
      /\ \A i \in 1 .. Len(queue') : i + 1 \in 1 .. Len(queue) /\ queue'[i] = queue[i + 1]
  BY <1>1
<1>3. 1 \in 1 .. Len(queue) /\ queue[1] = w
  BY <1>1
<1>4. InFlightKeeps'
  <2> SUFFICES ASSUME NEW i \in 1 .. Len(queue'), queue'[i].by # Operator,
                      call'[queue'[i].by].pc = "declaring"
               PROVE  Keeps(call[queue[i].by], queue[i].roles)'
    BY DEF InFlightKeeps
  <2>1. PICK d, roles : d = queue'[i].by /\ roles = queue'[i].roles
    OBVIOUS
  <2>2. i + 1 \in 1 .. Len(queue) /\ d = queue[i + 1].by /\ roles = queue[i + 1].roles
    BY <1>2, <2>1
  <2>3. d \in Call
    BY <1>1, <2>1, <2>2, WritesAreTyped
  <2>4. d # w.by
    <3>1. i + 1 # 1
      BY <1>1, <1>2
    <3>2. \A j \in 1 .. Len(queue) : queue[j].by = d => j = i + 1
      BY <1>1, <2>1, <2>2 DEF QueueOwned
    <3>3. QED
      BY <1>3, <3>1, <3>2
  <2>5. call[d].pc = "declaring"
    BY <2>1, <2>3, <2>4
  <2>6. Keeps(call[d], roles)
    BY <2>1, <2>2, <2>5 DEF Own, InFlightKeeps
  <2>7. /\ call'[d].rulesAsRead => roles.rules = doc'.rules
        /\ \A id \in call'[d].asRead : doc'.list[id] # None => roles.list[id] # None
        /\ \A id \in edited' \intersect call'[d].asRead : roles.list[id] = doc'.list[id]
    BY <2>3, <2>4, <2>6 DEF Keeps
  <2>8. QED
    BY <2>1, <2>7 DEF Keeps
<1>5. QED
  BY <1>4 DEF Own

\* The host's commit of the oldest write.
LEMMA OwnHostCommits ==
  ASSUME Own, FollowInv', HostCommits
  PROVE  Own'
<1>1. PICK w : w = Head(queue)
  OBVIOUS
<1>2. /\ queue # <<>> /\ queue' = Tail(queue) /\ doc' = w.roles /\ registry' = registry
      /\ call' = [d \in Call |-> IF d = w.by THEN Answered(d) ELSE Overtaken(d, w.roles)]
      /\ edited' \subseteq (edited \ Rewritten(w.roles)) \union Departing(w.roles)
  BY <1>1 DEF HostCommits
<1>3. call \in [Call -> CallRecord] /\ edited \subseteq Role
  BY DEF Own, FollowInv, Inv, TypeOK
<1>4. EditedDepart'
  <2> SUFFICES ASSUME NEW id \in edited'
               PROVE  doc'.list[id] \notin {None, Resolved(registry', id)}
    BY DEF EditedDepart
  <2>1. CASE id \in Departing(w.roles)
    BY <1>2, <2>1 DEF Departing
  <2>2. CASE id \in edited \ Rewritten(w.roles)
    BY <1>2, <1>3, <2>2 DEF Own, EditedDepart, Rewritten
  <2>3. QED
    BY <1>2, <2>1, <2>2
<1>5. ASSUME NEW d \in Call, d # w.by
      PROVE  /\ call'[d].pc = call[d].pc
             /\ call'[d].rulesAsRead => call[d].rulesAsRead /\ doc'.rules = doc.rules
             /\ \A id \in call'[d].asRead :
                  id \in call[d].asRead /\ doc'.list[id] = doc.list[id]
                  /\ (id \in edited' => id \in edited)
  <2>1. call'[d] = Overtaken(d, w.roles) /\ call[d] \in CallRecord
    BY <1>2, <1>3, <1>5
  <2>2. /\ call'[d].pc = call[d].pc
        /\ call'[d].asRead = call[d].asRead \ Rewritten(w.roles)
        /\ call'[d].rulesAsRead = (call[d].rulesAsRead /\ w.roles.rules = doc.rules)
    BY <2>1, OvertakenFields
  <2>3. call[d].asRead \subseteq Role
    BY <2>1 DEF CallRecord
  <2>4. Departing(w.roles) \subseteq Rewritten(w.roles)
    BY DEF Departing
  <2>5. \A id \in call'[d].asRead :
          id \in call[d].asRead /\ doc'.list[id] = doc.list[id] /\ (id \in edited' => id \in edited)
    BY <1>2, <2>2, <2>3, <2>4 DEF Rewritten
  <2>6. call'[d].rulesAsRead => call[d].rulesAsRead /\ doc'.rules = doc.rules
    BY <1>2, <2>2
  <2>7. QED
    BY <2>2, <2>5, <2>6
<1>6. QED
  BY <1>1, <1>2, <1>4, <1>5, OwnShifted

\* A rejected write changes nothing for the others.
LEMMA OwnHostRejects ==
  ASSUME Own, FollowInv', HostRejects
  PROVE  Own'
<1>1. PICK w : w = Head(queue)
  OBVIOUS
<1>2. /\ queue # <<>> /\ queue' = Tail(queue) /\ UNCHANGED <<doc, registry, edited>>
      /\ \A d \in Call : d # w.by => call'[d] = call[d]
  BY <1>1 DEF HostRejects
<1>3. EditedDepart'
  BY <1>2 DEF Own, EditedDepart
<1>4. QED
  BY <1>1, <1>2, <1>3, OwnShifted

\* After a restart no producer declares anything, so every row the operator made
\* its own departs from its default, which is none.
LEMMA OwnRestart ==
  ASSUME Own, FollowInv', Restart
  PROVE  Own'
<1>1. \A l \in Label : registry'[l] = NoSlice
  BY DEF Restart
<1>2. ASSUME NEW id \in Role PROVE Resolved(registry', id) = None
  <2>1. registry'[Bundled].entries[id] = None
    BY <1>1 DEF NoSlice, NoRows, Label
  <2>2. Declaring(registry', id) = {}
    BY <1>1 DEF Declaring, NoSlice, NoRows, Label
  <2>3. QED
    BY <2>1, <2>2 DEF Resolved
<1>3. EditedDepart'
  BY <1>2 DEF Own, FollowInv, Inv, TypeOK, EditedDepart, Restart
<1>4. InFlightKeeps'
  BY DEF Restart, InFlightKeeps
<1>5. QED
  BY <1>3, <1>4 DEF Own

\* Every step keeps the operator's rows the operator's.
LEMMA NextOwn == Own /\ [Next]_vars => Own'
<1> SUFFICES ASSUME Own, [Next]_vars PROVE Own'
  OBVIOUS
<1>0. /\ FollowInv' /\ call \in [Call -> CallRecord] /\ Operator \notin Call
  BY FollowStep, SeedsAssumption DEF Own, FollowInv, Inv, TypeOK
<1>1. ASSUME NEW c \in Call, CompanionDeclares(c) PROVE Own'
  BY <1>0, <1>1, OwnDeclare, SeedsAssumption DEF CompanionDeclares, Label
<1>2. ASSUME NEW c \in Call, PresetsDeclare(c) PROVE Own'
  BY <1>0, <1>2, OwnDeclare, SeedsAssumption DEF PresetsDeclare, Label
<1>3. ASSUME NEW c \in Call, CommitDeclare(c) PROVE Own'
  <2>1. \A d \in Call : call'[d].pc = "declaring" => call'[d] = call[d]
    BY <1>0, <1>3 DEF CommitDeclare, Idle
  <2>2. doc' = doc /\ queue' = queue /\ edited' = edited \ Settled(registry', doc.list)
    BY <1>3 DEF CommitDeclare
  <2>3. QED
    BY <1>0, <2>1, <2>2, SettledDepart, OwnStays
<1>4. ASSUME NEW c \in Call, NEW id \in Role, Revert(c, id) PROVE Own'
  <2>1. call'[c].pc = "reverting" /\ \A d \in Call : d # c => call'[d] = call[d]
    BY <1>0, <1>4 DEF Revert, Idle
  <2>2. PICK roles : Issue(c, roles)
    BY <1>4 DEF Revert
  <2>3. call[c].pc = "idle" /\ UNCHANGED <<doc, registry, edited>>
    BY <1>4 DEF Revert
  <2>4. QED
    BY <1>0, <2>1, <2>2, <2>3, OwnIssued
<1>5. ASSUME NEW c \in Call, RevertReturns(c) PROVE Own'
  <2>1. \A d \in Call : call'[d].pc = "declaring" => call'[d] = call[d]
    BY <1>0, <1>5 DEF RevertReturns, Idle
  <2>2. UNCHANGED <<doc, queue, registry, edited>>
    BY <1>5 DEF RevertReturns
  <2>3. EditedDepart'
    BY <2>2 DEF Own, EditedDepart
  <2>4. QED
    BY <1>0, <2>1, <2>2, <2>3, OwnStays
<1>6. CASE PresetsSkipped \/ SettingsAppear \/ SettingsVanish \/ UNCHANGED vars
  <2>1. UNCHANGED <<doc, queue, registry, edited, call>>
    BY <1>6 DEF PresetsSkipped, SettingsAppear, SettingsVanish, vars
  <2>2. EditedDepart'
    BY <2>1 DEF Own, EditedDepart
  <2>3. QED
    BY <1>0, <2>1, <2>2, OwnStays
<1>7. CASE OperatorSets \/ OperatorResets
  <2>1. PICK roles : Issue(Operator, roles)
    BY <1>7 DEF OperatorSets, OperatorResets
  <2>2. UNCHANGED <<doc, registry, edited, call>>
    BY <1>7 DEF OperatorSets, OperatorResets
  <2>3. QED
    BY <1>0, <2>1, <2>2, OwnIssued
<1>8. CASE HostCommits
  BY <1>0, <1>8, OwnHostCommits
<1>9. CASE HostRejects
  BY <1>0, <1>9, OwnHostRejects
<1>10. CASE Restart
  BY <1>0, <1>10, OwnRestart
<1>11. QED
  BY <1>1, <1>2, <1>3, <1>4, <1>5, <1>6, <1>7, <1>8, <1>9, <1>10 DEF Next

\* The seeds never take from the operator what they could read: no declare, however
\* many calls, producers and writes in flight, removes a row, changes the rules, or
\* changes a persona the operator chose against the default, unless somebody wrote it
\* between the reading and the commit; across restarts and rejected writes.
THEOREM OperatorRowsKept == Spec => OperatorIsKept
<1>1. Own /\ [Next]_vars =>
        [DeclareLands =>
           LET read == call[Head(queue).by]
           IN  /\ read.rulesAsRead => doc'.rules = doc.rules
               /\ \A id \in read.asRead : doc.list[id] # None => doc'.list[id] # None
               /\ \A id \in edited \intersect read.asRead : doc'.list[id] = doc.list[id]]_vars
  <2> SUFFICES ASSUME Own, DeclareLands
               PROVE  Keeps(call[Head(queue).by], doc')
    BY DEF Keeps
  <2>1. queue \in Seq(Write) /\ queue # <<>>
    BY DEF Own, FollowInv, Inv, TypeOK, DeclareLands, SeedsLand
  <2>2. 1 \in 1 .. Len(queue) /\ queue[1] = Head(queue)
    BY <2>1
  <2>3. QED
    BY <2>2 DEF Own, InFlightKeeps, DeclareLands, SeedsLand
<1>2. QED
  BY <1>1, InitOwn, NextOwn, PTL DEF Spec, OperatorIsKept
=============================================================================
