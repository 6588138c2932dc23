------------------------------- MODULE MCConsole ------------------------------
(***************************************************************************)
(* Small instances of the console and of what surrounds the settings: the  *)
(* form over its store and the gateway, the client's feeds, the rows of    *)
(* one document, and a week of time slots.  They share no state here; a    *)
(* behaviour is about one of them, the `scene` its initial state picks.    *)
(* In the scene "slots" the document stands still and time goes by.        *)
(***************************************************************************)
EXTENDS MCSettingsStore, ConsoleFeeds, FormRows

VARIABLE scene
allVars == <<settingsVars, feedVars, formRowVars, scene>>

-----------------------------------------------------------------------------
(* Documents *)

MCMinute == {0, 539, 540, 719, 720, 839, 840, 1079, 1080, 1439}
Padded(text) == [text |-> text, padded |-> TRUE]
exact == <<Entry("exact")>>
Preset(preset, start, days, name, chain) ==
  [kind |-> "preset", preset |-> preset, start |-> start, end |-> Absent, days |-> days,
   name |-> name, chain |-> chain]
Custom(start, end, days, chain) ==
  [kind |-> "custom", preset |-> "-", start |-> start, end |-> end, days |-> days,
   name |-> "-", chain |-> chain]

Roots == {<<>>, <<Entry("official")>>, <<Padded("official")>>, <<Entry("exact")>>,
          <<Padded("exact"), Entry("official")>>, <<Entry("bare"), Entry("official")>>}
FitSlots ==
  {Preset(p, Absent, {}, "-", exact) : p \in PresetId}
  \union {Custom(540, 720, {}, exact), Custom(720, 540, {}, exact), Custom(540, 540, {}, exact),
          Custom(1080, 540, {5}, exact), Custom(540, 1080, {5}, exact)}
SomeSlots ==
  {Preset("liang-peak", Absent, {}, "-", exact), Preset("liang-valley", Absent, {}, "-", exact),
   Preset("liang-peak", Absent, {1}, "-", exact), Preset("liang-peak", 540, {}, "-", exact),
   Preset("unknown", Absent, {}, "-", exact), Preset("liang-peak", Absent, {}, "-", <<>>),
   Preset("liang-peak", Absent, {}, "n", exact), Custom(540, 720, {}, exact),
   Custom(Absent, 720, {}, exact), Custom(540, Blank, {}, exact), Custom(Garbled, 720, {}, exact),
   Custom(540, 720, {7}, exact), Custom(1080, 540, {1, 2}, <<Entry("bare")>>),
   Custom(540, 720, {}, <<Padded("exact"), Entry("")>>),
   [Custom(540, 720, {}, exact) EXCEPT !.kind = "other"]}
UpTo2(S) == {<<>>} \union {<<a>> : a \in S} \union {<<a, b>> : a, b \in S}

Role(id, prompt, chain) ==
  [id |-> id, prompt |-> prompt, chain |-> chain, fallback |-> "inherit-root", labelled |-> FALSE]
SomeRoles ==
  {Role(Id("r1"), "p", exact), Role(Id("r1"), "q", <<Entry("wild")>>),
   Role([name |-> "r1", padded |-> TRUE], "p", exact), Role(Id("r2"), "q", <<>>),
   Role(Id("r2"), "-", <<Entry("bare"), Entry("exact")>>), Role(Id("inherit"), "-", exact),
   Role(Id("Bad"), "-", exact),
   [Role(Id("r1"), "p", <<Padded("exact")>>) EXCEPT !.labelled = TRUE]}
Rule(provider, role, origin) == [provider |-> provider, role |-> role, origin |-> origin]
SomeRules ==
  {<<>>, <<Rule("-", Id("r1"), "-")>>, <<Rule("p", [name |-> "r1", padded |-> TRUE], "root")>>,
   <<Rule("", Id("r2"), "-")>>, <<Rule("-", Id("inherit"), "-")>>}

Doc(root, slots, roles, rules) == [root |-> root, slots |-> slots, roles |-> roles, rules |-> rules]
MCStored ==
  {Doc(root, slots, <<>>, <<>>) : root \in Roots, slots \in UpTo2(SomeSlots)}
  \union {Doc(root, <<>>, roles, rules) :
            root \in {<<Entry("official")>>, exact}, roles \in UpTo2(SomeRoles), rules \in SomeRules}
SlotDocs == {Doc(<<Entry("official")>>, <<a, b>>, <<>>, <<>>) : a, b \in FitSlots}

MCLead == {exact, <<Entry("")>>, <<Entry("bare")>>}
MCSlotChoice ==
  {[Custom(Blank, Blank, {}, <<>>) EXCEPT !.name = ""], [Custom(540, 720, {}, exact) EXCEPT !.name = "n"],
   [Preset("glm-peak", Blank, {}, "", exact) EXCEPT !.end = Blank]}
MCRoleChoice ==
  {[id |-> id, chain |-> chain, fallback |-> "none"] :
     id \in {Id(""), Id("r1"), [name |-> "r2", padded |-> TRUE]}, chain \in {exact, <<Entry("")>>}}
MCRuleChoice ==
  {<<>>} \union {<<[provider |-> provider, role |-> role]>> :
                   provider \in {"", "p"}, role \in {Id(""), Id("r1")}}
MCSeeded == {Id("r2")}
MCOtherMain == {[root |-> root, slots |-> <<slot>>] : root \in Roots, slot \in SomeSlots}

-----------------------------------------------------------------------------
MCInit ==
  /\ scene \in {"store", "feeds", "forms", "slots"}
  /\ StoreInit /\ FeedsInit
  /\ directory = {}
  /\ clock = <<0, 0>>
  /\ CASE scene = "forms" -> doc \in MCStored
       [] scene = "slots" -> doc \in SlotDocs
       [] OTHER -> doc = Doc(<<>>, <<>>, <<>>, <<>>)
  /\ ed = SubRowsOf(doc, MainRowsOf(doc, NoRows))
  /\ saved = {} /\ admitted = FALSE /\ refused = "none" /\ edits = 0

MCNext ==
  \/ scene = "store" /\ SettingsNext /\ UNCHANGED <<feedVars, formRowVars, scene>>
  \/ scene = "feeds" /\ FeedsNext /\ UNCHANGED <<settingsVars, formRowVars, scene>>
  \/ scene = "forms" /\ FormNext /\ UNCHANGED <<settingsVars, feedVars, scene>>
  \/ scene = "slots" /\ Tick /\ UNCHANGED <<settingsVars, feedVars, scene>>

\* FairSettings and FairFeeds, each for its own scene: elsewhere the calls of the store
\* wait on nothing and the feeds have nothing due.
FairScenes ==
  /\ WF_settingsVars(scene = "store" /\ Progress)
  /\ WF_feedVars(scene = "feeds" /\ FeedProgress)

MCSpec == MCInit /\ [][MCNext]_allVars /\ FairScenes
=============================================================================
