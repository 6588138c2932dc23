---------------------------- MODULE SettingsStore ----------------------------
(***************************************************************************)
(* The settings console: the host's configuration gateway                  *)
(* (src/gateway.ts), the browser store that reads and writes through it    *)
(* (src/client/fallbacks-store.ts) and the form over that store            *)
(* (src/client/FallbacksCard.tsx).                                         *)
(*                                                                         *)
(* The configuration is one value per form section.  A value stands for    *)
(* everything the section's fields hold, and for the exact route its       *)
(* chains name.  Every call travels: it is sent, committed or served at    *)
(* the host, and answered; answers settle in any order, and a call may     *)
(* fail before or after its commit.  The store's generation counters are   *)
(* represented by what they decide: a call in flight is `mine` while its   *)
(* counter has not moved, and a load is `undisturbed` while no write has   *)
(* begun.                                                                  *)
(***************************************************************************)
EXTENDS Naturals, Integers, FiniteSets

CONSTANTS
  Value,      \* what a section may hold
  Default,    \* defaultFallbacksConfig: what a section shows before any reading
  Base,       \* the composition defaults a reset falls back to
  Written,    \* [Section -> SUBSET Value]: what a user or another writer puts there
  Unfit,      \* [Section -> SUBSET Value]: what the form's validation blocks
  AutoRoute,  \* the virtual route FallbacksChain/Auto
  Call,       \* names for the calls in flight
  Budget      \* bounds: [edits, saves, others, faults, loads |-> Nat]; a sync is a save

Section == {"main", "sub", "advanced"}
Config  == [Section -> Value]

ASSUME StoreAssumption ==
  /\ Default \in Value /\ Base \in Config /\ AutoRoute \notin Value
  /\ Unfit \in [Section -> SUBSET Value] /\ Written \in [Section -> SUBSET Value]
  /\ Budget \in [{"edits", "saves", "others", "faults", "loads"} -> Nat]

VARIABLES
  held, legacy, allowed, \* host: composed config, a legacy key stored, the allowlist
  rev, changed,          \* host: revision, and the one that last changed a section
  calls,                 \* the RPCs in flight
  status, writable, present, view,      \* the store's snapshot
  rows, seededKey, firstSeedDone,       \* the form's rows and its seeding
  disposed, budget

hostVars  == <<held, legacy, allowed, rev, changed>>
storeVars == <<status, writable, present, view>>
formVars  == <<rows, seededKey, firstSeedDone>>
settingsVars == <<hostVars, calls, storeVars, formVars, disposed, budget>>

Failed  == [outcome |-> "failed"]
Skeleton == [s \in Section |-> Default]
Reading == [outcome : {"read"}, config : Config, legacy : BOOLEAN,
            allowed : SUBSET (Value \union {AutoRoute}), rev : Int]
Idle == [kind |-> "none", at |-> "none", mine |-> FALSE, undisturbed |-> FALSE,
         section |-> "none", patch |-> Skeleton, base |-> 0, reply |-> Failed]

Init ==
  /\ held = Base
  /\ legacy \in BOOLEAN /\ allowed = {AutoRoute}
  /\ rev = 0 /\ changed = [s \in Section |-> 0]
  /\ calls = [c \in Call |-> Idle]
  /\ status = "idle" /\ writable = FALSE /\ present = FALSE
  /\ view = [outcome |-> "read", config |-> Skeleton, legacy |-> FALSE,
             allowed |-> {}, rev |-> -1]
  /\ rows = Skeleton /\ seededKey = Failed /\ firstSeedDone = FALSE
  /\ disposed = FALSE /\ budget = Budget

Spend(what) == budget[what] > 0 /\ budget' = [budget EXCEPT ![what] = @ - 1]

-----------------------------------------------------------------------------
(* The host side of the channel *)

\* What every endpoint answers: the live composed source, read after the write.
ReadResult ==
  [outcome |-> "read", config |-> held, legacy |-> legacy, allowed |-> allowed, rev |-> rev]

\* Only the main section has rules of its own at the gateway.
PatchAdmitted(patch) == patch["main"] \notin Unfit["main"]

\* A merge: the keys of the patch are replaced whole, everything else stays.
Merged(patch) == [s \in Section |-> IF s \in DOMAIN patch THEN patch[s] ELSE held[s]]
Merge(patch) ==
  /\ held' = Merged(patch)
  /\ rev' = rev + 1
  /\ changed' = [s \in Section |->
                   IF Merged(patch)[s] # held[s] THEN rev + 1 ELSE changed[s]]

Answer(c, reply) == calls' = [calls EXCEPT ![c].at = "answered", ![c].reply = reply]

Set(c) ==
  /\ calls[c].kind = "set" /\ calls[c].at = "sent"
  /\ IF PatchAdmitted(calls[c].patch)
     THEN /\ Merge(calls[c].patch)
          /\ calls' = [calls EXCEPT ![c].at = "committed"]
          /\ UNCHANGED <<legacy, allowed>>
     ELSE Answer(c, Failed) /\ UNCHANGED hostVars
  /\ UNCHANGED <<storeVars, formVars, disposed, budget>>

Get(c) ==
  /\ calls[c].kind = "load" /\ calls[c].at = "sent"
  /\ Answer(c, ReadResult)
  /\ UNCHANGED <<hostVars, storeVars, formVars, disposed, budget>>

\* The merged allowlist is computed from what is read now, and written later.
MergedAllowlist == allowed \union {held["main"], held["sub"]} \union {AutoRoute}
SyncAllowlist(c) ==
  /\ calls[c].kind = "sync" /\ calls[c].at = "sent"
  /\ calls' = [calls EXCEPT ![c].at = "mutating",
                            ![c].reply = [ReadResult EXCEPT !.allowed = MergedAllowlist]]
  /\ UNCHANGED <<hostVars, storeVars, formVars, disposed, budget>>

CommitAllowlist(c) ==
  /\ calls[c].at = "mutating"
  /\ allowed' = calls[c].reply.allowed
  /\ rev' = rev + 1
  /\ calls' = [calls EXCEPT ![c].at = "committed", ![c].reply = Failed]
  /\ UNCHANGED <<held, legacy, changed, storeVars, formVars, disposed, budget>>

AnswerWrite(c) ==
  /\ calls[c].at = "committed"
  /\ Answer(c, ReadResult)
  /\ UNCHANGED <<hostVars, storeVars, formVars, disposed, budget>>

\* No settings service, a policy not proven enabled, a lost connection: the call
\* fails, before its write or after it.
CallFails(c) ==
  /\ calls[c].at \in {"sent", "committed"}
  /\ Spend("faults")
  /\ Answer(c, Failed)
  /\ UNCHANGED <<hostVars, storeVars, formVars, disposed>>

\* The other writers of the same document: another card, the terminal, an editor.
OtherSets ==
  \E s \in Section : \E v \in Written[s] \ {held[s]} :
    /\ Spend("others")
    /\ Merge([t \in {s} |-> v])
    /\ UNCHANGED <<legacy, allowed, calls, storeVars, formVars, disposed>>

Reset ==
  /\ Spend("others")
  /\ Merge(Base)
  /\ legacy' = FALSE
  /\ UNCHANGED <<allowed, calls, storeVars, formVars, disposed>>

-----------------------------------------------------------------------------
(* The store *)

InFlight(kinds) == {c \in Call : calls[c].kind \in kinds}
IsFree == InFlight({"none"}) # {}
FreeCall == CHOOSE c \in InFlight({"none"}) : TRUE

NewCall(kind, section, patch) ==
  [kind |-> kind, at |-> "sent", mine |-> TRUE, undisturbed |-> TRUE,
   section |-> section, patch |-> patch, base |-> view.rev, reply |-> Failed]

\* ++readGeneration: an older load in flight is no longer the latest.
NextRead == [c \in Call |-> IF calls[c].kind = "load" THEN [calls[c] EXCEPT !.mine = FALSE]
                                                      ELSE calls[c]]
\* ++writeGeneration: older writes are superseded, loads in flight are disturbed.
NextWrite == [c \in Call |-> IF calls[c].kind = "load"
                             THEN [calls[c] EXCEPT !.undisturbed = FALSE]
                             ELSE [calls[c] EXCEPT !.mine = FALSE]]

\* load(): describe and get travel together.  `section` of a load records only
\* whether a write was in flight when it began.
Load ==
  /\ IsFree /\ Spend("loads")
  /\ calls' = [NextRead EXCEPT ![FreeCall] =
                 NewCall("load", IF InFlight({"set", "sync"}) = {} THEN "none" ELSE "main",
                         Skeleton)]
  /\ status' = "loading"
  /\ UNCHANGED <<writable, present, view>>

Mount ==
  /\ ~disposed /\ status = "idle"
  /\ Load /\ UNCHANGED <<hostVars, formVars, disposed>>

\* refreshFallbacksIfLoaded: settings/document-updated, or a reconnection.
Refresh ==
  /\ ~disposed /\ status # "idle"
  /\ Load /\ UNCHANGED <<hostVars, formVars, disposed>>

Dirty(s, config) == rows[s] # config[s]

\* Mutant: every section is seeded from the accepted reading, staged edits too.
ReseedAll(config) ==
  /\ seededKey' = config /\ firstSeedDone' = TRUE
  /\ rows' = config

\* The form's effect on a ready snapshot: a configuration it has not seeded from
\* yet reaches the sections that are not dirty, or all of them the first time.
Reseed(config) ==
  IF seededKey = config THEN UNCHANGED formVars
  ELSE /\ seededKey' = config /\ firstSeedDone' = TRUE
       /\ rows' = [s \in Section |-> IF ~firstSeedDone \/ ~Dirty(s, config)
                                     THEN config[s] ELSE rows[s]]

\* Mutant: a reading that did not resolve shows the defaults.
AcceptDefaults(reply) ==
  LET shown == IF reply = Failed THEN [view EXCEPT !.config = Skeleton] ELSE reply IN
  /\ status' = "ready" /\ writable' = TRUE
  /\ present' = (reply # Failed)
  /\ view' = shown
  /\ Reseed(shown.config)

\* accept(): only a reading that resolved replaces what is shown.
Accept(reply) ==
  LET shown == IF reply = Failed THEN view ELSE reply IN
  /\ status' = "ready" /\ writable' = TRUE
  /\ present' = (reply # Failed)
  /\ view' = shown
  /\ Reseed(shown.config)

Fail == status' = "error" /\ UNCHANGED <<writable, present, view, formVars>>
Drop == UNCHANGED <<storeVars, formVars>>

\* Mutant: the guard of a load knows its own generation only.
LoadSettlesOverWrites(c) ==
  /\ calls[c].kind = "load" /\ calls[c].at = "answered"
  /\ calls' = [calls EXCEPT ![c] = Idle]
  /\ IF ~calls[c].mine THEN Drop /\ UNCHANGED budget
     ELSE \/ Accept(calls[c].reply) /\ UNCHANGED budget
          \/ Fail /\ Spend("faults")
  /\ UNCHANGED <<hostVars, disposed>>

\* The load's answers are in.  A failed get is no error, a failed describe is one.
LoadSettles(c) ==
  /\ calls[c].kind = "load" /\ calls[c].at = "answered"
  /\ calls' = [calls EXCEPT ![c] = Idle]
  /\ IF ~calls[c].mine \/ ~calls[c].undisturbed THEN Drop /\ UNCHANGED budget
     ELSE \/ Accept(calls[c].reply) /\ UNCHANGED budget
          \/ Fail /\ Spend("faults")
  /\ UNCHANGED <<hostVars, disposed>>

\* Mutant: a refused write is passed over as a refused sync is.
WriteSettlesOverRefusal(c) ==
  /\ calls[c].kind \in {"set", "sync"} /\ calls[c].at = "answered"
  /\ calls' = [calls EXCEPT ![c] = Idle]
  /\ IF calls[c].mine /\ calls[c].reply # Failed THEN Accept(calls[c].reply) ELSE Drop
  /\ UNCHANGED <<hostVars, disposed, budget>>

\* A refused sync leaves the last accepted state, and the status, untouched.
WriteSettles(c) ==
  /\ calls[c].kind \in {"set", "sync"} /\ calls[c].at = "answered"
  /\ calls' = [calls EXCEPT ![c] = Idle]
  /\ CASE ~calls[c].mine -> Drop
       [] calls[c].mine /\ calls[c].reply # Failed -> Accept(calls[c].reply)
       [] calls[c].mine /\ calls[c].reply = Failed /\ calls[c].kind = "set" -> Fail
       [] OTHER -> Drop
  /\ UNCHANGED <<hostVars, disposed, budget>>

\* The plugin unloads: no answer may publish any more, and nothing listens.
Dispose ==
  /\ ~disposed /\ disposed' = TRUE
  /\ calls' = [c \in Call |-> [calls[c] EXCEPT !.mine = FALSE, !.undisturbed = FALSE]]
  /\ UNCHANGED <<hostVars, storeVars, formVars, budget>>

-----------------------------------------------------------------------------
(* The form *)

\* The fieldset is inert while the store is not writable.
Edit ==
  \E s \in Section : \E v \in Written[s] \ {rows[s]} :
    /\ ~disposed /\ writable
    /\ Spend("edits")
    /\ rows' = [rows EXCEPT ![s] = v]
    /\ UNCHANGED <<hostVars, calls, storeVars, seededKey, firstSeedDone, disposed>>

Discard ==
  \E s \in Section :
    /\ ~disposed /\ writable /\ status # "saving" /\ Dirty(s, view.config)
    /\ rows' = [rows EXCEPT ![s] = view.config[s]]
    /\ UNCHANGED <<hostVars, calls, storeVars, seededKey, firstSeedDone, disposed, budget>>

\* Mutant: a section's Save sends the whole draft.
WholeDraft(s) == rows

\* A section's Save: its own draft over the last accepted values of the others.
SectionPatch(s) == [view.config EXCEPT ![s] = rows[s]]

Save ==
  \E s \in Section :
    /\ ~disposed /\ writable /\ status # "saving" /\ IsFree
    /\ Dirty(s, view.config) /\ rows[s] \notin Unfit[s]
    /\ Spend("saves")
    /\ calls' = [NextWrite EXCEPT ![FreeCall] = NewCall("set", s, SectionPatch(s))]
    /\ status' = "saving"
    /\ UNCHANGED <<hostVars, writable, present, view, formVars, disposed>>

\* The sync button waits for its own answer, and for clean chains; not for a save.
Sync ==
  /\ ~disposed /\ writable /\ IsFree /\ view.rev >= 0 /\ InFlight({"sync"}) = {}
  /\ ~Dirty("main", view.config) /\ ~Dirty("sub", view.config)
  /\ Spend("saves")
  /\ calls' = [NextWrite EXCEPT ![FreeCall] = NewCall("sync", "none", Skeleton)]
  /\ UNCHANGED <<hostVars, storeVars, formVars, disposed>>

HostStep(c) == Set(c) \/ Get(c) \/ SyncAllowlist(c) \/ CommitAllowlist(c) \/ AnswerWrite(c)
Settle(c) == LoadSettles(c) \/ WriteSettles(c)
SettingsNext ==
  \/ Mount \/ Refresh \/ Dispose
  \/ Edit \/ Discard \/ Save \/ Sync
  \/ OtherSets \/ Reset
  \/ \E c \in Call : HostStep(c) \/ CallFails(c) \/ Settle(c)

SettingsSpec == Init /\ [][SettingsNext]_settingsVars

\* The host and the browser get on with the calls in flight.
Progress == \E c \in Call : HostStep(c) \/ Settle(c)
FairSettings == WF_settingsVars(Progress)
FairSettingsSpec == SettingsSpec /\ FairSettings

-----------------------------------------------------------------------------
(* Properties *)

\* What is shown as of the host's present revision is what the host holds: the
\* configuration, the legacy banner and the allowlist are of one reading, and no
\* write's answer clears the banner while the host still has the legacy key.
ShownIsRead ==
  view.rev = rev =>
    view.config = held /\ view.legacy = legacy /\ view.allowed = allowed

\* A load never takes the view back to an older reading, unless it began while a
\* write was in flight: one begun before a write is discarded however late its
\* answer comes, and so is one that a newer load has overtaken.
WriteWins ==
  [][\A c \in Call :
       (calls[c].kind = "load" /\ calls'[c] = Idle /\ view'.rev < view.rev)
       => calls[c].section = "main"]_settingsVars

\* A section's save changes another section only by putting back what the store
\* had read before some other writer changed it: an edit staged in a sibling
\* section never rides along.
SiblingsNeverRide ==
  [][\A c \in Call :
       (calls[c].kind = "set" /\ calls[c].at = "sent" /\ calls'[c].at = "committed")
       => \A s \in Section \ {calls[c].section} :
            held'[s] # held[s] => changed[s] > calls[c].base]_settingsVars

\* No answer, whichever call it belongs to and however late it is, overwrites an
\* edit staged in the form, the first seeding excepted.
StagedEditsSurvive ==
  [][calls' # calls /\ firstSeedDone =>
       \A s \in Section : Dirty(s, view'.config) => rows'[s] = rows[s]]_settingsVars

\* The form does not wait on a save for ever, as long as no call has failed: the
\* superseded save's answer is dropped, but what superseded it publishes.
SavingEnds ==
  (status = "saving" /\ ~disposed) ~>
    (status # "saving" \/ disposed \/ budget.faults < Budget.faults)

\* What a section shows follows the host as long as the user has not touched it:
\* "every later `ready` whose config CONTENT differs [...] re-seeds" and "only
\* CLEAN sections re-seed" (FallbacksCard.tsx).
CleanSectionFollows ==
  [][firstSeedDone => \A s \in Section :
       ~Dirty(s, view.config) /\ view'.config # view.config
       => rows'[s] = view'.config[s]]_settingsVars
=============================================================================
