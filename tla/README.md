# Verification of dsh-llm-fallbacks

This directory holds TLA+ specifications of the dsh-llm-fallbacks plugin, the
TLC configurations that check them on small instances and the TLAPS proofs of
what holds for every instance. Paths below are relative to the repository.

The plugin adds one virtual model route, `FallbacksChain/Auto`. A request on it
walks the operator's chain of real routes: it starts at the chain's head, and
when a route fails before it has produced output, the failure is swallowed and
the next candidate is tried. What failed is remembered per agent, so that the
next request starts past it. Around this core are a dispatch seam that mounts
role-tagged subagents on the virtual route, a registry of seeded roles, a
settings gateway, diagnostics, two user interfaces and a session-log repair
tool.

## 1. Inventory

| Part | State | Operations | Interacts with | Hard behaviour | What makes it correct |
|---|---|---|---|---|---|
| Chain arithmetic (`src/chains.ts`, `selectors.ts`, `route-allowlist.ts`) | none | concatenate a role's chain, resolve `provider/*`, filter, intersect | walk, seam, adapter | wildcards anchored to the failing route, duplicates, unparsable entries, self-routes | the first survivor differs from what failed and is no virtual route |
| Cooldown and recovery (`cooldown.ts`, `recovery.ts`, `state.ts`) | per agent and route: expiry, failure count, half-open flag, probe marker | suppress, lazy read, record failure, half-open, close, sync | walks, `/fallbacks`, `agent/disposed` | state changes on read; several writers; mode flips | an episode and a suppression exclude each other; a suppression is never shortened |
| Chain walk (`chain-walk.ts`) | per call: failed set, switches, committed flag, repaired set, target | resolve, first attempt, adapt, forward, repair, swallow and advance | the memory, the host catalog and providers, the policy | concurrent async generators, consumer that closes, captured state, re-read policy | see section 4 |
| Subagent policy (`subagent-policy.ts`, `index.ts`) | last-known settings per agent | guarded read | walk, seam | throwing, malformed and vanishing host settings, events of a session | every answer is the last proven word on the agent |
| Dispatch seam (`subagents-seam.ts`) | records per child, pending correlations, notice marker, fiber count | wrap start, reserve, roll back, join catalog event, dispose | host runtime, walk, notice, persona | native start may throw, reject, resolve late; labels collide; several fibers | a living child keeps its record and mount verdict |
| Role notice (`role-notice.ts`) | announced set | pre-step, disposed | seam records | several fibers, awaits, eviction | one notice per child |
| Role persona (`role-persona.ts`) | claims per root, fibers per listener | created, backfill, disposed, unload | seam records, cordis fibers | activation on a later tick, reloads, ids created again | a claim stands for a section, a verdict or an installation under way |
| Role projection (`role-projection.ts`) | fold state, checkpoints | init, apply, view, parse | a child's session log | fork prefixes, garbled and old checkpoints | never an ancestor's role |
| Virtual adapter (`virtual-adapter.ts`) | registered flag per fiber | reconcile, service swap | host `llm` service, settings | several fibers, duplicate registration, services that come and go | the row belongs to the fiber that believes so, and answers every settings update |
| Time slots (`time-slots.ts`) | none (a log marker in the walk) | which slot holds now | walk, adapter, cards | midnight wrap, complements | exactly one winner, slot rows inert without a conforming tail |
| Role seeds (`seeds.ts`) | slice per producer, sequence number | declare, revert, readback | settings writes (async, whole array) | concurrent declares, rejected writes, restart | operator edits are never overwritten; tracked rows follow the winner |
| Gateway (`gateway.ts`) | none (settings document) | get, set, reset, revertSeed, syncAllowlist | settings service, cards | read-modify-write over awaits | no lost update, validation before write |
| Commands and TUI (`commands.ts`, `tui*.ts`) | none | snapshot, config text | memory (`syncRecovery`) | the snapshot changes state | |
| Browser client (`src/client`) | store: reading, generations, calls in flight; form: rows; feeds: catalog, switches, namespaces | load, edit, save, sync, reset, refresh | gateway, pushes of the host | late and lost answers, lost pushes, several writers | no answer overwrites a staged edit or a newer reading; the feeds end at the host's truth |
| Session-log repair (`scripts/repair-session-logs.ts`, `session-logs/*`) | files | classify, prove, report, back up, publish | the host appending to the same log, a second repair | crash, race, exclusive link, renumbering | a faithful repair, a true report, fail-closed publication |
| Build and release scripts | files | | | | |

The hazards this gives rise to are listed, each at its line, in `PROJECT.json`.

## 2. The project

| Modules | Part | Kind |
|---|---|---|
| `FallbackChains`, `RouteHealth` | chain arithmetic, one route's memory | operators |
| `FailoverContract` | what the virtual route promises a caller | abstract specification |
| `ChainWalk` (`MCChainWalk`) | the walks over the shared memory; implements the contract | state machine |
| `RoleSeeds` (`MCRoleSeeds`) | declares, reverts and operator writes of whole arrays | state machine |
| `SubagentSeam` (`MCSubagentSeam`) | the dispatch seam with its notice | state machine |
| `Fibers`, `PluginFibers` | applications of the plugin over one root: service, row, presets | state machine |
| `PersonaListeners` | the persona claims of the applied fibers | state machine |
| `SubagentPolicy` | the guarded policy read | state machine |
| `RoleProjection` | the role badge over log and checkpoints | state machine |
| `MCPlugin` | composes the last four and `MCRoleSeeds` | instance |
| `SettingsStore` (`MCSettingsStore`) | gateway, browser store and form | state machine with fairness |
| `ConsoleFeeds` | the browser's feeds over a connection that drops | state machine with fairness |
| `SlotRows`, `FormRows` | time slots; one document through the form and the three gates | operators, state machine |
| `MCConsole` | composes store, feeds and rows | instance |
| `Selections` | `Array.prototype.filter`, as the form and the repair rules use it | operator |
| `LogRules`, `LogTriage` | the repair rules, and what a run says of one log | operators, state machine |
| `RepairRun` | several repair runs over one directory | state machine |
| `MCSessionLogs` | composes triage and runs | instance |
| `ChainWalk_proofs` | theorems about the walks | proofs |
| `RoleSeeds_proofs`, `SubagentSeam_proofs` | theorems about the seeds and the seam | proofs |
| `Plugin_proofs` | theorems about ownership, persona, policy and badge | proofs |
| `Console_proofs` | theorems about feeds, store, form and time slots | proofs |
| `LogTriage_proofs` | theorems about the repair of one log and its report | proofs |
| `RepairRun_proofs` | theorems about concurrent repairs | proofs |
| `Inductions` | least members, induction and recursion over an interval, what a filter returns | proofs |

`ChainWalk` extends `FallbackChains` and `RouteHealth`; `PluginFibers` and
`PersonaListeners` share `Fibers`; `FormRows` extends `SlotRows`; `LogTriage`
extends `LogRules`; both use `Selections`. Parts that share no variable are composed as the scenes of
one instance: the initial state picks the scene, and what a scene is not about
stays where it was. What one part needs of another without sharing its state is
an input that may change at any time: `ChainWalk` takes the policy's answer and
the seam's verdicts so, `RepairRun` takes the verdict of each revision of a log.

Each part keeps a specification of its own (`WiringSpec`, `PersonaSpec`,
`PolicySpec`, `ProjectionSpec`, `SettingsSpec`, `FeedsSpec`, `FormSpec`, `RunSpec`; `Spec` in the others); the theorems are
about these, the instances run their initial states and steps.

What would come next: the composition of `SubagentPolicy` with the walk's reads
(the walk is already checked, and proved about, with any sequence of answers).

## 3. How the modules correspond to the code

**`FallbackChains`** (`chains.ts`, `virtual-adapter.ts`, `route-allowlist.ts`,
the probes of `chain-walk.ts`). A route is a provider and a model, a chain
entry is an exact route, a `provider/*` or an entry that does not parse. Where
the code builds lists of candidates and takes the first, the module speaks of
positions of the chain and takes the least. `annotateCandidates` labels the
log and is left out; the cooldown reads it makes concern the same candidates at
the same instant as the filter's, so they change nothing more.

**`RouteHealth`** (`cooldown.ts`, `recovery.ts`, `state.ts`, `coolRoute`). One
agent's memory of one route as a record, the stores' methods as functions on
it. `until = 0` is "no entry", `fails = 0` without `halfOpen` is "no recovery
entry"; `expiredUntil`, which only the status display prints, is left out.
`Forever` stands for `Infinity`.

**`FailoverContract`**. For the caller of one `stream()` call: candidates are
tried one after the other, none twice, within a budget, and only while the
caller has seen nothing; then the output of the candidate being tried.

**`ChainWalk`** (`chain-walk.ts`, and its surroundings in `index.ts`). A walk
is an async generator. It runs without interruption between two awaits, or
between two chunks, and one action is one such segment:

| `pc` | waits at | next action |
|---|---|---|
| `idle` | the call has not been made | `Start`: `resolveWalk`, synchronous |
| `ready` | the consumer's first pull | `BeginAtHead`, `BeginPastCooledHead`, or `Abandon` |
| `probing` | the catalog awaits of `advanceFrom` | `ProbeAnswers`: filter, policy re-read, choice |
| `switching` | `await advanceFrom` | `Attempt`: top of the loop, state captured, probe logged |
| `adapting` | `await adaptForTarget` | `Dispatch` |
| `streaming` | the candidate's next chunk | `Forward`, `FinishNormally`, `FinishAborted`, `EndWithoutFinish`, `Repair`, `Swallow`, `FinishFailed` |

Awaits whose continuation reads nothing that others write are part of the
following segment: leaving the inner `for await` before booking, and the
second of the two catalog awaits. One set `down` of providers whose catalog
threw covers both probes of a search. `held` says that the state object the
attempt captured exists and is still the one the store holds; disposing of the
agent makes it false. `admitted`, `attempts`, `dispatches` and `source` are
history: what the last policy read admitted, the routes attempted, the requests
sent, the routes whose output the caller saw. The walk record of a finished
call keeps only what its caller saw.

The environment may at any moment advance the clock, edit the settings (running
walks keep their snapshot, `start.config`), change what `policyFor` answers,
take a `/fallbacks` snapshot, or dispose of an agent. A provider may send usage
and output chunks in any order, and end in any way the code distinguishes. The
host's runtime turns a throwing adapter into an error finish, so a provider
that throws is one that finishes with an error. Which slot of the day holds is
any of the configured ones.

**`RoleSeeds`** (`seeds.ts`, the write path of `index.ts`, the gateway's writes
of `roles`). A declare is three steps, as in the code: `Declare` runs from the
call to the `await` of the settings write (and to its end when nothing needs
writing), `HostCommits` or `HostRejects` is the host's answer, `CommitDeclare`
the continuation that puts the slice into the registry. A revert is two. Any
number of calls may be between their steps, and the operator's saves share the
queue. Every write replaces the whole `roles` value, computed from the committed
one at the time of the call: this is where updates may be lost. The registry
and the sequence number live in memory: `Restart` empties them and keeps the
rows. `edited` (the rows an operator last moved away from their default) and of a
call `seq`, `atDefault`, `asRead` and `rulesAsRead` are history, read by the properties
only: the number it was computed with, the rows that followed their default, and what of
rows and rules is still as the call read it (`Overtaken` takes away what another's write
changes). Batch
entries that `declare` drops with a warning, padding of row ids and duplicate
rows are abstracted. The settings service is the host's: it commits writes in
the order they were issued or rejects them.

**`SubagentSeam`** (`subagents-seam.ts`, `role-notice.ts`, `agent/disposed` of
`index.ts`). A call of the wrapped `startActivation` runs without interruption
until the native call returns its promise; its outcomes are four actions:
`StartLocal` (the record is written under a reserved id before the native
call), `StartExternal`, `StartUnreserved` (the reservation threw and was undone)
and `StartThrows` (the native call threw; everything is rolled back). Then the
host creates the child, puts it into the parent's catalog and settles the
promise in any order: `HostCreates`, `Catalogued`, `ResolvesWithChild`,
`ResolvesWithJob`, `Rejects`. The continuation of a start works on the maps of
the fiber it began under: `live` says whether its claims are those of the present
owner. `Notice` is the emitter from the end of its await to its return; fibers
have one emitter each, over one shared set of marks. A record is a function of
the child, `NoRecord` where the map has none. Calls are one-shot: a caller that
retries is another call. The conditions of `injectRoute` (configuration,
policy, allowlist) come down to the choice of `mount`. Creating children is the
host's: a local child gets the id it was given unless a living one has it.
`turn`, `cut`, `rows` and `forgotten` are history. Not modelled: a result whose
accessors throw, an install that fails half-way, a caller that keeps the
wrapper of a disposed owner, the start of a child without a role (it is only
injected and keeps no record, `subagents-seam.ts:1096-1108`), and a promise that resolves
only after its child was disposed and another was created under the id.

**`Fibers`, `PluginFibers`** (`index.ts`, `virtual-adapter.ts`). A reload is the
disposal of one fiber and the application of the next over the same context
root. `ApplyPlugin` is the whole of `apply`: it looks for a service of the same
name and gives its own up if there is one. What `ctx.inject` registers runs on
a tick of its own once the service is there: `ProvideService`, `BindSettings`,
`DeclarePresets`, `BindRuntime`, those of one service in their order. `row` is
the registration the runtime holds, `registered` what each fiber believes;
`Reconciled` is `reconcile()`, with the duplicate refused and the belief reset
when the runtime goes. `Appears` and `Disappears` are the host's. `DocumentUpdated`
runs every listening fiber's handler in one step, as the emitter does. `Reconciled`
reads the live composed configuration; the plain entry that is read before the
settings child binds (`index.ts:600-605`) and a registration that throws for another reason
than a duplicate (`virtual-adapter.ts:353`) are left out.

**`PersonaListeners`** (`role-persona.ts`). Every fiber installs one listener over
one shared map of claims. `AgentCreated` and the backfill of `InstallRolePersona`
take the claim and ask cordis for an injected fiber; `ticks` holds what was
asked and has not settled. `Activates` registers the section, or is refused, or
finds that it was cancelled; `Unloads` withdraws it. `ChildDisposed` and
`DisposeListener` release. Two things are assumed of cordis and the host: ticks
settle in the order they were asked, and an id is not created again while its
installation is in flight, be it asked by the listener or by the backfill, which nobody
awaits (`role-persona.ts:260-263`).

**`SubagentPolicy`** (`subagent-policy.ts`, the guarded read of `index.ts`). `PolicyFor`
is one question: the settings row, or the retained snapshot when it cannot be
read, and the session's event over either. Rows are absent, malformed or a
snapshot; events the same. `AgentDisposed` forgets the snapshot. `proved`, history, is what was last
proven in the present life of an id: it begins anew with a disposal, as the reader's
memory does, so that what a disposal forgets is no violation of `PolicyIsLastProven` (section 6).

**`RoleProjection`** (`role-projection.ts`). `Commits` appends an event and applies
the fold, `Persists` writes a checkpoint, `RowDecays` leaves one that is garbled or
of an older version, `Restores` is the host's rebuild through `Parse`. Assumed
of the host: the watermark of a checkpoint lies at or after the fork prefix.

**`SettingsStore`** (`gateway.ts`, `client/fallbacks-store.ts`, `FallbacksCard.tsx`). The
configuration is one value per form section. Every call of the store travels: it
is sent, committed or served at the host (`Set`, `Get`, `SyncAllowlist` and
`CommitAllowlist`, the two halves of its read-modify-write), answered, and
settled in the browser, each at its own time and in any order, or it fails
before or after its commit (`CallFails`). The generation counters are
represented by what they decide (`mine`, `undisturbed`). `Accept` is
`acceptConfig` with the form's effect behind it: `Reseed`, section by section,
as the dirty flags say. `OtherSets` and `Reset` are other writers. The scope is writable
(`fallbacks-store.ts:1003`, `1332`: a read-only one disables every save) and every answer is
a full reading (what `acceptWire` keeps of a partial one, `1283-1303`, is left out).

**`ConsoleFeeds`** (`client/index.ts`, the catalog and switch reads of the store).
Pushes are queued in `due` while the link is up and lost while it is down; a
reconnection owes one `reset`, whose refresh is folded into one microtask. A
read answers with what the host has at that time, and settles later.

**`SlotRows`, `FormRows`** (`time-slots.ts`, `config.ts`, the validation of `gateway.ts`, the
row conversions and `validateDraft` of the card). A document starts as anything a
settings file may hold: padded ids, malformed entries, empty chains,
unknown presets, garbled times. Texts are abstract up to what the gates
distinguish: an entry's kind and its blanks, an id's form and its blanks, a time
as its minute or as absent, blank or garbled. `SaveForm` is assembly, the form's
validation, the gateway's gate, the write and the reload; `Tick` moves a clock
that is a day and a minute.

**`LogRules`, `LogTriage`** (`session-logs/rules.ts`, `catalog.ts`, `classify.ts`,
`repair-session-logs.ts`). A log is a seed cut and rows; a row occupies one
position or, packed, several, and carries its sources, its descriptor and the
ranges it refers to. `Prove` is the rule chain with its refusals and the
renumbering of the surviving rows; `Classify`, `ReportOk`, `NothingRepairs`,
`CheckDrop`, `ReportRepairable`, `LeaveUnselected`, `Publish` are `analyzeLog` in
the order of its early returns. `RestoreStrictly` is the released catalog,
known from how the scripts use it.

**`RepairRun`** (`repair-session-logs.ts`, `session-logs/publish.ts`, `catalog.ts`). One action
per file operation of a run: reading the log, probing the successor, making and
filling the backup, checking that the source is unchanged, staging, the
exclusive link, the removal of the temporary, the last check of the source and
what a stale publication takes back. A file may be half written. `Crash` ends a run
between any two of them, reads, copies, links, writes and removals may fail, `HostAppends`
makes a new revision. Symmetric runs interleave freely. `unread` says that a run's last
reading of the log failed (`publish.ts:461`). `AcceptBackup` compares copy and source in one
step: the code reads both at once, and the source is read again by `RecheckSource`, so a host
that appends between the two reads is met there. A read of either that fails, and a
failure inside `copyFile`, are `BackupFails` and `CopyFails`; a link that fails, or an existing
target that is gone when it is to be read, is the last branch of `PublishExclusive`.

## 4. What the runs check

| Run | Instance | Properties |
|---|---|---|
| `timer` | two walks of one session; chain: self-route, unparsable entry, `q/*`, `p/m`, `q/n`; two switches; clock to 3; the catalog of `q` may throw; flat cooldown 1; a quota failure and a context-window failure | `NoRouteTwice`, `CooledIsLastResort`, `ImplementsContract` |
| `repair` | one plugin-originated walk of a subagent with a role, or without a session; two settings; the policy is off, unprovable or one of two allowlists and changes at any moment; both parameter rejections; the runtime may be gone | `TypeOK`, `WorkBounded`, `InjectedAdmitted` |
| `live` | two walks under weak fairness, one model served by two providers, half-open recovery | `HalfOpenNotSuppressed`, `SuppressionHolds`, `WalkTerminates`, `AttemptIsMade` |
| `seam` | two starts with a label that may name any of two children, two roles, two fibers, job results, a table of one claim and a set of one mark | `MountVerdictKept`, `RoleIsMeant`, `NoOrphanRecord`, `OneNotice` |
| `plugin` | five scenes: three fibers and two services that come and go; three persona listeners over a child created up to three times; the policy reader over one id and two routes; a badge over a log of five events; two calls of declare and revert and the operator over two writes in flight, with presets, two companions, edits of rows and rules, rejected writes and restarts | `SingletonsAreOwned`, `ClaimIsBacked`, `NothingLeftBehind`, `NeverAWrongPill`, `PresetsByOwner`, `RowAnswersUpdates`, `PolicyIsLastProven`, `MostRecentIsDecidable`, `OperatorIsKept`, `DefaultRowsFollow` |
| `console` | four scenes: the form over its store with three calls in flight, one edit, two saves or syncs, two loads beyond the first, one other writer, one failing call, a legacy key stored, a disposal; the feeds of two sessions over a connection that drops, with four reads; every document of two time-slot rows or two roles from a set with every defect the gates know, one edit and another writer; a week at ten boundary minutes for pairs of rows | `ShownIsRead`, `WriteWins`, `SiblingsNeverRide`, `StagedEditsSurvive`, `SavingEnds`, `FeedsAreCurrent`, `GatesAgree`, `NoGapNoOverlap`, `CatalogConverges`, `SaveRoundTrips` |
| `logs` | two scenes: some 23 000 pairs of a log and a command line; two runs over a log of up to three revisions with every flag, usable and unusable catalogs, failing reads and writes, crashes and a host that appends twice | `RepairIsFaithful`, `ReportIsTrue`, `PublicationFailsClosed`, `PublicationStands`, `LossHasItsBackup`, `CleanExitLoads` |
| `seam_duplicate`, `stale_form`, `promise`, `seeds_overlap`, `lost_publication` | see section 6 | one documented statement each, violated |

**Walks.** `NoRouteTwice` is the reason for the per-call failed set: a cooldown of 1 lapses
during a walk, so the cooldown alone would not prevent a second attempt.
`CooledIsLastResort` relates an attempt to the memory at the moment the search
chose it: a suppressed route is only ever a walk's first attempt, and only when
every other admitted exact route of the chain is suppressed too.
`SuppressionHolds` needs walks that overlap: one that fails and cools the route, and one
begun before it that completes late. `InjectedAdmitted` needs the policy to
change between a walk's start and the end of its catalog await.
`ImplementsContract` is the refinement of `FailoverContract` with the history
variables as its mapping.

**Seeds and seam.** `OperatorIsKept` is about a declare whose write is committed later than it was
computed, after any history of declares, drops, operator edits, reverts and
restarts, and with any writes committed in between: whatever of the operator's rows and
rules still stands as the declare read it, its write keeps. What was written between the reading
and the commit it does not keep; that the code says it does is `RulesUntouched` and the run
`seeds_overlap` (section 6). `DefaultRowsFollow` relates the row, the registry before the declare
and the registry after it: a producer may win, lose to the presets or withdraw,
and the row must stand where the badge and the revert button say it does. It
speaks of a declare that no other producer overtook and of rows nobody else has
written since, with any writes in flight. `MostRecentIsDecidable` is for any
overlap: two declares that compute with one sequence number commit with
different ones, for the number is taken again after the await.
`MountVerdictKept` speaks of a child that only one call names: section 6 shows
what a call for a living child does. It has to survive rewrites of the record by
catalog events and resolutions, the rollback of other calls, and the disposal of
fibers that are not the last. `RoleIsMeant` is the most one can say of a join on a
label that several calls may share. `OneNotice` relates the rows of a session over
several lives of its child, in which the record is deleted and written again.

**Fibers, persona, policy, badge.** `SingletonsAreOwned` ties the beliefs of every fiber to what
the runtime and the registry hold: a fiber that met a duplicate must not count
itself the owner, or the next settings edit withdraws another fiber's row.
`ClaimIsBacked` and `NothingLeftBehind` are the two sides of a claim that is taken
before an activation on a later tick: a claim that stands for nothing keeps
every other listener away, and a disposed listener must not leave a section
nobody can withdraw. `PolicyIsLastProven` relates each answer to the last
snapshot any question about the id could read, however long the settings have
been unreadable since. `NeverAWrongPill` compares the badge, however often it was
rebuilt from whatever was persisted, with the last own notice of the log.

**Console.** `WriteWins` and `StagedEditsSurvive` quantify over every answer, however late.
`SiblingsNeverRide` relates a commit at the host to what the store had read when
the save was pressed: the patch is built from a reading that may be old, and
what it writes back of other sections must be that reading and no staged edit.
`SavingEnds` is the liveness of a save whose answer is dropped because a newer
write has begun.

**Feeds, rows and time slots.** `CatalogConverges` is what the reconnection refresh is for: pushes lost to
a dropped connection are never repeated. `GatesAgree` compares three independent
validations of one document; `SaveRoundTrips` follows a document through parse,
rows, edit, assembly, write and reload. `NoGapNoOverlap` compares windows and
their complements at every boundary minute of the week, across midnight.

**Session logs.** `RepairIsFaithful` identifies an event by its row in the log as it was
read, so that renumbering is checked against what a reference named before, and
the inherited prefix of a fork against where it was. A report's promise is part of
`ReportIsTrue` for reports without a class filter, of logs whose rows have no fault that no
rule is about; with a filter or such a fault, `promise` and section 6 show otherwise.
`PublicationFailsClosed` says of a run that reports failure that nothing of its own stays behind but
what it could not remove, and excepts a run whose last reading of the log failed: that
one leaves the successor it linked, which is the run `lost_publication` (section 6).
`PublicationStands` and `LossHasItsBackup` are about two runs: one may fail, crash
or clean up after itself while the other publishes.

**Bounds.** Two walks are enough for one to disturb the other; the theorems of
section 5 say the same of any number. The clock bounds give every
cooldown of the instance time to lapse at least twice. The chain of `timer` has
every kind of entry once, and enough switches for a walk to run out of
candidates as well as out of switches. Sessions do not share
anything in `ChainWalk`, so one suffices. Two writes in flight are an overlap: one was
computed before the other is committed. One id is enough for the races of two calls over a
default; what a declare of one row does to another is in `seeds_overlap`, with two ids, and
in the theorems. In the seam two starts are enough for
one to take the other's claim or record, and the limits (64 claims, 256 marks
in the code) are one each so that both overflow. Three fibers are an owner, a
loser and a successor; three births of one child let an id come back while
something of its last life is still under way. Three calls are a load that two
writes overtake. Documents of two rows show every pairwise rule (duplicates,
repeated presets, complements), and no rule is about three. Logs of five rows
have a row before, between and behind the dropped ones, a fork cut and a packed run
on either side. Two repair runs and three revisions allow a stale publication, a
second run of the stale log and one of the fresh one. `MaxNow`, `MaxMoves`, `MaxBirths`,
`MaxChanges`, `MaxLog`, `MaxHost`, `MaxEdits`, `MaxRev`, `MaxSeq`, `MaxRules`, `MaxInFlight` and `Budget`
only remove behaviours; no property speaks of them, but for `SavingEnds`, which
asks that no call has failed. `SYMMETRY` is over walks, calls, children, fibers,
roles or runs that the configuration does not distinguish, never in a run with a
liveness property. Parts are paired as the scenes of one run only to keep the number of runs small; a
scene is checked as it would be alone.

**Deadlock** checking is off: when every call is over and the bounds are reached
the system really stops.

**Fairness.** `FairSpec` of `ChainWalk` assumes weak fairness of `Progress(w)` for each walk: the
consumer pulls a generator it has started, the host's catalog promises settle,
and a provider's stream comes to an end. `FairSettings` assumes that the host and
the browser get on with the calls in flight: each is served, answered and
settled, which promises and the RPC channel do by themselves. `FairFeeds` assumes
that a queued event is delivered, a read is answered and settled, and that a
connection that dropped comes back, which is what the client's reconnect loop
does; in `MCConsole` each is asked of its own scene. Each is one condition over all calls or reads, so none is owed its turn
before another. No fairness is assumed of calls, edits or saves, of a consumer
that closes, of a successful answer, of the clock or of any other action of the environment.

## 5. What is proved

The theorems hold for every value of the constants that satisfies the
assumptions of the modules they are about:

| About | Assumptions | In words |
|---|---|---|
| walks | `ChainsAssumption`, `HealthAssumption`, `WalkAssumption` | any chains, settings, roles, policies, sessions and number of walks, any finite set of repairable controls; the marks of the model are no routes and no failure codes |
| seeds | `SeedsAssumption` | any ids, personas, batches, producers, calls and writes in flight |
| seam | `SeamAssumption` | any roles, children, labels, calls and fibers; limits of at least one |
| fibers, persona | `FiberAssumption`, `PersonaAssumption` | finitely many fibers and children |
| policy, badge | `ProjectionAssumption` for the badge | any agents, routes and roles; logs of any length |
| console | `StoreAssumption`, `FormAssumption` | any values, sections' defects, calls in flight, providers and sessions; documents and edits of any length |
| time slots | `MinuteAssumption` | any minutes of the day |
| rules, triage | `NoneAssumption`, `TriageAssumption` | any logs, with rows, packed runs and references of any number, and any command lines, but for `--apply` without a catalog, which ends before any log |
| repairs | `RepairAssumption` | any number of runs and revisions, any command lines, catalogs and verdicts |

The bounds on moves, births, edits and the like are constants of these modules,
so the theorems hold however large they are.

| Theorem | Statement |
|---|---|
| **`ChainWalk_proofs`** | |
| `TypeCorrect` | `Spec => []TypeOK` |
| `WalksStayCoherent` | `Spec => []WalksCoherent` |
| `NeverARouteTwice` | `Spec => []NoRouteTwice` |
| `OutputHasOneSource` | `Spec => []SingleSource` |
| `SuppressedIsLastResort` | `Spec => CooledIsLastResort` |
| `HalfOpenExcludesCooldown` | `Spec => []HalfOpenNotSuppressed`, if every settings choice is half-open and reverting |
| `SuppressionIsKept` | `Spec => SuppressionHolds`, if the settings do not change |
| `EscalationMonotone` | escalation never shortens and never falls below the flat cooldown |
| `AdmittedInFlight` | `Spec => []InjectedAdmitted` |
| `RequestsAreBounded` | `Spec => []WorkBounded` |
| `WalksImplementContract` | `Spec => ImplementsContract`, if some number bounds every switch cap |
| **`RoleSeeds_proofs`** | |
| `TypeCorrect` | `Spec => []TypeOK` |
| `RecentProducerIsUnique` | `Spec => []MostRecentIsDecidable` |
| `OperatorRowsKept` | `Spec => OperatorIsKept`, for any number of writes in flight |
| `DefaultsFollow` | `Spec => DefaultRowsFollow`, for any number of writes in flight |
| **`SubagentSeam_proofs`** | |
| `TypeCorrect` | `Spec => []TypeOK` |
| `ChildAnnouncedOnce` | `Spec => []OneNotice` |
| `RolesComeFromCalls` | `Spec => []RoleIsMeant` |
| `MountsAreKept` | `Spec => []MountVerdictKept` |
| `RecordsHaveTheirCall` | `Spec => []NoOrphanRecord` |
| **`Plugin_proofs`** | |
| `OwnershipSettles` | `WiringSpec => []SingletonsAreOwned` |
| `PresetsComeFromTheOwner` | `WiringSpec => PresetsByOwner` |
| `UpdatesReachTheRow` | `WiringSpec => RowAnswersUpdates` |
| `ClaimsAreBacked` | `PersonaSpec => []ClaimIsBacked` |
| `DisposalIsClean` | `PersonaSpec => []NothingLeftBehind` |
| `PolicyAnswersProven` | `PolicySpec => PolicyIsLastProven` |
| `BadgeIsRight` | `ProjectionSpec => []NeverAWrongPill` |
| **`Console_proofs`** | |
| `FeedsBelongTogether` | `FeedsSpec => []FeedsAreCurrent` |
| `ShownIsWhatTheHostHolds` | `SettingsSpec => []ShownIsRead` |
| `LateLoadsLose` | `SettingsSpec => WriteWins` |
| `SavesAreOfTheirSection` | `SettingsSpec => SiblingsNeverRide` |
| `AnswersSpareEdits` | `SettingsSpec => StagedEditsSurvive` |
| `GatesStayInStep` | `FormSpec => []GatesAgree` |
| `RoleExtrasSurvive` | `FormSpec => [][ExtrasSurvive]_formRowVars`, a conjunct of the next |
| `SavesRoundTrip` | `FormSpec => SaveRoundTrips` |
| `WeekIsShared` | `FormSpec => []NoGapNoOverlap` |
| **`LogTriage_proofs`** | |
| `TriageInvariant` | `Spec => []TriageInv` |
| `RepairsAreFaithful` | `Spec => []RepairIsFaithful` |
| `ReportsAreTrue` | `Spec => []ReportIsTrue` |
| **`RepairRun_proofs`** | |
| `RunsStayInformed` | `RunSpec => []RunInv` |
| `PublicationFailsClosedAlways` | `RunSpec => []PublicationFailsClosed` |
| `PublicationStandsAlways` | `RunSpec => []PublicationStands` |
| `LossKeepsItsBackup` | `RunSpec => []LossHasItsBackup` |
| `CleanExitMeansLoads` | `RunSpec => []CleanExitLoads` |

The type invariants of the seeds and of the seam, `WalksCoherent`, `SingleSource` and
the inductive invariants below are proved and not listed as properties of a run.

### Arguments

**Walks.** `NoRouteTwice` is not inductive: what prevents a repetition is that
the search leaves out the failed set, so the invariant must say that every route
tried is in the failed set or is the one being tried, in each program state.
`WalksCoherent` says so, and with it that the switches count the attempts and
that nothing was shown before the last attempt. The inductive invariant is
`Inv == TypeOK /\ WalksCoherent`. A walk depends on the others only through the
memory and policy it reads, and no value of those breaks its record: each
action has one lemma (`StartSound`, `SwallowSound`, ...), which shows the new
record coherent and the memory changed by one of the `Outcomes` of `RouteHealth`.
The two theorems on the memory follow from what an outcome
may do to one entry (`OutcomeHalfOpen`, `OutcomeSuppression`). The second needs an
invariant of its own, `MemoryBounded`: an entry expires no later than its
failures call for, so that a re-suppression, computed later and with one
failure more, cannot expire earlier.

`CooledIsLastResort` speaks of the memory after a step, while the search reads it
position by position and each read may change it (a lazy expiry, a half-open
mark, a probe's log). `ReadKeepsAnswer` and `FitSurvives` show that no read changes whether a route
is suppressed now, so what a search finds is still so when it ends. A walk begins
at its head only if the head is fit (`HeadIsFit`). Otherwise it searches, and a search takes what it
finds unsuppressed, or returns to the suppressed head when it found none and no
attempt has been made (`ConsultKeepsAnswers`, `AdvanceIsLastResort`).

The two limits, `InjectedAdmitted` and `WorkBounded`, need more of a walk's record. `InjectedAdmitted`
speaks of the attempt only; that the search ends at an admitted route follows
from its filter for a walk the plugin started, but for any other walk only
because such a walk admits every route (`Unrestricted`). `WorkBounded` is not inductive
because a repair sends a request without an attempt: `Within` counts the
requests of the attempt under way apart from those before it, and bounds them
by one more than the controls repaired, of which there are at most as many as
there are controls. `NextWithin` shows that every step keeps it, with one lemma per action.

`WalksImplementContract` is the refinement. What a caller knows of a walk changes in
three ways only: not at all, by one more route tried, or by one more output of
the route in flight (`Moves`; one lemma per action, `WalkStepMoves` for all of
them). That such a move is a step of the contract is read off the invariant
of the record after it: the route is new because no route stands twice
in `attempts`, nothing was shown because `pc` is not `streaming`, and the budget
holds because the attempts stay within one more than the cap of the walk's own
settings, which is at most the largest (`BudgetSuffices`). The budget of the
contract is that largest cap plus one, so the theorem asks that there be one:
`schema.ts` accepts any number, but the settings of one process are finitely many.

The growth of the cooldown is a recursive function. That it has the values of
its recursion is proved from the least-number principle, and so
is its monotonicity.

**Inductions.** The library's induction theorems take a predicate as a parameter,
which the provers cannot instantiate. `Inductions` states what the proofs need
without one. That every set of naturals has a least member (`LeastNaturalExists`) follows
from the well-founded order of the finite sets. From it come an induction over an interval,
as a statement about the set of the indices for which something holds, and the
existence of the function a recursion over an interval defines. The lemmas about
`Among` say what a filter returns by naming the places it picks: they are those
that pass, all of them, in order (`Picks`). What the code does with filtered lists
is then reasoned about place by place.

**Seeds.** The invariant is `TypeOK` with `SeqSound` (no slice carries a number
above `declareSeq`, so the next one is new). `OperatorRowsKept` needs two facts
more. A row in `edited` departs from its default (`EditedDepart`), which each commit
of a slice re-establishes by settling the ids it brings to their default. And
the write of a declare, as long as it waits in the queue, agrees with the committed document in
whatever the call still knows to be as it read it, but for rows that were absent or followed
their default (`Keeps`, `InFlightKeeps`). `MaterializedKeeps` shows it of the
write as it is issued; a commit of another write may change the document anywhere, and takes from
`asRead` and `rulesAsRead` exactly what it changes.

For `DefaultsFollow`, a batch with the next number is what its ids
will resolve to, unless the presets have them (`NewestWins`), and `RowsPending` says
that the rows it materialised stand at that value, or wait in the queue with
it, as long as its number is still the next. Every other step either takes the
number, and the declare is overtaken, or leaves the registry alone and takes
what it writes out of `atDefault`.

**Seam.** The invariant is `TypeOK` with `Blank` (a call that has not been made
holds nothing), and every step keeps the role and the child of the calls already
made (`CallsGrow`), so that what a call meant stays meant. `RoleIsMeant` needs
`ClaimsMeant`: a claim's role is that of a call under its key. `OneNotice` needs
`RowsMarked`: a child that has a row is marked or forgotten. `MountVerdictKept`
needs that a child the host created is its call's (`KidsMatch`) and that a call
which is not the only one for its child never becomes so (`SoleBefore`); then a
rollback deletes no record of that child, and the invariant speaks of the call
from its start on (`VerdictsHeld`), before there is a child. `NoOrphanRecord` is
seen from the record instead: it is there because some call's reservation stands
or because the child is some call's own (`RecordsBacked`), and a rollback that
ends a reservation deletes the record with it.

**Ownership.** What a fiber believes is true only because nothing runs ahead of the
services: children that wait, wait on living fibers for services that are there
(`PendingIsCurrent`), who provides the service has run its settings child (`ProviderHasSettled`), and
only living fibers hear updates (`ListenersLive`). A settings update reconciles the
fibers one after the other in any order; `ReconciledIs` says what one of them does to a truthful
table of beliefs, and that the row is never lost on the way.

**Persona.** `ClaimIsBacked` depends on the order of the ticks. Between the claim and the section
there is an activation in the queue, which a disposal may cancel, and behind it
there may be the withdrawal of an earlier section of the same child. `PersonaInv`
says that activations are held by who waits for them or are cancelled
(`ActivationsHeld`), that there is one for a listener and child (`OneActivation`), that withdrawals
come before the next registration (`UnloadsFirst`), and that who registered a section can
withdraw it or is doing so (`SectionsHeld`).

**Policy and badge.** The reader's memory is the last snapshot proven (`PolicyInv`). For the badge,
a state is `Right` about the first events of the log if it says their last own
notice, or if it was rebuilt from a row nobody could read and says nothing;
every usable checkpoint lies behind the fork prefix and is right about its own length,
so folding the rest of the log over it ends right (`FoldStaysRight`). The
fold is a recursive function over positions, reasoned about with the least-number principle.

**Console.** `ShownIsRead` becomes inductive with the age of what is known: a reading of
the present revision is what the host holds, and an older one is right about every
section that has not changed since (`Fresh`); it holds of the view, of every answer under way and, with
the revision a save was based on, of every patch (`SavesAreOfTheView`). `WriteWins`
needs that one load at most may publish and that one which no write disturbed is no older
than the view (`OneLoadPublishes`, `LoadsAreNewer`). The feeds need that a read which may
still publish is of the session on view (`SwitchReadsFollow`).

**Form and time slots.** `GatesAgree` is about documents the form saved, while other
writers and edits go on. The invariant says that a saved section still passes
the form's own validation (`SavedStaysValid`), and that the gateway refuses no main section which passes it,
and a subagent section only for the stored main one (`CardGateSuffices`).
That what passes also loads is shown gate by gate and row by row, for any number of rows.
`NoGapNoOverlap` is arithmetic on minutes: two presets whose windows are complements
partition the day, across midnight and at both ends.

`SavesRoundTrip` needs an invariant of its own beside that one, `RowsInv`: what the editors
show has no blanks around its texts (`RowsShape`), the roles of a saved subagent section parse to themselves
(`SavedRolesParse`), and a form nobody has edited shows its document (`Untouched`). A chain the
form writes is one its rows read back (`ChainWritten`), and through them a stored chain loses
blanks and empty entries but no text. Slot rows, roles and rules follow field by field. The
first conjunct of `RowsShape` is what `FormAssumption` asks of the editors: a select offers
catalog ids and texts already read back, and neither has blanks around it. Stored
documents and other clients may send any.

**Triage.** `analyzeLog` runs once over a log that does not change, so its invariant
`TriageInv` is about its early returns: when it writes, or promises to, the proof it holds is that of the
selected rules, unrefused, and a loss has passed the second check. The work is in what such a proof
is. `Applied` describes the log after any number of its rules: the kept rows of the log, renumbered
if the drop was among them, with sources and descriptors rewritten as the rules allow, and no row left
to a rule that has run. `RunProofIs` shows it of every list of rules with the drop first, by induction
over the list. What remains is arithmetic on positions. A row starts where the row before it
ends (`PositionIs`), so a position names one event of one row; dropping rows moves the
position of each kept row down by the number of events dropped before it (`RenumberedIs`), and
`Shifted` is strictly monotonic on the positions that stay (`ShiftedIs`). An event that was not dropped
is therefore found where it was moved to (`EventsMove`). A range that names no dropped event
keeps its events, and a seed cut with nothing dropped below it keeps its prefix.
`PlainPromiseIsKept` is immediate with a drop, which the strict restore has tried; without one it
is shown of each row that what the rules left or rewrote restores (`RepairedRowRestores`).

**Repairs.** The invariant relates a run's progress to the files. `Informed` says
what its program state means for the log it read and for its command line, `TargetIsMade` and `TargetStands`
whose the canonical successor is and how long it may be taken away (the maker's run ends
without having taken it away only as published, crashed, stale or `unread`), `StagedIsOwn`
that a temporary is whole before it is linked. The backup is the hard part: a run may
rely on a copy that another run made and takes away when it fails. `BackupHolds` says
that a run past its backup has one of the revision it repairs, or that a
maker took its copy away, and the second is permanent (`TakenStays`). That is the
exception `LossHasItsBackup` states.

### Only model-checked

`WalkTerminates`, `AttemptIsMade`, `SavingEnds` and `CatalogConverges`: liveness under fairness,
which is out of the prover's reach. Every other property of a passing run is the
statement of one of the theorems above. What a run adds to them is that its constants meet the
assumptions and that the cases the property is about do happen.

## 6. Where the code and its documentation differ

Five statements of the repository are violated by what the code does; each has a run:

* `seam_duplicate`: the comment on the rollback says a rejected call established
  no child. When its caller named a child that lives, the runtime refuses the
  duplicate and the rollback deletes the living child's record.
* `stale_form`: two comments of the settings card and the configuration guide say
  that a new reading re-seeds every clean section. The card tells clean from
  edited by comparing its rows with the reading just accepted, so a section
  nobody has touched counts as edited as soon as another writer changes it, and
  keeps showing the old value with its Save armed. After a first read that failed, the
  same comparison keeps the defaults.
* `promise`: the repair tool says of `--class` that the report never promises a
  repair the same invocation would fail to perform. The strict restore that the
  publisher demands is tried in report mode only when rows were dropped.
* `seeds_overlap`: the gateway's comment on the seam of the seeds (`gateway.ts:499-502`) says
  that both arrays are computed from a fresh composed read, so that the write
  never touches operator rules. The read is fresh when declare or revert is called, not when its write
  is committed: an operator's save committed in between is put back, rules and rows.
* `lost_publication`: a comment of the repair tool says that a publication that happened must never be
  reported as "nothing was published". The last reading of the log, after the link, is outside any
  `try` (`publish.ts:461`): when it fails, the run reports just that, and its
  successor stays. With `--backup`, the copy it made is removed as well.

Other behaviour met while modelling is the reason for a condition in a property,
or lies outside what a property here is about:

*Walks*

* `state.ts` and its test promise no residual state after `agent/disposed`. A
  walk still streaming then books its failure later and re-creates the state,
  which no later event removes.
* The configuration guide says a completion observed after the cooldown lapsed
  closes the circuit. The state is captured when the attempt begins; an attempt
  that began when the session had no state observes nothing.
* Settings that flip from half-open to timer in the middle of an episode let the
  timer's suppression coexist with it, and a completion then deletes the failure
  count: `HalfOpenNotSuppressed` and `SuppressionHolds` are for settings that do
  not flip, in the run as in the theorem.
* The runtime captures a route's retry policy when the row is registered; when a
  time slot or an edit moves the head, retries keep following the older one.

*Seeds and seam*

* The presets may declare when a companion's write is committed and its slice is
  not. They see a row without a default, keep it as the operator's, and win the
  id; the row then reads as overridden. `DefaultRowsFollow` is about the rows a
  declare found at their default, and about declares nobody overtook.
* The last fiber's disposal clears the mount verdicts. After a reload a mounted
  child that still lives is walked unfiltered, although the configuration guide
  says a mounted child is filtered: `MountVerdictKept` ends with the last fiber.
* A catalog event that comes before its own start resolves takes the role a
  sibling claimed last under the same label, also when results carry child ids
  (the comment on the join says otherwise), until the resolution writes the right
  one back: `RoleIsMeant` allows the roles of calls that share the label.
* A start still in flight at the last teardown writes its record afterwards, and
  nothing removes it.

*Fibers, persona, policy, badge*

* When the owner of the row or of the service unloads, a sibling fiber that could
  take over is not told: the row is offered again with the next settings
  update, the service only when the settings service comes back or a fiber is applied.
* When the holder of a persona claim unloads, the section goes and a living
  sibling is not asked to install its own. A claim is kept after a failed
  activation, and a cancelled installation may leave the verdict of a failure
  that was none.
* A policy snapshot is kept per agent: after `agent/disposed` the id starts anew, and
  settings that are absent then read as off. Malformed settings with nothing
  retained read as unprovable even when the session's event would decide.
* A checkpoint that cannot be read restarts the fold without the fork prefix. That
  is safe only because checkpoints lie behind the prefix.

*Console*

* A save while no reading was ever accepted sends the client's defaults for the
  other sections. A load begun while a write is in flight may publish the older
  reading over it; `WriteWins` excepts it. A load during a save leaves the saving
  status and arms a second save.
* A sync of the allowlist counts as a write: the answer of a save in flight is
  dropped, and if the sync fails the form says "saving" until the next push. It
  also overwrites a concurrent edit of the host's list.
* A change in another namespace than the plugin's is filtered out, so the
  configured providers stay as they were until the next refresh.

*Rows and gates*

* A main section saved with no default model carries the stored chain verbatim:
  padded entries read back as unsaved changes. Rows stored malformed make an
  untouched card dirty. The hidden fields of a role with a padded id are lost on save.
* A seeded role's empty chain is saved without complaint and warned of at load;
  a subagent section is refused when the stored main section does not conform,
  against the card's comment. The migration check compares untrimmed ids.
* A custom slot that starts when it ends is admitted everywhere and never
  matches; the days of a window across midnight are those of the moment, not of
  its start; a preset row repeated is skipped even if the first one is malformed.

*Session-log repair*

* A run may rely on a backup that another run made. When that other run fails it takes its
  copy away, and the first publishes its loss without one: `LossHasItsBackup` is about runs
  whose makers did not fail.
* A removal of the temporary that fails silently, followed by a stale
  publication, leaves the temporary behind while the report says all is as it was.
* A row may have two faults. The released decoder names the first it finds, and a repair of that one
  uncovers the other: a log whose row has a foreign source and a reference past
  its own place is reported repairable, and the strict restore refuses the result.
  `ReportIsTrue` is about rows with no fault but those a rule is about.
* Report mode accepts as already published a successor of an older revision. The two
  ends of a shadowed range and of a surface operation are gated as separate numbers.

## 7. Not modelled

Left out for good: text (logs, locales, command output, the look of the cards),
the defaults and descriptions of the settings schema, structural checks of a patch's shape, the
wording of errors, the zstd frames and row decoder of log files, which file a
catalog path names, build and release scripts. Provider names and model ids
are abstract; `parseSelector` appears only through the kinds of entry it
distinguishes. Role resolution is pure rule matching without state: `ChainWalk` and
`SubagentSeam` take its answer as an input. The terminal interface formats what
the gateway answers; its one state change is the snapshot action of `ChainWalk`. In the browser, drag
handles, the conflict notice and the guard of the session route are rendering. In
the wiring, the registrations of the gateway and of the typert contribution
follow the dedupe of the service and are not repeated; the index of roles and
the diagnostics maps are derived and read by displays only. The wholesale clear
of the memory at plugin dispose ends every walk's owner and is not an action.
In the seam, results whose accessors throw and an install that fails half-way
are left out; in the repair, an operator rolling a publication back and a host
that opens the successor.
