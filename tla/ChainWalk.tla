------------------------------ MODULE ChainWalk ------------------------------
(***************************************************************************)
(* The chain walk of chain-walk.ts: one walk per stream() call of the      *)
(* virtual FallbacksChain/Auto route, several of them in flight at once    *)
(* over the per-agent memory of state.ts.                                  *)
(*                                                                         *)
(* A walk is a JavaScript async generator, so it runs in synchronous       *)
(* segments cut by its awaits and by the chunks it waits for.  One action  *)
(* is one segment, and its program counter names what the walk waits for:  *)
(*                                                                         *)
(*   idle       the call has not been made                                 *)
(*   ready      resolveWalk returned, the consumer has not pulled yet      *)
(*   probing    advanceFrom awaits the catalog                             *)
(*   switching  advanceFrom has chosen; walk() has yet to resume from it   *)
(*   adapting   adaptForTarget awaits the candidate's capabilities         *)
(*   streaming  llm.stream of the current candidate is being forwarded     *)
(*   done       a terminal finish was yielded                              *)
(*   ended      the candidate's stream ended without a finish              *)
(*   refused    an LlmError was thrown before any attempt                  *)
(*   closed     the consumer stopped pulling                               *)
(*                                                                         *)
(* Awaits whose continuation reads nothing shared are folded into the      *)
(* segment that follows them.                                              *)
(***************************************************************************)
EXTENDS FallbackChains, RouteHealth, FiniteSets

CONSTANTS
  Session,     \* agent/session ids
  NoSession,   \* a call without a sessionId
  Subagent,    \* the sessions whose header says origin 'subagent'
  Injected,    \* the sessions whose seam record has virtualRouteInjected
  RoleOf,      \* the role resolveDeclaredRole finds for a registered session
  Walk,        \* the stream() calls of a behaviour
  Owner,       \* the session ids they carry, NoSession among them or not
  LlmUp,       \* what ctx.get('llm') may find: TRUE, a runtime; FALSE, none
  Config,      \* the settings the operator may choose between
  Policy,      \* the subagent policies policyFor may answer with
  Code,        \* failure codes a candidate may end with
  Control,     \* request controls: reasoningEffort, maxTokens
  RepairedBy,  \* the rejection code that repairs each control
  Unserved,    \* the controls a route discloses it cannot serve
  Request,     \* the control sets a request may carry
  Outage,      \* the sets of providers whose catalog may throw at a probe
  NoRoute, NoCode,
  MaxNow       \* bound on the clock

ContextWindowExceeded == "CONTEXT_WINDOW_EXCEEDED"

\* REQUEST_SCOPED_CODES: the request was the problem, the route is healthy.
RequestScoped == {ContextWindowExceeded}

ASSUME WalkAssumption ==
  /\ NoSession \notin Session
  /\ Owner \subseteq Session \cup {NoSession}
  /\ LlmUp \subseteq BOOLEAN
  /\ Subagent \subseteq Session
  /\ Injected \subseteq Subagent
  /\ Config # {}
  /\ \A c \in Config : /\ c.cooldownMs \in Nat
                       /\ c.maxSwitchesPerStep \in Nat
                       /\ c.rootChain \in Seq(Entry)
                       /\ c.slotChains \subseteq Seq(Entry)
                       /\ \A r \in DOMAIN c.roles : c.roles[r].chain \in Seq(Entry)
  /\ \A p \in Policy : /\ p.state \in {"disabled", "enabled", "unprovable"}
                       /\ p.allowed \subseteq Route
  /\ Policy # {}
  /\ Unserved \in [Route -> SUBSET Control]
  /\ Request \subseteq SUBSET Control
  /\ IsFiniteSet(Control)
  /\ NoRoute \notin Route
  /\ NoCode \notin Code \cup RequestScoped
  /\ MaxNow \in Nat \ {0}
  /\ \A c \in Config : Forever > MaxNow + Larger(c.cooldownMs, EscalationCap)

VARIABLES
  now,      \* Date.now()
  config,   \* the live composed settings, source()
  policy,   \* what policyFor answers for each session
  live,     \* sessions whose agent (and seam record) is registered
  known,    \* keys of FallbackStateStore.states
  health,   \* the AgentFallbackState of each known session, per route
  blocked,  \* keys of blockedAttemptMap
  walk      \* the walks

vars == <<now, config, policy, live, known, health, blocked, walk>>

-----------------------------------------------------------------------------
(* Helpers over one walk's record.                                         *)

IdleWalk ==
  [pc |-> "idle", owner |-> NoSession, cfg |-> CHOOSE c \in Config : TRUE,
   entries |-> <<>>, injected |-> FALSE, target |-> NoRoute, code |-> NoCode,
   failed |-> {}, switches |-> 0, held |-> FALSE, committed |-> FALSE,
   base |-> {}, controls |-> {}, repaired |-> {},
   attempts |-> <<>>, dispatches |-> 0, source |-> {}, admitted |-> {}]

Waiting  == {"ready", "probing", "switching", "adapting", "streaming"}
Finished == {"done", "ended", "refused", "closed"}

\* states.peek(owner): a session with no state reads as all fresh.
Memory(s) == IF s \in Session THEN health[s] ELSE [r \in Route |-> Fresh]

Remember(s, mem) ==
  health' = IF s \in Session THEN [health EXCEPT ![s] = mem] ELSE health

Cooled(mem) == { r \in Route : IsSuppressed(mem[r], now) }

\* The routes a policy answer admits.
Admitted(p) == CASE p.state = "disabled"   -> Route
                 [] p.state = "enabled"    -> p.allowed
                 [] p.state = "unprovable" -> {}

Put(w, rec) == walk' = [walk EXCEPT ![w] = rec]

\* The generator is gone, and its locals with it; what the caller has seen of the
\* call stays.
Over(rec, pc) ==
  [rec EXCEPT !.pc = pc, !.code = NoCode, !.failed = {}, !.held = FALSE,
              !.committed = FALSE, !.base = {}, !.controls = {}, !.repaired = {}]

-----------------------------------------------------------------------------
(* resolveWalk: everything decided synchronously by the stream() call.     *)

Origin(s) == IF s \in live \cap Subagent THEN "subagent" ELSE "root"

\* A root call walks the chain of the slot that holds now, but only behind a
\* conforming all-day chain; a subagent's tail is the raw rootChain.
RootTails(s) ==
  {config.rootChain} \cup
  (IF Origin(s) = "root" /\ IsAllDayConforming(config.rootChain)
   THEN config.slotChains ELSE {})

EntriesOf(s, tail) ==
  RoleChainEntries(config.roles, tail, IF s \in live THEN RoleOf[s] ELSE "inherit")

\* The routes the walk's head may be taken from.
HeadAdmission(s) == IF s \in live \cap Injected THEN Admitted(policy[s]) ELSE Route

Refuses(s, entries) ==
  \/ entries = <<>>
  \/ Origin(s) = "root" /\ ~IsAllDayConforming(config.rootChain)
  \/ Dispatchable(entries, HeadAdmission(s)) = {}

\* walkChain: the call is refused, or leaves a generator nobody has pulled yet.
\* llmUp is whether ctx.get('llm') still answers.
Start(w, s, tail, controls, llmUp) ==
  LET entries == EntriesOf(s, tail)
      started == [IdleWalk EXCEPT !.owner = s, !.cfg = config, !.entries = entries,
                    !.injected = s \in live \cap Injected, !.base = controls,
                    !.admitted = HeadAdmission(s)]
  IN  /\ walk[w].pc = "idle"
      /\ tail \in RootTails(s)
      /\ IF Refuses(s, entries) \/ ~llmUp
         THEN Put(w, Over(started, "refused"))
         ELSE Put(w, [started EXCEPT !.pc = "ready",
                        !.target = FirstDispatchableExactHead(entries, HeadAdmission(s))])
      /\ UNCHANGED <<now, config, policy, live, known, health, blocked>>

-----------------------------------------------------------------------------
(* One attempt and the search for the next one.                            *)

\* The walk settles on its next route; nothing can stop that attempt any more.
Chosen(rec, r) ==
  [rec EXCEPT !.pc = "switching", !.target = r, !.code = NoCode,
              !.attempts = Append(@, r)]

(***************************************************************************)
(* Top of the attempt loop: the agent's state object is captured (held:    *)
(* it exists, and it is the one the store holds), a half-open route logs   *)
(* its one probe, and the walk suspends in adaptForTarget.                 *)
(***************************************************************************)
AdmitProbe(mem, rec) ==
  IF rec.cfg.recovery = "half-open"
  THEN [mem EXCEPT ![rec.target] = TryMarkProbeLogged(@)]
  ELSE mem

Enter(w, rec, mem) ==
  /\ Put(w, [rec EXCEPT !.pc = "adapting", !.held = rec.owner \in known,
               !.committed = FALSE, !.repaired = {}])
  /\ Remember(rec.owner, AdmitProbe(mem, rec))

\* isCooled is asked of every candidate but the route the search starts from.
Consult(rec, mem) ==
  LET asked == { ResolveCandidate(rec.entries[i], rec.target) :
                   i \in CandidatePositions(rec.entries) } \ {rec.target}
  IN  [r \in Route |-> IF r \in asked THEN DecisionRead(mem[r], now, rec.cfg.recovery)
                       ELSE mem[r]]

NeedsProbe(rec) ==
  HasWildcardEntry(rec.entries) \/ rec.code = ContextWindowExceeded

Survivors(rec, mem, down) ==
  Surviving(rec.entries, rec.target, Cooled(mem), rec.failed,
            rec.code = ContextWindowExceeded, down)

\* Mutant: the policy is read once, before the probes are awaited.
PermittedAtResolve(rec, alive) ==
  IF rec.injected
  THEN { i \in alive : ResolveCandidate(rec.entries[i], rec.target) \in rec.admitted }
  ELSE alive

\* The survivors a plugin-originated walk may switch to, under the policy it
\* reads now, after its awaits.
Permitted(rec, alive) ==
  IF rec.injected
  THEN { i \in alive : ResolveCandidate(rec.entries[i], rec.target) \in Admitted(policy[rec.owner]) }
  ELSE alive

\* Mutant: a cooled head with no replacement is refused whatever the policy.
HeadAlwaysRevoked(rec) == rec.code = NoCode

\* currentAdmitted === false.
HeadRevoked(rec) == rec.injected /\ rec.target \notin Admitted(policy[rec.owner])

\* blockedReason and a would-be target: the allowlist alone stopped the switch.
IsBlocked(rec, alive) ==
  rec.injected /\ policy[rec.owner].state = "enabled" /\ alive # {}

\* Mutant: exhaustion goes unnoticed until the walk has switched once.
ExhaustedAfterSwitch(rec, next) == next = {} /\ rec.switches > 0

\* A failure was swallowed and nothing may replace it.  A code of NoCode is the
\* cooled-head re-entry, which has no failure to re-emit.
Exhausted(rec, next) == next = {} /\ rec.code # NoCode

\* Only a failure-triggered advance spends a switch.
SwitchCounted(rec) ==
  [rec EXCEPT !.switches = IF rec.code = NoCode THEN @ ELSE @ + 1]

\* advanceFrom from the filter on, and what walk() does with its answer.
Advance(w, rec, mem, down) ==
  LET alive == Survivors(rec, mem, down)
      next  == Permitted(rec, alive)
      seen  == [rec EXCEPT !.admitted = IF rec.injected THEN Admitted(policy[rec.owner]) ELSE @]
  IN  /\ Remember(rec.owner, Consult(rec, mem))
      /\ \/ /\ next # {}
            /\ Put(w, Chosen(SwitchCounted(seen),
                             ResolveCandidate(rec.entries[Least(next)], rec.target)))
            /\ UNCHANGED blocked
         \/ /\ Exhausted(rec, next)
            /\ Put(w, Over(seen, "done"))
            /\ blocked' = IF IsBlocked(rec, alive) THEN blocked \cup {rec.owner} ELSE blocked
         \/ /\ next = {} /\ rec.code = NoCode
            /\ Put(w, IF HeadRevoked(rec) THEN Over(seen, "refused") ELSE Chosen(seen, rec.target))
            /\ UNCHANGED blocked

\* advanceFrom up to its first await, if it has one.
Search(w, rec, mem) ==
  IF NeedsProbe(rec)
  THEN /\ Put(w, [rec EXCEPT !.pc = "probing"])
       /\ Remember(rec.owner, mem)
       /\ UNCHANGED blocked
  ELSE Advance(w, rec, mem, {})

\* First pull, head not cooled (an expired cooldown goes half-open right here).
BeginAtHead(w) ==
  LET rec == walk[w]
      mem == Memory(rec.owner)
  IN  /\ rec.pc = "ready"
      /\ rec.target \notin Cooled(mem)
      /\ Enter(w, Chosen(rec, rec.target),
               [mem EXCEPT ![rec.target] = DecisionRead(@, now, rec.cfg.recovery)])
      /\ UNCHANGED <<now, config, policy, live, known, blocked>>

\* First pull, head cooled: the re-entry resumes past it.
BeginPastCooledHead(w) ==
  LET rec == walk[w]
      mem == Memory(rec.owner)
  IN  /\ rec.pc = "ready"
      /\ rec.target \in Cooled(mem)
      /\ Search(w, rec, mem)
      /\ UNCHANGED <<now, config, policy, live, known>>

\* The catalog answered, or threw for the providers in down.
ProbeAnswers(w, down) ==
  LET rec == walk[w]
  IN  /\ rec.pc = "probing"
      /\ Advance(w, rec, Memory(rec.owner), down)
      /\ UNCHANGED <<now, config, policy, live, known>>

\* walk() resumes with the route advanceFrom chose.
Attempt(w) ==
  LET rec == walk[w]
  IN  /\ rec.pc = "switching"
      /\ Enter(w, rec, Memory(rec.owner))
      /\ UNCHANGED <<now, config, policy, live, known, blocked>>

\* adaptForTarget returned: the controls the route says it cannot serve are
\* dropped from this attempt's copy, and the request goes out.
Dispatch(w) ==
  LET rec == walk[w]
  IN  /\ rec.pc = "adapting"
      /\ Put(w, [rec EXCEPT !.pc = "streaming", !.dispatches = @ + 1,
                   !.controls = rec.base \ Unserved[rec.target]])
      /\ UNCHANGED <<now, config, policy, live, known, health, blocked>>

-----------------------------------------------------------------------------
(* What the candidate's stream delivers.                                   *)

\* Anything but usage commits the attempt, for good.
Committed(rec, kind) == rec.committed \/ kind = "output"

\* A chunk other than a finish is forwarded.  The consumer may close the generator
\* at that yield.
Forward(w, kind, keepsPulling) ==
  LET rec == walk[w]
  IN  /\ rec.pc = "streaming"
      /\ LET seen == [rec EXCEPT !.committed = Committed(rec, kind),
                        !.source = IF kind = "output" THEN @ \cup {rec.target} ELSE @]
         IN  Put(w, IF keepsPulling THEN seen ELSE Over(seen, "closed"))
      /\ UNCHANGED <<now, config, policy, live, known, health, blocked>>

\* A generator nobody pulled can be closed too.
Abandon(w) ==
  /\ walk[w].pc = "ready"
  /\ Put(w, Over(walk[w], "closed"))
  /\ UNCHANGED <<now, config, policy, live, known, health, blocked>>

\* observeSuccess on the state object captured when the attempt began.
SuccessMemory(rec) ==
  IF rec.held THEN [Memory(rec.owner) EXCEPT ![rec.target] = ObserveSuccess(@, now)]
  ELSE Memory(rec.owner)

FinishNormally(w) ==
  LET rec == walk[w]
  IN  /\ rec.pc = "streaming"
      /\ Remember(rec.owner, SuccessMemory(rec))
      /\ Put(w, Over(rec, "done"))
      /\ UNCHANGED <<now, config, policy, live, known, blocked>>

FinishAborted(w) ==
  /\ walk[w].pc = "streaming"
  /\ Put(w, Over(walk[w], "done"))
  /\ UNCHANGED <<now, config, policy, live, known, health, blocked>>

EndWithoutFinish(w) ==
  /\ walk[w].pc = "streaming"
  /\ Put(w, Over(walk[w], "ended"))
  /\ UNCHANGED <<now, config, policy, live, known, health, blocked>>

\* Mutant: a failure after output may still be swallowed.
BeforeOrAfterOutput(rec) == rec.pc = "streaming"

\* From the first output on a failure belongs to the upper layers.
BeforeOutput(rec) == ~rec.committed

\* repairableControl: the control this rejection says the route cannot serve.
Repairable(rec, code) ==
  { c \in rec.controls : RepairedBy[c] = code } \ rec.repaired

\* Mutant: the repair narrows this request but does not remember having done so.
NarrowedOnce(rec, c) == rec

\* One control less, and never that control again on this candidate.
Narrowed(rec, c) ==
  [rec EXCEPT !.repaired = @ \cup {c}, !.controls = @ \ {c}]

\* A pre-output parameter rejection retries the same candidate without the
\* control; it books nothing and spends no switch.
Repair(w, code) ==
  LET rec == walk[w]
      c   == CHOOSE d \in Repairable(rec, code) : TRUE
  IN  /\ rec.pc = "streaming" /\ BeforeOutput(rec)
      /\ Repairable(rec, code) # {}
      /\ Put(w, [Narrowed(rec, c) EXCEPT !.dispatches = @ + 1])
      /\ UNCHANGED <<now, config, policy, live, known, health, blocked>>

\* bookFailure: states.get creates the agent's state; a request-scoped code
\* leaves the healthy route uncooled.
CoolsRoute(rec, code) == rec.owner \in Session /\ code \notin RequestScoped

BookedMemory(rec, code) ==
  IF CoolsRoute(rec, code)
  THEN [Memory(rec.owner) EXCEPT ![rec.target] = CoolRoute(@, now, rec.cfg)]
  ELSE Memory(rec.owner)

\* The sessions with a state once the failure is booked.
BookedKnown(rec, code) ==
  IF CoolsRoute(rec, code) THEN known \cup {rec.owner} ELSE known

\* Mutant: only a failure that cools the route enters the failed set.
BookedIfCooled(rec, code) ==
  [rec EXCEPT !.failed = IF code \in RequestScoped THEN @ ELSE @ \cup {rec.target},
              !.code = code]

\* The walk's own failed set takes every booked failure.
Booked(rec, code) == [rec EXCEPT !.failed = @ \cup {rec.target}, !.code = code]

IsTrigger(rec, code) == code \in rec.cfg.triggerCodes

HasSwitchLeft(rec) == rec.switches < rec.cfg.maxSwitchesPerStep

\* A pre-output trigger failure is swallowed and booked; the walk advances while
\* it has switches left.
Swallow(w, code) ==
  LET rec == walk[w]
  IN  /\ rec.pc = "streaming" /\ BeforeOutput(rec)
      /\ Repairable(rec, code) = {}
      /\ IsTrigger(rec, code)
      /\ known' = BookedKnown(rec, code)
      /\ IF HasSwitchLeft(rec)
         THEN Search(w, Booked(rec, code), BookedMemory(rec, code))
         ELSE /\ Put(w, Over(rec, "done"))
              /\ Remember(rec.owner, BookedMemory(rec, code))
              /\ UNCHANGED blocked
      /\ UNCHANGED <<now, config, policy, live>>

\* Any other failure is forwarded verbatim and ends the walk; after output a
\* trigger failure is still booked.
FinishFailed(w, code) ==
  LET rec == walk[w]
  IN  /\ rec.pc = "streaming"
      /\ BeforeOutput(rec) => (Repairable(rec, code) = {} /\ ~IsTrigger(rec, code))
      /\ Put(w, Over(rec, "done"))
      /\ IF IsTrigger(rec, code)
         THEN /\ known' = BookedKnown(rec, code)
              /\ Remember(rec.owner, BookedMemory(rec, code))
         ELSE UNCHANGED <<known, health>>
      /\ UNCHANGED <<now, config, policy, live, blocked>>

-----------------------------------------------------------------------------
(* Around the walks.                                                       *)

Tick ==
  /\ now < MaxNow
  /\ now' = now + 1
  /\ UNCHANGED <<config, policy, live, known, health, blocked, walk>>

\* A settings edit reaches the next walk; running walks keep their snapshot.
ChangeSettings(c) ==
  /\ config' = c
  /\ UNCHANGED <<now, policy, live, known, health, blocked, walk>>

ChangePolicy(s, p) ==
  /\ policy' = [policy EXCEPT ![s] = p]
  /\ UNCHANGED <<now, config, live, known, health, blocked, walk>>

\* The /fallbacks snapshot: syncRecovery, a no-op under 'timer'.
Snapshot(s) ==
  /\ s \in known
  /\ config.recovery = "half-open"
  /\ health' = [health EXCEPT ![s] =
                  [r \in Route |-> DecisionRead(health[s][r], now, "half-open")]]
  /\ UNCHANGED <<now, config, policy, live, known, blocked, walk>>

\* agent/disposed: the maps are cleared of the id.  A walk in flight keeps the
\* state object it captured, which the store no longer holds.
Dispose(s) ==
  /\ s \in live
  /\ live' = live \ {s}
  /\ known' = known \ {s}
  /\ health' = [health EXCEPT ![s] = [r \in Route |-> Fresh]]
  /\ blocked' = blocked \ {s}
  /\ walk' = [w \in Walk |-> [walk[w] EXCEPT !.held = @ /\ walk[w].owner # s]]
  /\ UNCHANGED <<now, config, policy>>

-----------------------------------------------------------------------------
Init ==
  /\ now = 1
  /\ config \in Config
  /\ policy \in [Session -> Policy]
  /\ live = Session
  /\ known = {}
  /\ health = [s \in Session |-> [r \in Route |-> Fresh]]
  /\ blocked = {}
  /\ walk = [w \in Walk |-> IdleWalk]

Call(w) ==
  \E s \in Owner, controls \in Request, llmUp \in LlmUp :
    \E tail \in RootTails(s) : Start(w, s, tail, controls, llmUp)

Pull(w) == BeginAtHead(w) \/ BeginPastCooledHead(w)

Chunk(w) ==
  \E kind \in {"usage", "output"}, keepsPulling \in BOOLEAN : Forward(w, kind, keepsPulling)

Finish(w) ==
  \/ FinishNormally(w)
  \/ FinishAborted(w)
  \/ EndWithoutFinish(w)
  \/ \E code \in Code : Repair(w, code) \/ Swallow(w, code) \/ FinishFailed(w, code)

WalkStep(w) ==
  \/ Call(w)
  \/ Pull(w)
  \/ Abandon(w)
  \/ \E down \in Outage : ProbeAnswers(w, down)
  \/ Attempt(w)
  \/ Dispatch(w)
  \/ Chunk(w)
  \/ Finish(w)

Surroundings ==
  \/ Tick
  \/ \E c \in Config : ChangeSettings(c)
  \/ \E s \in Session : (\E p \in Policy : ChangePolicy(s, p)) \/ Snapshot(s) \/ Dispose(s)

Next == (\E w \in Walk : WalkStep(w)) \/ Surroundings

Spec == Init /\ [][Next]_vars

\* The consumer pulls, awaited promises settle and a provider's stream comes to
\* an end; nobody has to make a call, and the surroundings owe nothing.
Progress(w) ==
  \/ Pull(w)
  \/ \E down \in Outage : ProbeAnswers(w, down)
  \/ Attempt(w)
  \/ Dispatch(w)
  \/ Finish(w)

Fairness == \A w \in Walk : WF_vars(Progress(w))

FairSpec == Spec /\ Fairness

-----------------------------------------------------------------------------
(* Types.                                                                  *)

MemoryType == [Route -> Health]

WalkType ==
  [pc : {"idle"} \cup Waiting \cup Finished, owner : Session \cup {NoSession},
   cfg : Config, entries : Seq(Entry), injected : BOOLEAN,
   target : Route \cup {NoRoute}, code : Code \cup {NoCode},
   failed : SUBSET Route, switches : Nat, held : BOOLEAN, committed : BOOLEAN,
   base : SUBSET Control, controls : SUBSET Control, repaired : SUBSET Control,
   attempts : Seq(Route), dispatches : Nat, source : SUBSET Route,
   admitted : SUBSET Route]

\* The types of the machine's state.
TypeOK ==
  /\ now \in 1 .. MaxNow
  /\ config \in Config
  /\ policy \in [Session -> Policy]
  /\ live \subseteq Session
  /\ known \subseteq Session
  /\ health \in [Session -> MemoryType]
  /\ blocked \subseteq Session
  /\ walk \in [Walk -> WalkType]

-----------------------------------------------------------------------------
(* Safety.                                                                 *)

Attempting == {"switching", "adapting", "streaming"}

Tried(rec) == { rec.attempts[i] : i \in DOMAIN rec.attempts }
Last(rec)  == rec.attempts[Len(rec.attempts)]

(***************************************************************************)
(* How the parts of one walk's record hang together, which is why it never *)
(* tries a route twice: what it tried is what it failed on and what it is  *)
(* on, the switches it counted are the attempts it made but for the first, *)
(* and nothing was shown to the caller before the last attempt.            *)
(***************************************************************************)
BeforeFirstAttempt(rec) ==
  rec.attempts = <<>> /\ rec.failed = {} /\ rec.switches = 0 /\ rec.source = {}

AttemptsCoherent(rec) ==
  /\ rec.injected => rec.owner \in Session
  /\ \A i, j \in DOMAIN rec.attempts : rec.attempts[i] = rec.attempts[j] => i = j
  /\ Len(rec.attempts) <= rec.cfg.maxSwitchesPerStep + 1
  /\ rec.source # {} => rec.attempts # <<>> /\ rec.source = {Last(rec)}

WalkCoherent(rec) ==
  /\ AttemptsCoherent(rec)
  /\ rec.pc \in Waiting => rec.target \in Route
  /\ rec.pc # "streaming" => ~rec.committed
  /\ rec.pc \in {"idle", "ready"} => rec.code = NoCode /\ BeforeFirstAttempt(rec)
  /\ rec.pc = "probing" =>
       IF rec.code = NoCode
       THEN BeforeFirstAttempt(rec)
       ELSE /\ rec.source = {}
            /\ Tried(rec) \subseteq rec.failed
            /\ Len(rec.attempts) = rec.switches + 1
            /\ rec.switches < rec.cfg.maxSwitchesPerStep
  /\ rec.pc \in Attempting =>
       /\ rec.attempts # <<>> /\ rec.target = Last(rec)
       /\ Tried(rec) \subseteq rec.failed \cup {rec.target}
       /\ Len(rec.attempts) = rec.switches + 1
       /\ rec.source # {} => rec.committed

WalksCoherent == \A w \in Walk : WalkCoherent(walk[w])

\* No route is attempted twice by one walk, however the cooldowns of other walks
\* come and go between its attempts (chain-walk.ts: the per-call failed set).
NoRouteTwice ==
  \A w \in Walk : \A i, j \in DOMAIN walk[w].attempts :
    walk[w].attempts[i] = walk[w].attempts[j] => i = j

\* One call costs at most maxSwitchesPerStep + 1 attempts, and an attempt at most
\* one request per repairable control on top of its first ("attempts <= cap + 1",
\* "a second identical rejection is forwarded instead of a loop").
WorkBounded ==
  \A w \in Walk :
    /\ Len(walk[w].attempts) <= walk[w].cfg.maxSwitchesPerStep + 1
    /\ walk[w].dispatches <= Len(walk[w].attempts) * (1 + Cardinality(Control))

\* The committed rule: the caller sees the output of one route at most, and it is
\* the route of the last attempt.
SingleSource ==
  \A w \in Walk : walk[w].source # {} =>
    /\ walk[w].attempts # <<>>
    /\ walk[w].source = {Last(walk[w])}

\* A plugin-originated walk never has a route in flight that the last policy it
\* read does not admit: an unprovable policy admits none, and the cooled-head
\* re-entry is refused rather than resumed at a revoked head.
InjectedAdmitted ==
  \A w \in Walk : walk[w].pc \in Attempting => walk[w].target \in walk[w].admitted

\* The largest switch cap the operator may set, plus the first attempt.
MaxAttempts ==
  LET caps == { c.maxSwitchesPerStep : c \in Config }
  IN  1 + CHOOSE m \in caps : \A n \in caps : n <= m

Contract ==
  INSTANCE FailoverContract
    WITH Caller <- Walk, Candidate <- Route, Budget <- MaxAttempts,
         tried  <- [w \in Walk |-> walk[w].attempts],
         source <- [w \in Walk |-> walk[w].source],
         over   <- { w \in Walk : walk[w].pc \in Finished }

\* Every walk implements the failover contract.
ImplementsContract == Contract!Spec

\* Under settings that stay half-open, a half-open route is not suppressed and
\* holds no cooldown entry: an episode and a suppression never coexist.
HalfOpenNotSuppressed ==
  \A s \in Session, r \in Route : health[s][r].halfOpen => health[s][r].until = 0

-----------------------------------------------------------------------------
(* What a step may never do.                                               *)

\* Under fixed settings an active suppression is never shortened and its
\* escalation never lost, whatever other walks of the session finish meanwhile
\* ("a stale in-flight success must not cancel a fresher escalated
\* re-suppression"); only disposing of the agent forgets it.
SuppressionHolds ==
  [][\A s \in known \cap known', r \in Route :
       IsSuppressed(health[s][r], now) =>
         /\ health'[s][r].until >= health[s][r].until
         /\ health'[s][r].fails >= health[s][r].fails]_vars

\* The exact routes of a walk's chain that it could go to instead of r.
Alternatives(w, r) ==
  { walk'[w].entries[i] : i \in { j \in DOMAIN walk'[w].entries :
                                    /\ IsExact(walk'[w].entries[j])
                                    /\ walk'[w].entries[j].provider # Self } }
  \cap (walk'[w].admitted \ {r})

\* A suppressed route is attempted only as the last resort: as a walk's first
\* attempt, when every other admitted exact route of its chain is suppressed too.
CooledIsLastResort ==
  [][\A w \in Walk :
       LET r   == walk'[w].target
           mem == health'[walk'[w].owner]
       IN  ( /\ walk'[w].attempts # walk[w].attempts
             /\ walk'[w].owner \in Session
             /\ IsSuppressed(mem[r], now) )
           => /\ Len(walk'[w].attempts) = 1
              /\ \A a \in Alternatives(w, r) : IsSuppressed(mem[a], now)]_vars

-----------------------------------------------------------------------------
(* Liveness.                                                               *)

\* Every call comes to an end: repairs, switches and probes cannot go on forever.
WalkTerminates ==
  \A w \in Walk : (walk[w].pc \in Waiting) ~> (walk[w].pc \in Finished)

\* A request is never left without an answer: a walk with no policy to honour that
\* is not closed before its first pull makes an attempt, even when every route of
\* its chain is cooled.
AttemptIsMade ==
  \A w \in Walk :
    (walk[w].pc = "ready" /\ ~walk[w].injected)
      ~> (walk[w].attempts # <<>> \/ walk[w].pc = "closed")
=============================================================================
