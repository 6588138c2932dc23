-------------------------- MODULE ChainWalk_proofs --------------------------
(***************************************************************************)
(* What the chain walk guarantees for every number of sessions, walks,     *)
(* routes and settings.                                                    *)
(*                                                                         *)
(* The inductive invariant is TypeOK with WalksCoherent.  A walk's step    *)
(* depends on the others only through the memory and the policy it reads,  *)
(* and no value of those can break its own record: so the argument is      *)
(* about one record at a time.  The memory in turn changes one route at a  *)
(* time, by one of the outcomes of RecordFailure and its kin.  So the      *)
(* lemmas about the chain arithmetic and the memory of one route come      *)
(* first.                                                                  *)
(***************************************************************************)
EXTENDS ChainWalk, Inductions

-----------------------------------------------------------------------------
(* What the chain arithmetic returns, for every chain.                     *)

\* A set of positions that is not empty has a first one: the code takes the first
\* survivor of a list, and Least is that survivor's position.
LEMMA LeastMember ==
  ASSUME NEW I, I \subseteq Nat, I # {}
  PROVE  Least(I) \in I /\ \A j \in I : Least(I) <= j
<1>1. \E i \in I : \A j \in I : i <= j
  BY LeastNaturalExists
<1>2. QED
  BY <1>1 DEF Least

\* A candidate of a chain is a route: a wildcard entry is resolved before it is
\* tried, and an entry that does not parse never becomes one.
LEMMA CandidateIsRoute ==
  ASSUME NEW entries \in Seq(Entry), NEW from \in Route,
         NEW i \in CandidatePositions(entries)
  PROVE  ResolveCandidate(entries[i], from) \in Route
<1>1. entries[i] \in Entry /\ entries[i] # Malformed
  BY DEF CandidatePositions
<1>2. entries[i] \in [provider : Provider, model : Model \cup {Wildcard}]
  BY <1>1 DEF Entry
<1>3. QED
  BY <1>2 DEF ResolveCandidate, Route

\* The head a walk starts from is one of the routes its caller admits, whatever
\* unusable entries precede it.
LEMMA HeadIsAllowed ==
  ASSUME NEW entries \in Seq(Entry), NEW allowed \in SUBSET Route,
         Dispatchable(entries, allowed) # {}
  PROVE  FirstDispatchableExactHead(entries, allowed) \in allowed
<1>1. Dispatchable(entries, allowed) \subseteq Nat
  BY DEF Dispatchable
<1>2. Least(Dispatchable(entries, allowed)) \in Dispatchable(entries, allowed)
  BY <1>1, LeastMember
<1>3. QED
  BY <1>2 DEF FirstDispatchableExactHead, Dispatchable

\* The chosen survivor is a route the walk has not failed on and is not on.
LEMMA SurvivorIsFresh ==
  ASSUME NEW entries \in Seq(Entry), NEW from \in Route, NEW cooled, NEW failed,
         NEW overflow, NEW down,
         NEW I \in SUBSET Surviving(entries, from, cooled, failed, overflow, down),
         I # {}
  PROVE  LET r == ResolveCandidate(entries[Least(I)], from)
         IN  r \in Route /\ r # from /\ r \notin failed /\ r \notin cooled
<1>1. I \subseteq CandidatePositions(entries)
  BY DEF Surviving
<1>2. I \subseteq Nat
  BY <1>1 DEF CandidatePositions
<1>3. Least(I) \in I
  BY <1>2, LeastMember
<1>4. ResolveCandidate(entries[Least(I)], from) \in Route
  BY <1>1, <1>3, CandidateIsRoute
<1>5. QED
  BY <1>3, <1>4 DEF Surviving

\* The chain of a role is a chain: concatenation of chains, in the operator's order.
LEMMA RoleChainIsChain ==
  ASSUME NEW roles, NEW rootChain \in Seq(Entry), NEW role,
         \A r \in DOMAIN roles : roles[r].chain \in Seq(Entry)
  PROVE  RoleChainEntries(roles, rootChain, role) \in Seq(Entry)
<1>1. CASE role = "inherit" \/ role \notin DOMAIN roles
  BY <1>1 DEF RoleChainEntries
<1>2. CASE ~ (role = "inherit" \/ role \notin DOMAIN roles)
  <2>1. roles[role].chain \in Seq(Entry)
    BY <1>2
  <2>2. (IF roles[role].fallback = "none" THEN <<>> ELSE rootChain) \in Seq(Entry)
    OBVIOUS
  <2>3. QED
    BY <1>2, <2>1, <2>2 DEF RoleChainEntries
<1>3. QED
  BY <1>1, <1>2

-----------------------------------------------------------------------------
(* The escalation factor.  Growth is a recursive function, so that it has  *)
(* the values its definition says must be shown first: a set of            *)
(* counterexamples would have a least one, and there is none.              *)

\* g has the values of Growth up to n.
Approximates(g, n) ==
  /\ g \in [0 .. n -> Nat \ {0}]
  /\ \A k \in 0 .. n : g[k] = IF k = 0 THEN 1 ELSE EscalationMultiplier * g[k - 1]

\* Every finite prefix of the recursion has a solution.
LEMMA ApproximationExists ==
  \A n \in Nat : \E g : Approximates(g, n)
<1> DEFINE Bad == { n \in Nat : ~ \E g : Approximates(g, n) }
<1>1. SUFFICES ASSUME Bad # {} PROVE FALSE
  OBVIOUS
<1>2. PICK n \in Bad : \A m \in Bad : n <= m
  <2> HIDE DEF Bad
  <2>1. Bad \subseteq Nat
    BY DEF Bad
  <2>2. QED
    BY <1>1, <2>1, LeastNaturalExists
<1>3. CASE n = 0
  <2>1. Approximates([k \in 0 .. 0 |-> 1], 0)
    BY DEF Approximates
  <2>2. QED
    BY <1>2, <1>3, <2>1
<1>4. CASE n # 0
  <2>1. n - 1 \in Nat /\ n - 1 \notin Bad
    BY <1>2, <1>4
  <2>2. PICK g : Approximates(g, n - 1)
    BY <2>1
  <2> DEFINE h == [k \in 0 .. n |-> IF k = n THEN EscalationMultiplier * g[n - 1] ELSE g[k]]
  <2>3. g[n - 1] \in Nat \ {0} /\ EscalationMultiplier * g[n - 1] \in Nat \ {0}
    BY <1>2, <1>4, <2>2, HealthAssumption DEF Approximates
  <2>4. h \in [0 .. n -> Nat \ {0}]
    BY <1>2, <1>4, <2>2, <2>3 DEF Approximates
  <2>5. \A k \in 0 .. n : h[k] = IF k = 0 THEN 1 ELSE EscalationMultiplier * h[k - 1]
    BY <1>2, <1>4, <2>2, <2>3 DEF Approximates
  <2>6. Approximates(h, n)
    BY <2>4, <2>5 DEF Approximates
  <2>7. QED
    BY <1>2, <2>6
<1>5. QED
  BY <1>3, <1>4

\* Two solutions agree where both are defined.
LEMMA ApproximationsAgree ==
  ASSUME NEW n \in Nat, NEW m \in Nat, NEW g, NEW h,
         Approximates(g, n), Approximates(h, m)
  PROVE  \A k \in Nat : k <= n /\ k <= m => g[k] = h[k]
<1> DEFINE Bad == { k \in Nat : k <= n /\ k <= m /\ g[k] # h[k] }
<1>1. SUFFICES ASSUME Bad # {} PROVE FALSE
  OBVIOUS
<1>2. PICK k \in Bad : \A j \in Bad : k <= j
  <2> HIDE DEF Bad
  <2>1. Bad \subseteq Nat
    BY DEF Bad
  <2>2. QED
    BY <1>1, <2>1, LeastNaturalExists
<1>3. k # 0
  BY <1>2 DEF Approximates
<1>4. k - 1 \notin Bad /\ k - 1 \in Nat
  BY <1>2, <1>3
<1>5. g[k - 1] = h[k - 1]
  BY <1>2, <1>4
<1>6. g[k] = EscalationMultiplier * g[k - 1] /\ h[k] = EscalationMultiplier * h[k - 1]
  BY <1>2, <1>3 DEF Approximates
<1>7. QED
  BY <1>2, <1>5, <1>6

\* Growth exists, is positive and grows by the multiplier.
LEMMA GrowthValue ==
  /\ Growth \in [Nat -> Nat \ {0}]
  /\ Growth[0] = 1
  /\ \A k \in Nat : Growth[k + 1] = EscalationMultiplier * Growth[k]
<1> DEFINE A(n) == CHOOSE g : Approximates(g, n)
           F == [n \in Nat |-> A(n)[n]]
           Satisfies(f) == f = [k \in Nat |-> IF k = 0 THEN 1 ELSE EscalationMultiplier * f[k - 1]]
<1>1. \A n \in Nat : Approximates(A(n), n)
  BY ApproximationExists
<1> HIDE DEF A
<1>2. \A n \in Nat : F[n] \in Nat \ {0}
  <2>1. ASSUME NEW n \in Nat PROVE A(n)[n] \in Nat \ {0}
    BY <1>1 DEF Approximates
  <2>2. QED
    BY <2>1
<1>3. ASSUME NEW k \in Nat
      PROVE  F[k] = IF k = 0 THEN 1 ELSE EscalationMultiplier * F[k - 1]
  <2>1. CASE k = 0
    <3>1. A(0)[0] = 1
      BY <1>1 DEF Approximates
    <3>2. QED
      BY <2>1, <3>1
  <2>2. CASE k # 0
    <3>1. k - 1 \in Nat
      BY <2>2
    <3>2. A(k)[k] = EscalationMultiplier * A(k)[k - 1]
      BY <1>1, <2>2 DEF Approximates
    <3>3. A(k)[k - 1] = A(k - 1)[k - 1]
      BY <1>1, <3>1, ApproximationsAgree
    <3>4. QED
      BY <2>2, <3>1, <3>2, <3>3
  <2>3. QED
    BY <2>1, <2>2
<1>4. Satisfies(F)
  BY <1>3
<1>5. Growth = CHOOSE f : Satisfies(f)
  BY DEF Growth
<1>6. Satisfies(Growth)
  <2> HIDE DEF F, Satisfies
  <2>1. QED
    BY <1>4, <1>5
<1>7. \A k \in Nat : Growth[k] = F[k]
  <2> HIDE DEF F
  <2> DEFINE Bad == { k \in Nat : Growth[k] # F[k] }
  <2>1. SUFFICES ASSUME Bad # {} PROVE FALSE
    OBVIOUS
  <2>2. PICK k \in Bad : \A j \in Bad : k <= j
    <3> HIDE DEF Bad
    <3>1. Bad \subseteq Nat
      BY DEF Bad
    <3>2. QED
      BY <2>1, <3>1, LeastNaturalExists
  <2>3. Growth[k] = IF k = 0 THEN 1 ELSE EscalationMultiplier * Growth[k - 1]
    BY <1>6, <2>2
  <2>4. F[k] = IF k = 0 THEN 1 ELSE EscalationMultiplier * F[k - 1]
    BY <1>4, <2>2
  <2>5. k # 0 => k - 1 \in Nat /\ Growth[k - 1] = F[k - 1]
    BY <2>2
  <2>6. QED
    BY <2>2, <2>3, <2>4, <2>5
<1>8. \A k \in Nat : Growth[k] \in Nat \ {0}
  BY <1>2, <1>7
<1>9. Growth = [k \in Nat |-> Growth[k]]
  BY <1>6
<1>10. ASSUME NEW k \in Nat PROVE Growth[k + 1] = EscalationMultiplier * Growth[k]
  BY <1>6
<1>11. QED
  <2> HIDE DEF F, Satisfies
  <2>1. Growth[0] = 1
    BY <1>6 DEF Satisfies
  <2>2. Growth \in [Nat -> Nat \ {0}]
    BY <1>8, <1>9
  <2>3. QED
    BY <1>10, <2>1, <2>2

\* The escalated cooldown never falls below the flat one and never shrinks as
\* failures accumulate.
LEMMA EscalationMonotone ==
  ASSUME NEW ms \in Nat, NEW n \in Nat \ {0}
  PROVE  /\ EscalatedCooldownMs(ms, n) \in Nat
         /\ EscalatedCooldownMs(ms, n) <= EscalatedCooldownMs(ms, n + 1)
<1> DEFINE x == Growth[n - 1]
           y == Growth[n]
<1>1. x \in Nat /\ y \in Nat /\ x <= y
  <2>1. n - 1 \in Nat /\ (n - 1) + 1 = n
    OBVIOUS
  <2>2. x \in Nat \ {0} /\ y = EscalationMultiplier * x
    BY <2>1, GrowthValue
  <2> HIDE DEF x, y
  <2>3. EscalationMultiplier * x >= x /\ EscalationMultiplier * x \in Nat
    BY <2>2, HealthAssumption
  <2>4. QED
    BY <2>2, <2>3
<1>2. (n + 1) - 1 = n
  OBVIOUS
<1>3. EscalatedCooldownMs(ms, n) = Larger(ms, Smaller(EscalationCap, ms * x))
  BY DEF EscalatedCooldownMs
<1>4. EscalatedCooldownMs(ms, n + 1) = Larger(ms, Smaller(EscalationCap, ms * y))
  BY <1>2 DEF EscalatedCooldownMs
<1> HIDE DEF x, y
<1>5. ms * x \in Nat /\ ms * y \in Nat /\ ms * x <= ms * y
  BY <1>1
<1>6. QED
  BY <1>3, <1>4, <1>5, HealthAssumption DEF Larger, Smaller

-----------------------------------------------------------------------------
(* What one step of the system may make of a route's memory.               *)

Outcomes(h, t, cfg) ==
  { h,
    DecisionRead(h, t, cfg.recovery),
    TryMarkProbeLogged(h),
    TryMarkProbeLogged(DecisionRead(h, t, cfg.recovery)),
    CoolRoute(h, t, cfg),
    ObserveSuccess(h, t) }

\* Every outcome is again a memory of a route.
LEMMA OutcomeType ==
  ASSUME NEW h \in Health, NEW t \in Nat, NEW cfg, cfg.cooldownMs \in Nat,
         NEW g \in Outcomes(h, t, cfg)
  PROVE  g \in Health
<1>1. DecisionRead(h, t, cfg.recovery) \in Health
  BY DEF Health, DecisionRead, MarkHalfOpen, HasExpired
<1>2. DecisionRead(h, t, "half-open") \in Health
  BY DEF Health, DecisionRead, MarkHalfOpen, HasExpired
<1>3. \A k \in Health : TryMarkProbeLogged(k) \in Health /\ Close(k) \in Health
  BY DEF Health, TryMarkProbeLogged, Close
<1>4. CoolRoute(h, t, cfg) \in Health
  <2>1. CASE cfg.revertPolicy = "never"
    BY <2>1, HealthAssumption DEF CoolRoute, Health
  <2>2. CASE cfg.revertPolicy # "never" /\ cfg.recovery = "half-open"
    <3>1. RecordFailure(h) \in Health /\ RecordFailure(h).fails \in Nat \ {0}
      <4>1. h.fails + 1 \in Nat \ {0}
        BY DEF Health
      <4>2. RecordFailure(h) = [h EXCEPT !.fails = h.fails + 1, !.halfOpen = FALSE,
                                         !.probeLogged = FALSE]
        BY DEF RecordFailure
      <4>3. QED
        BY <4>1, <4>2 DEF Health
    <3>2. EscalatedCooldownMs(cfg.cooldownMs, RecordFailure(h).fails) \in Nat
      BY <3>1, EscalationMonotone
    <3> DEFINE f == RecordFailure(h)
               u == t + EscalatedCooldownMs(cfg.cooldownMs, f.fails)
    <3>3. CoolRoute(h, t, cfg) = [f EXCEPT !.until = u]
      BY <2>2 DEF CoolRoute
    <3>4. f \in Health /\ u \in Nat
      BY <3>1, <3>2
    <3> HIDE DEF f, u
    <3>5. QED
      BY <3>3, <3>4 DEF Health
  <2>3. CASE cfg.revertPolicy # "never" /\ cfg.recovery # "half-open"
    BY <2>3 DEF CoolRoute, Health
  <2>4. QED
    BY <2>1, <2>2, <2>3
<1>5. QED
  BY <1>1, <1>2, <1>3, <1>4 DEF Outcomes, ObserveSuccess

\* An episode and a cooldown entry never coexist where every cooldown expires and
\* every failure is counted.
LEMMA OutcomeHalfOpen ==
  ASSUME NEW h \in Health, NEW t \in Nat, NEW cfg, cfg.cooldownMs \in Nat,
         cfg.recovery = "half-open", cfg.revertPolicy # "never",
         h.halfOpen => h.until = 0,
         NEW g \in Outcomes(h, t, cfg)
  PROVE  g.halfOpen => g.until = 0
<1> DEFINE d == DecisionRead(h, t, "half-open")
<1>1. d \in Health /\ (d.halfOpen => d.until = 0)
  BY DEF Health, DecisionRead, MarkHalfOpen, HasExpired
<1>2. ASSUME NEW k \in Health, k.halfOpen => k.until = 0
      PROVE  /\ TryMarkProbeLogged(k).halfOpen => TryMarkProbeLogged(k).until = 0
             /\ Close(k).halfOpen => Close(k).until = 0
  BY <1>2 DEF Health, TryMarkProbeLogged, Close
<1>3. CoolRoute(h, t, cfg).halfOpen = FALSE
  BY DEF CoolRoute, RecordFailure, Health
<1> HIDE DEF d
<1>4. QED
  BY <1>1, <1>2, <1>3 DEF Outcomes, ObserveSuccess, d

(***************************************************************************)
(* Why a suppression holds: an entry never outlasts the cooldown its       *)
(* failure count calls for, so the next booking can only extend it; and    *)
(* while the entry is there no episode is open for a success to close.     *)
(***************************************************************************)
SuppressionInv(h, t, cfg) ==
  IF cfg.revertPolicy = "never"
  THEN h.fails = 0 /\ h.until \in {0, Forever}
  ELSE IF cfg.recovery = "half-open"
       THEN h.until # 0 => /\ h.fails > 0
                           /\ ~h.halfOpen
                           /\ h.until <= t + EscalatedCooldownMs(cfg.cooldownMs, h.fails)
       ELSE h.fails = 0 /\ h.until <= t + cfg.cooldownMs

\* The invariant is kept, and no outcome shortens an active suppression or loses
\* its escalation.
LEMMA OutcomeSuppression ==
  ASSUME NEW h \in Health, NEW t \in Nat, NEW cfg, cfg.cooldownMs \in Nat,
         SuppressionInv(h, t, cfg),
         NEW g \in Outcomes(h, t, cfg)
  PROVE  /\ SuppressionInv(g, t, cfg)
         /\ IsSuppressed(h, t) => g.until >= h.until /\ g.fails >= h.fails
<1> DEFINE Keeps(k) == /\ k \in Health
                       /\ SuppressionInv(k, t, cfg)
                       /\ IsSuppressed(h, t) => k.until >= h.until /\ k.fails >= h.fails
<1>1. CASE g # CoolRoute(h, t, cfg)
  <2>1. Keeps(h)
    BY DEF Health
  <2>2. ASSUME NEW k, Keeps(k), NEW r PROVE Keeps(DecisionRead(k, t, r))
    <3> DEFINE d == DecisionRead(k, t, r)
    <3>1. CASE ~HasExpired(k, t)
      BY <2>2, <3>1 DEF DecisionRead
    <3>2. CASE HasExpired(k, t)
      <4>1. d \in Health /\ d.until = 0 /\ d.fails = k.fails
        BY <2>2, <3>2 DEF DecisionRead, MarkHalfOpen, Health
      <4>2. ~IsSuppressed(h, t)
        BY <2>2, <3>2 DEF HasExpired, IsSuppressed, Health
      <4> HIDE DEF d
      <4>3. SuppressionInv(d, t, cfg)
        BY <2>2, <4>1 DEF SuppressionInv
      <4>4. QED
        BY <4>1, <4>2, <4>3 DEF d
    <3>3. QED
      BY <3>1, <3>2
  <2>3. ASSUME NEW k, Keeps(k) PROVE Keeps(TryMarkProbeLogged(k))
    <3> DEFINE m == TryMarkProbeLogged(k)
    <3>1. /\ m \in Health /\ m.until = k.until /\ m.fails = k.fails
          /\ m.halfOpen = k.halfOpen
      BY <2>3 DEF TryMarkProbeLogged, Health
    <3> HIDE DEF m
    <3>2. QED
      BY <2>3, <3>1 DEF SuppressionInv, m
  <2>4. ASSUME NEW k, Keeps(k) PROVE Keeps(Close(k))
    <3> DEFINE c == Close(k)
    <3>1. CASE ~k.halfOpen
      BY <2>4, <3>1 DEF Close
    <3>2. CASE k.halfOpen
      <4>1. c \in Health /\ c.until = k.until /\ c.fails = 0
        BY <2>4, <3>2 DEF Close, Health
      <4> HIDE DEF c
      <4>2. SuppressionInv(c, t, cfg)
        BY <2>4, <3>2, <4>1 DEF SuppressionInv
      <4>3. k.fails = 0 \/ k.until = 0
        BY <2>4, <3>2 DEF SuppressionInv
      <4>4. IsSuppressed(h, t) => c.until >= h.until /\ c.fails >= h.fails
        BY <2>4, <4>1, <4>3 DEF IsSuppressed, Health
      <4>5. QED
        BY <4>1, <4>2, <4>4 DEF c
    <3>3. QED
      BY <3>1, <3>2
  <2> HIDE DEF Keeps
  <2>5. Keeps(g)
    BY <1>1, <2>1, <2>2, <2>3, <2>4 DEF Outcomes, ObserveSuccess
  <2>6. QED
    BY <2>5 DEF Keeps
<1> USE DEF Health, IsSuppressed
<1>2. CASE g = CoolRoute(h, t, cfg)
  <2>1. CASE cfg.revertPolicy = "never"
    BY <1>2, <2>1, HealthAssumption DEF CoolRoute, SuppressionInv
  <2>2. CASE cfg.revertPolicy # "never" /\ cfg.recovery = "half-open"
    <3> DEFINE e == EscalatedCooldownMs(cfg.cooldownMs, h.fails)
               f == EscalatedCooldownMs(cfg.cooldownMs, h.fails + 1)
    <3>1. f \in Nat
      BY EscalationMonotone
    <3>2. h.fails > 0 => e \in Nat /\ e <= f
      BY EscalationMonotone
    <3>3. g.until = t + f /\ g.fails = h.fails + 1 /\ g.halfOpen = FALSE
      BY <1>2, <2>2 DEF CoolRoute, RecordFailure
    <3> HIDE DEF e, f
    <3>4. SuppressionInv(g, t, cfg)
      BY <2>2, <3>1, <3>3 DEF SuppressionInv, f
    <3>5. h.until # 0 => h.fails > 0 /\ h.until <= t + e
      BY <2>2 DEF SuppressionInv, e
    <3>6. QED
      BY <3>1, <3>2, <3>3, <3>4, <3>5
  <2>3. CASE cfg.revertPolicy # "never" /\ cfg.recovery # "half-open"
    BY <1>2, <2>3 DEF CoolRoute, SuppressionInv
  <2>4. QED
    BY <2>1, <2>2, <2>3
<1>3. QED
  BY <1>1, <1>2

-----------------------------------------------------------------------------
(* The walks.                                                              *)

Inv == TypeOK /\ WalksCoherent

-----------------------------------------------------------------------------
(* One walk's record.                                                      *)

\* A walk that is over keeps what its caller has seen of it.
LEMMA OverCoherent ==
  ASSUME NEW rec \in WalkType, AttemptsCoherent(rec), NEW pc \in Finished
  PROVE  Over(rec, pc) \in WalkType /\ WalkCoherent(Over(rec, pc))
<1> DEFINE new == Over(rec, pc)
<1>1. new \in WalkType
  BY DEF Over, WalkType
<1>2. /\ new.pc = pc /\ new.injected = rec.injected /\ new.owner = rec.owner
      /\ new.attempts = rec.attempts /\ new.cfg = rec.cfg /\ new.source = rec.source
      /\ new.committed = FALSE
  BY DEF Over, WalkType
<1> HIDE DEF new
<1>3. pc \notin Waiting /\ pc \notin Attempting /\ pc \notin {"idle", "ready", "probing", "streaming"}
  BY DEF Finished, Waiting, Attempting
<1>4. AttemptsCoherent(new)
  BY <1>2 DEF AttemptsCoherent, Last
<1>5. QED
  BY <1>1, <1>2, <1>3, <1>4 DEF WalkCoherent, new

\* Moving on to a route the walk has not tried keeps its record coherent.
LEMMA ChosenCoherent ==
  ASSUME NEW rec \in WalkType, AttemptsCoherent(rec), NEW r \in Route,
         rec.source = {}, ~rec.committed,
         r \notin Tried(rec), Tried(rec) \subseteq rec.failed,
         Len(rec.attempts) = rec.switches,
         rec.switches <= rec.cfg.maxSwitchesPerStep
  PROVE  Chosen(rec, r) \in WalkType /\ WalkCoherent(Chosen(rec, r))
<1> DEFINE new == Chosen(rec, r)
           n   == Len(rec.attempts)
<1>1. rec.attempts \in Seq(Route) /\ rec.switches \in Nat
  BY DEF WalkType
<1>2. new \in WalkType
  <2>1. Append(rec.attempts, r) \in Seq(Route)
    BY <1>1
  <2>2. new = [rec EXCEPT !.pc = "switching", !.target = r, !.code = NoCode,
                          !.attempts = Append(rec.attempts, r)]
    BY DEF Chosen
  <2>3. "switching" \in {"idle"} \cup Waiting \cup Finished
    BY DEF Waiting
  <2> HIDE DEF new
  <2>4. QED
    BY <2>1, <2>2, <2>3 DEF WalkType
<1>3. /\ new.pc = "switching" /\ new.injected = rec.injected /\ new.owner = rec.owner
      /\ new.attempts = Append(rec.attempts, r) /\ new.cfg = rec.cfg
      /\ new.source = {} /\ new.committed = FALSE /\ new.target = r
      /\ new.failed = rec.failed /\ new.switches = rec.switches
  BY DEF Chosen, WalkType
<1>4. /\ Len(new.attempts) = n + 1 /\ n \in Nat
      /\ new.attempts[n + 1] = r
      /\ \A i \in 1 .. n : new.attempts[i] = rec.attempts[i]
      /\ DOMAIN new.attempts = 1 .. n + 1 /\ DOMAIN rec.attempts = 1 .. n
  BY <1>1, <1>3
<1>5. \A i, j \in DOMAIN new.attempts : new.attempts[i] = new.attempts[j] => i = j
  <2>1. \A i \in 1 .. n : new.attempts[i] # r
    BY <1>4 DEF Tried
  <2>2. \A i \in 1 .. n + 1 : i = n + 1 \/ i \in 1 .. n
    BY <1>4
  <2>3. \A i, j \in 1 .. n : new.attempts[i] = new.attempts[j] => i = j
    BY <1>4 DEF AttemptsCoherent
  <2> HIDE DEF new, n
  <2>4. QED
    BY <1>4, <2>1, <2>2, <2>3
<1>6. Tried(new) \subseteq new.failed \cup {new.target}
  <2>1. \A i \in 1 .. n : new.attempts[i] \in rec.failed
    BY <1>4 DEF Tried
  <2> HIDE DEF new, n
  <2>2. \A i \in 1 .. n + 1 : new.attempts[i] \in rec.failed \cup {r}
    BY <1>4, <2>1
  <2>3. QED
    BY <1>3, <1>4, <2>2 DEF Tried
<1>7. new.attempts # <<>> /\ Last(new) = r
  <2> HIDE DEF new
  <2>1. QED
    BY <1>4 DEF Last
<1>8. AttemptsCoherent(new)
  <2>1. rec.cfg.maxSwitchesPerStep \in Nat
    BY WalkAssumption DEF WalkType
  <2>2. rec.injected => rec.owner \in Session
    BY DEF AttemptsCoherent
  <2> HIDE DEF new
  <2>3. QED
    BY <1>1, <1>3, <1>4, <1>5, <2>1, <2>2 DEF AttemptsCoherent
<1> HIDE DEF new
<1>9. QED
  BY <1>1, <1>2, <1>3, <1>4, <1>6, <1>7, <1>8 DEF WalkCoherent, Attempting, Waiting, new

\* The condition under which a walk looks for its next route.
Searching(rec) ==
  /\ AttemptsCoherent(rec)
  /\ rec.target \in Route
  /\ ~rec.committed
  /\ IF rec.code = NoCode
     THEN BeforeFirstAttempt(rec)
     ELSE /\ rec.source = {}
          /\ Tried(rec) \subseteq rec.failed
          /\ Len(rec.attempts) = rec.switches + 1
          /\ rec.switches < rec.cfg.maxSwitchesPerStep

\* Replacing one walk's record by a coherent one keeps all of them coherent.
LEMMA PutCoherent ==
  ASSUME Inv, NEW w \in Walk, NEW rec \in WalkType, WalkCoherent(rec), Put(w, rec)
  PROVE  walk' \in [Walk -> WalkType] /\ WalksCoherent'
<1>1. walk \in [Walk -> WalkType]
  BY DEF Inv, TypeOK
<1>2. walk' \in [Walk -> WalkType]
  BY <1>1 DEF Put
<1>3. \A v \in Walk : WalkCoherent(walk'[v])
  <2>1. \A v \in Walk : walk'[v] = rec \/ walk'[v] = walk[v]
    BY <1>1 DEF Put
  <2>2. QED
    BY <2>1 DEF Inv, WalksCoherent
<1>4. QED
  BY <1>2, <1>3 DEF WalksCoherent

\* A policy answer admits routes only.
LEMMA AdmittedRoutes ==
  ASSUME TypeOK, NEW s \in Session
  PROVE  Admitted(policy[s]) \subseteq Route
<1>1. policy[s] \in Policy
  BY DEF TypeOK
<1>2. QED
  BY <1>1, WalkAssumption DEF Admitted

\* Whatever the memory, the catalog and the policy answer, the search leaves the
\* walk with a route it has not tried, or over.
LEMMA AdvanceCoherent ==
  ASSUME Inv, NEW w \in Walk, NEW rec \in WalkType, Searching(rec),
         NEW mem, NEW down, Advance(w, rec, mem, down)
  PROVE  /\ \E new \in WalkType : WalkCoherent(new) /\ Put(w, new)
         /\ blocked' \subseteq Session
<1> DEFINE alive == Survivors(rec, mem, down)
           next  == Permitted(rec, alive)
           seen  == [rec EXCEPT !.admitted =
                       IF rec.injected THEN Admitted(policy[rec.owner]) ELSE @]
           r     == ResolveCandidate(rec.entries[Least(next)], rec.target)
<1>1. rec.injected => rec.owner \in Session
  BY DEF Searching, AttemptsCoherent
<1>2. seen \in WalkType
  <2>1. CASE rec.injected
    <3>1. Admitted(policy[rec.owner]) \in SUBSET Route
      BY <1>1, <2>1, AdmittedRoutes DEF Inv
    <3>2. seen = [rec EXCEPT !.admitted = Admitted(policy[rec.owner])]
      BY <2>1
    <3> HIDE DEF seen
    <3>3. QED
      BY <3>1, <3>2 DEF WalkType
  <2>2. CASE ~rec.injected
    BY <2>2 DEF WalkType
  <2>3. QED
    BY <2>1, <2>2
<1>3. /\ seen.injected = rec.injected /\ seen.owner = rec.owner /\ seen.cfg = rec.cfg
      /\ seen.attempts = rec.attempts /\ seen.source = rec.source /\ seen.failed = rec.failed
      /\ seen.switches = rec.switches /\ seen.committed = rec.committed
  BY DEF WalkType
<1> HIDE DEF seen
<1>4. AttemptsCoherent(seen)
  BY <1>3 DEF Searching, AttemptsCoherent, Last
<1>5. Tried(seen) = Tried(rec)
  BY <1>3 DEF Tried
<1>6. rec.switches \in Nat /\ rec.cfg.maxSwitchesPerStep \in Nat
  BY WalkAssumption DEF WalkType
<1>7. CASE next # {} /\ Put(w, Chosen(SwitchCounted(seen), r)) /\ UNCHANGED blocked
  <2> DEFINE counted == SwitchCounted(seen)
  <2>1. r \in Route /\ r \notin rec.failed
    <3>1. next \subseteq alive
      BY DEF Permitted
    <3>2. rec.entries \in Seq(Entry) /\ rec.target \in Route
      BY DEF WalkType, Searching
    <3> HIDE DEF next
    <3>3. QED
      BY <1>7, <3>1, <3>2, SurvivorIsFresh DEF Survivors
  <2>2. counted \in WalkType
    <3> DEFINE n == IF seen.code = NoCode THEN seen.switches ELSE seen.switches + 1
    <3>1. n \in Nat
      BY <1>3, <1>6
    <3>2. counted = [seen EXCEPT !.switches = n]
      BY DEF SwitchCounted
    <3> HIDE DEF n, counted
    <3>3. QED
      BY <1>2, <3>1, <3>2 DEF WalkType
  <2>3. /\ counted.injected = rec.injected /\ counted.owner = rec.owner
        /\ counted.cfg = rec.cfg /\ counted.attempts = rec.attempts
        /\ counted.source = rec.source /\ counted.failed = rec.failed
        /\ counted.committed = rec.committed
        /\ counted.switches = IF seen.code = NoCode THEN rec.switches ELSE rec.switches + 1
    BY <1>2, <1>3 DEF SwitchCounted, WalkType
  <2>4. seen.code = rec.code
    BY DEF seen, WalkType
  <2> HIDE DEF counted, r
  <2>5. AttemptsCoherent(counted) /\ Tried(counted) = Tried(rec)
    BY <2>3 DEF Searching, AttemptsCoherent, Last, Tried
  <2>6. /\ counted.source = {} /\ ~counted.committed
        /\ Tried(counted) \subseteq counted.failed
        /\ Len(counted.attempts) = counted.switches
        /\ counted.switches <= counted.cfg.maxSwitchesPerStep
    <3>1. CASE rec.code = NoCode
      BY <1>6, <2>3, <2>4, <2>5, <3>1 DEF Searching, BeforeFirstAttempt, Tried
    <3>2. CASE rec.code # NoCode
      BY <1>6, <2>3, <2>4, <2>5, <3>2 DEF Searching
    <3>3. QED
      BY <3>1, <3>2
  <2>7. r \notin Tried(counted)
    BY <2>1, <2>3, <2>6
  <2>8. Chosen(counted, r) \in WalkType /\ WalkCoherent(Chosen(counted, r))
    BY <2>1, <2>2, <2>5, <2>6, <2>7, ChosenCoherent
  <2>9. QED
    BY <1>7, <2>8 DEF counted, Inv, TypeOK
<1>8. CASE /\ Exhausted(rec, next)
           /\ Put(w, Over(seen, "done"))
           /\ blocked' = IF IsBlocked(rec, alive) THEN blocked \cup {rec.owner} ELSE blocked
  <2>1. Over(seen, "done") \in WalkType /\ WalkCoherent(Over(seen, "done"))
    BY <1>2, <1>4, OverCoherent DEF Finished
  <2>2. blocked' \subseteq Session
    BY <1>1, <1>8 DEF IsBlocked, Inv, TypeOK
  <2>3. QED
    BY <1>8, <2>1, <2>2
<1>9. CASE /\ next = {} /\ rec.code = NoCode
           /\ Put(w, IF HeadRevoked(rec) THEN Over(seen, "refused")
                                         ELSE Chosen(seen, rec.target))
           /\ UNCHANGED blocked
  <2>1. Over(seen, "refused") \in WalkType /\ WalkCoherent(Over(seen, "refused"))
    BY <1>2, <1>4, OverCoherent DEF Finished
  <2>2. /\ seen.source = {} /\ ~seen.committed /\ Tried(seen) = {}
        /\ Len(seen.attempts) = seen.switches
        /\ seen.switches <= seen.cfg.maxSwitchesPerStep
    BY <1>3, <1>6, <1>9 DEF Searching, BeforeFirstAttempt, Tried
  <2>3. Chosen(seen, rec.target) \in WalkType /\ WalkCoherent(Chosen(seen, rec.target))
    BY <1>2, <1>4, <2>2, ChosenCoherent DEF Searching
  <2>4. QED
    BY <1>9, <2>1, <2>3 DEF Inv, TypeOK
<1>10. QED
  BY <1>7, <1>8, <1>9 DEF Advance, seen

-----------------------------------------------------------------------------
(* The memory.                                                             *)

\* A step keeps the memory a memory, and changes a route's entry by one of the
\* outcomes or, when the agent is disposed of, to nothing.
HealthMoves ==
  /\ health' \in [Session -> MemoryType]
  /\ \A s \in Session, r \in Route :
       \/ s \notin known' /\ health'[s][r] = Fresh
       \/ \E cfg \in Config : health'[s][r] \in Outcomes(health[s][r], now, cfg)

\* What a session without a memory reads as is a memory entry.
LEMMA FreshType == Fresh \in Health
  BY DEF Fresh, Health

\* The memory a walk reads is well typed, also for a call without a session.
LEMMA MemoryTyped ==
  ASSUME TypeOK, NEW s \in Session \cup {NoSession}
  PROVE  Memory(s) \in MemoryType
<1>1. CASE s \in Session
  BY <1>1 DEF Memory, TypeOK
<1>2. CASE s \notin Session
  BY <1>2, FreshType DEF Memory, MemoryType
<1>3. QED
  BY <1>1, <1>2

\* A memory whose every entry is an outcome of the owner's memory.
Follows(mem, old, cfg) ==
  /\ mem = [r \in Route |-> mem[r]]
  /\ \A r \in Route : mem[r] \in Outcomes(old[r], now, cfg)

\* A memory whose entries are outcomes of a memory's entries is a memory.
LEMMA FollowsType ==
  ASSUME TypeOK, NEW old \in MemoryType, NEW cfg \in Config, NEW mem,
         Follows(mem, old, cfg)
  PROVE  mem \in MemoryType
<1>1. now \in Nat /\ cfg.cooldownMs \in Nat
  BY WalkAssumption DEF TypeOK
<1>2. \A r \in Route : mem[r] \in Health
  BY <1>1, OutcomeType DEF Follows, MemoryType
<1>3. QED
  BY <1>2 DEF Follows, MemoryType

\* Writing such a memory back is a step the memory may take.
LEMMA RememberMoves ==
  ASSUME TypeOK, NEW s \in Session \cup {NoSession}, NEW cfg \in Config, NEW mem,
         Follows(mem, Memory(s), cfg), Remember(s, mem)
  PROVE  HealthMoves
<1>1. health \in [Session -> MemoryType]
  BY DEF TypeOK
<1>2. CASE s \notin Session
  <2>1. health' = health
    BY <1>2 DEF Remember
  <2>2. \A q \in Session, r \in Route : health'[q][r] \in Outcomes(health[q][r], now, cfg)
    BY <2>1 DEF Outcomes
  <2>3. QED
    BY <1>1, <2>1, <2>2 DEF HealthMoves
<1>3. CASE s \in Session
  <2>1. mem \in MemoryType
    BY MemoryTyped, FollowsType
  <2>2. health' = [health EXCEPT ![s] = mem]
    BY <1>3 DEF Remember
  <2>3. ASSUME NEW q \in Session, NEW r \in Route
        PROVE  health'[q][r] \in Outcomes(health[q][r], now, cfg)
    <3>1. CASE q = s
      BY <1>1, <1>3, <2>2, <3>1 DEF Follows, Memory
    <3>2. CASE q # s
      BY <1>1, <2>2, <3>2 DEF Outcomes
    <3>3. QED
      BY <3>1, <3>2
  <2>4. QED
    BY <1>1, <2>1, <2>2, <2>3 DEF HealthMoves
<1>4. QED
  BY <1>2, <1>3

\* A step that leaves the memory alone.
LEMMA StillMoves ==
  ASSUME TypeOK, UNCHANGED health
  PROVE  HealthMoves
<1>1. config \in Config /\ health \in [Session -> MemoryType]
  BY DEF TypeOK
<1>2. \A s \in Session, r \in Route : health'[s][r] \in Outcomes(health[s][r], now, config)
  BY DEF Outcomes
<1>3. QED
  BY <1>1, <1>2 DEF HealthMoves

\* One entry set to an outcome, the others as they were.
LEMMA FollowsOne ==
  ASSUME NEW old \in MemoryType, NEW cfg, NEW t \in Route \cup {NoRoute}, NEW h,
         t \in Route => h \in Outcomes(old[t], now, cfg)
  PROVE  Follows([old EXCEPT ![t] = h], old, cfg)
<1> DEFINE mem == [old EXCEPT ![t] = h]
<1>1. \A r \in Route : mem[r] = IF r = t THEN h ELSE old[r]
  BY DEF MemoryType
<1>2. mem = [r \in Route |-> mem[r]]
  BY DEF MemoryType
<1> HIDE DEF mem
<1>3. \A r \in Route : mem[r] \in Outcomes(old[r], now, cfg)
  BY <1>1 DEF Outcomes
<1>4. QED
  BY <1>2, <1>3 DEF Follows, mem

\* The booking touches the failed route only.
LEMMA BookedFollows ==
  ASSUME TypeOK, NEW rec \in WalkType, NEW code
  PROVE  /\ Follows(BookedMemory(rec, code), Memory(rec.owner), rec.cfg)
         /\ \A r \in Route : r # rec.target => BookedMemory(rec, code)[r] = Memory(rec.owner)[r]
<1> DEFINE old == Memory(rec.owner)
<1>1. old \in MemoryType
  BY MemoryTyped DEF WalkType
<1>2. rec.target \in Route \cup {NoRoute}
  BY DEF WalkType
<1>3. CASE CoolsRoute(rec, code)
  <2>1. BookedMemory(rec, code) =
          [old EXCEPT ![rec.target] = CoolRoute(old[rec.target], now, rec.cfg)]
    BY <1>3 DEF BookedMemory
  <2>2. Follows(BookedMemory(rec, code), old, rec.cfg)
    <3> DEFINE h == CoolRoute(old[rec.target], now, rec.cfg)
    <3>1. h \in Outcomes(old[rec.target], now, rec.cfg)
      BY DEF Outcomes
    <3> HIDE DEF h, old
    <3>2. Follows([old EXCEPT ![rec.target] = h], old, rec.cfg)
      BY <1>1, <1>2, <3>1, FollowsOne
    <3>3. QED
      BY <2>1, <3>2 DEF h
  <2> HIDE DEF old
  <2>3. \A r \in Route : r # rec.target => BookedMemory(rec, code)[r] = old[r]
    BY <1>1, <2>1 DEF MemoryType
  <2>4. QED
    BY <2>2, <2>3 DEF old
<1>4. CASE ~CoolsRoute(rec, code)
  <2>1. BookedMemory(rec, code) = old
    BY <1>4 DEF BookedMemory
  <2> HIDE DEF old
  <2>2. \A r \in Route : old[r] \in Outcomes(old[r], now, rec.cfg)
    BY DEF Outcomes
  <2>3. old = [r \in Route |-> old[r]]
    BY <1>1 DEF MemoryType
  <2>4. QED
    BY <2>1, <2>2, <2>3 DEF Follows, old
<1>5. QED
  BY <1>3, <1>4

\* The search reads every entry but the one it starts from.
LEMMA ConsultFollows ==
  ASSUME NEW rec, NEW mem, NEW old, Follows(mem, old, rec.cfg),
         \A r \in Route : r # rec.target => mem[r] = old[r]
  PROVE  Follows(Consult(rec, mem), old, rec.cfg)
<1> DEFINE new == Consult(rec, mem)
<1>1. new = [r \in Route |-> new[r]]
  BY DEF Consult
<1>2. ASSUME NEW r \in Route
      PROVE  new[r] \in Outcomes(old[r], now, rec.cfg)
  <2>1. new[r] = mem[r] \/ (r # rec.target /\ new[r] = DecisionRead(mem[r], now, rec.cfg.recovery))
    BY DEF Consult
  <2> HIDE DEF new
  <2>2. QED
    BY <2>1 DEF Follows, Outcomes
<1>3. QED
  BY <1>1, <1>2 DEF Follows

-----------------------------------------------------------------------------
(* The steps.  Each of them keeps the invariant and moves the memory.      *)

StepSound == Inv' /\ HealthMoves

\* What a step of one walk has to show.
LEMMA WalkStepSound ==
  ASSUME Inv, NEW w \in Walk,
         \E new \in WalkType : WalkCoherent(new) /\ Put(w, new),
         HealthMoves,
         blocked' \subseteq Session, known' \subseteq Session,
         UNCHANGED <<now, config, policy, live>>
  PROVE  StepSound
<1>1. walk' \in [Walk -> WalkType] /\ WalksCoherent'
  BY PutCoherent
<1>2. health' \in [Session -> MemoryType]
  BY DEF HealthMoves
<1>3. TypeOK'
  BY <1>1, <1>2 DEF Inv, TypeOK
<1>4. QED
  BY <1>1, <1>3 DEF StepSound, Inv

\* Entering an attempt changes nothing the invariant relates.
LEMMA EnterSound ==
  ASSUME Inv, NEW w \in Walk, NEW rec \in WalkType, WalkCoherent(rec),
         rec.pc = "switching", NEW mem, Enter(w, rec, mem)
  PROVE  /\ \E new \in WalkType : WalkCoherent(new) /\ Put(w, new)
         /\ Remember(rec.owner, AdmitProbe(mem, rec))
<1> DEFINE b   == rec.owner \in known
           new == [rec EXCEPT !.pc = "adapting", !.held = b,
                              !.committed = FALSE, !.repaired = {}]
<1>1. Put(w, new) /\ Remember(rec.owner, AdmitProbe(mem, rec))
  BY DEF Enter
<1>2. b \in BOOLEAN
  OBVIOUS
<1>3. "adapting" \in {"idle"} \cup Waiting \cup Finished
  BY DEF Waiting
<1> HIDE DEF b
<1>4. new \in WalkType
  BY <1>2, <1>3 DEF WalkType
<1>5. /\ new.pc = "adapting" /\ new.injected = rec.injected /\ new.owner = rec.owner
      /\ new.attempts = rec.attempts /\ new.cfg = rec.cfg /\ new.source = rec.source
      /\ new.committed = FALSE /\ new.target = rec.target /\ new.failed = rec.failed
      /\ new.switches = rec.switches
  BY DEF WalkType
<1>6. ~rec.committed
  BY DEF WalkCoherent
<1> HIDE DEF new
<1>7. AttemptsCoherent(new) /\ Tried(new) = Tried(rec) /\ Last(new) = Last(rec)
  BY <1>5 DEF WalkCoherent, AttemptsCoherent, Last, Tried
<1>8. WalkCoherent(new)
  BY <1>5, <1>6, <1>7 DEF WalkCoherent, Attempting, Waiting
<1>9. QED
  BY <1>1, <1>4, <1>8

\* The record of a call that has not been made is well typed.
LEMMA IdleTyped == IdleWalk \in WalkType
<1>1. (CHOOSE c \in Config : TRUE) \in Config
  BY WalkAssumption
<1>2. <<>> \in Seq(Entry) /\ <<>> \in Seq(Route)
  OBVIOUS
<1>3. QED
  BY <1>1, <1>2 DEF IdleWalk, WalkType

\* The stream() call: a refused call is over, the others wait with a head.
LEMMA StartSound ==
  ASSUME Inv, NEW w \in Walk, NEW s \in Session \cup {NoSession},
         NEW tail \in RootTails(s), NEW controls \in SUBSET Control, NEW llmUp,
         Start(w, s, tail, controls, llmUp)
  PROVE  StepSound
<1> DEFINE entries == EntriesOf(s, tail)
           inj == s \in live \cap Injected
           adm == HeadAdmission(s)
           started == [IdleWalk EXCEPT !.owner = s, !.cfg = config, !.entries = entries,
                    !.injected = inj, !.base = controls, !.admitted = adm]
<1>1. config \in Config
  BY DEF Inv, TypeOK
<1>2. entries \in Seq(Entry)
  <2>1. tail \in Seq(Entry)
    BY <1>1, WalkAssumption DEF RootTails
  <2>2. \A r \in DOMAIN config.roles : config.roles[r].chain \in Seq(Entry)
    BY <1>1, WalkAssumption
  <2>3. QED
    BY <2>1, <2>2, RoleChainIsChain DEF EntriesOf
<1>3. inj \in BOOLEAN /\ (inj => s \in Session)
  BY WalkAssumption
<1>4. adm \in SUBSET Route
  BY <1>3, AdmittedRoutes DEF HeadAdmission, Inv
<1> HIDE DEF entries, inj, adm
<1>5. started \in WalkType
  BY <1>1, <1>2, <1>3, <1>4, IdleTyped DEF WalkType
<1>6. /\ started.owner = s /\ started.cfg = config /\ started.injected = inj
      /\ started.pc = "idle" /\ started.attempts = <<>> /\ started.source = {}
      /\ started.failed = {} /\ started.switches = 0 /\ started.code = NoCode
      /\ started.committed = FALSE
  BY IdleTyped DEF WalkType, IdleWalk
<1>7. config.maxSwitchesPerStep \in Nat
  BY <1>1, WalkAssumption
<1> HIDE DEF started
<1>8. AttemptsCoherent(started)
  BY <1>3, <1>6, <1>7 DEF AttemptsCoherent
<1>9. \E new \in WalkType : WalkCoherent(new) /\ Put(w, new)
  <2>1. CASE Refuses(s, entries) \/ ~llmUp
    <3>1. Put(w, Over(started, "refused"))
      BY <2>1 DEF Start, started, entries, inj, adm
    <3>2. QED
      BY <1>5, <1>8, <3>1, OverCoherent DEF Finished
  <2>2. CASE ~(Refuses(s, entries) \/ ~llmUp)
    <3> DEFINE head == FirstDispatchableExactHead(entries, adm)
               new == [started EXCEPT !.pc = "ready", !.target = head]
    <3>1. Put(w, new)
      BY <2>2 DEF Start, started, entries, inj, adm
    <3>2. head \in Route
      BY <1>2, <1>4, <2>2, HeadIsAllowed DEF Refuses, adm
    <3>3. "ready" \in {"idle"} \cup Waiting \cup Finished
      BY DEF Waiting
    <3> HIDE DEF head
    <3>4. new \in WalkType
      BY <1>5, <3>2, <3>3 DEF WalkType
    <3>5. /\ new.owner = s /\ new.cfg = config /\ new.injected = inj
          /\ new.pc = "ready" /\ new.attempts = <<>> /\ new.source = {}
          /\ new.failed = {} /\ new.switches = 0 /\ new.code = NoCode
          /\ new.committed = FALSE /\ new.target = head
      BY <1>5, <1>6 DEF WalkType
    <3> HIDE DEF new
    <3>6. AttemptsCoherent(new)
      BY <1>3, <1>7, <3>5 DEF AttemptsCoherent
    <3>7. WalkCoherent(new)
      BY <3>2, <3>5, <3>6 DEF WalkCoherent, BeforeFirstAttempt, Attempting
    <3>8. QED
      BY <3>1, <3>4, <3>7
  <2>3. QED
    BY <2>1, <2>2
<1>10. HealthMoves
  BY StillMoves DEF Start, Inv
<1>11. QED
  BY <1>9, <1>10, WalkStepSound DEF Start, Inv, TypeOK

\* What the walk under way looks like.
LEMMA WalkTyped ==
  ASSUME Inv, NEW w \in Walk
  PROVE  /\ walk[w] \in WalkType /\ WalkCoherent(walk[w])
         /\ walk[w].cfg \in Config /\ walk[w].owner \in Session \cup {NoSession}
         /\ blocked \subseteq Session /\ known \subseteq Session
  BY DEF Inv, TypeOK, WalksCoherent, WalkType

\* A walk that waits to begin, or for the catalog, is where a search may start.
LEMMA ReadySearching ==
  ASSUME NEW rec \in WalkType, WalkCoherent(rec), rec.pc \in {"ready", "probing"}
  PROVE  Searching(rec)
  BY DEF Searching, WalkCoherent, Waiting, BeforeFirstAttempt

\* The first attempt at a head that is not cooled.
LEMMA BeginAtHeadSound ==
  ASSUME Inv, NEW w \in Walk, BeginAtHead(w)
  PROVE  StepSound
<1> DEFINE rec == walk[w]
           old == Memory(rec.owner)
           t   == rec.target
           d   == DecisionRead(old[t], now, rec.cfg.recovery)
           mem == [old EXCEPT ![t] = d]
           new == Chosen(rec, t)
<1>1. /\ rec \in WalkType /\ WalkCoherent(rec) /\ rec.cfg \in Config
      /\ rec.owner \in Session \cup {NoSession}
  BY WalkTyped
<1>2. rec.pc = "ready" /\ Enter(w, new, mem)
  BY DEF BeginAtHead
<1>3. old \in MemoryType
  BY <1>1, MemoryTyped DEF Inv
<1>4. rec.cfg.maxSwitchesPerStep \in Nat
  BY <1>1, WalkAssumption
<1>5. new \in WalkType /\ WalkCoherent(new)
  <2>1. /\ AttemptsCoherent(rec) /\ t \in Route /\ rec.source = {} /\ ~rec.committed
        /\ rec.attempts = <<>> /\ rec.failed = {} /\ rec.switches = 0
    BY <1>1, <1>2 DEF WalkCoherent, Waiting, BeforeFirstAttempt
  <2>2. Tried(rec) = {}
    BY <2>1 DEF Tried
  <2> HIDE DEF rec, t
  <2>3. QED
    BY <1>1, <1>4, <2>1, <2>2, ChosenCoherent DEF new
<1>6. new.pc = "switching" /\ new.owner = rec.owner /\ new.target = t /\ new.cfg = rec.cfg
  BY <1>1 DEF Chosen, WalkType
<1> HIDE DEF new
<1>7. /\ \E n \in WalkType : WalkCoherent(n) /\ Put(w, n)
      /\ Remember(rec.owner, AdmitProbe(mem, new))
  BY <1>2, <1>5, <1>6, EnterSound
<1>8. HealthMoves
  <2>1. t \in Route
    BY <1>1, <1>2 DEF WalkCoherent, Waiting
  <2>2. CASE rec.cfg.recovery = "half-open"
    <3> DEFINE h == TryMarkProbeLogged(d)
    <3>1. AdmitProbe(mem, new) = [old EXCEPT ![t] = h]
      <4> HIDE DEF d, old, rec, t
      <4>1. mem[t] = d
        BY <1>3, <2>1 DEF MemoryType
      <4>2. AdmitProbe(mem, new) = [mem EXCEPT ![t] = TryMarkProbeLogged(mem[t])]
        BY <1>6, <2>2 DEF AdmitProbe
      <4>3. QED
        BY <1>3, <4>1, <4>2 DEF MemoryType
    <3>2. h \in Outcomes(old[t], now, rec.cfg)
      BY DEF Outcomes
    <3> HIDE DEF h, old, rec, t
    <3>3. Follows([old EXCEPT ![t] = h], old, rec.cfg)
      BY <1>3, <2>1, <3>2, FollowsOne
    <3>4. QED
      BY <1>1, <1>7, <3>1, <3>3, RememberMoves DEF Inv, old
  <2>3. CASE rec.cfg.recovery # "half-open"
    <3>1. AdmitProbe(mem, new) = mem
      BY <1>6, <2>3 DEF AdmitProbe
    <3>2. d \in Outcomes(old[t], now, rec.cfg)
      BY DEF Outcomes
    <3> HIDE DEF d, old, rec, t
    <3>3. Follows(mem, old, rec.cfg)
      BY <1>3, <2>1, <3>2, FollowsOne
    <3>4. QED
      BY <1>1, <1>7, <3>1, <3>3, RememberMoves DEF Inv, old
  <2>4. QED
    BY <2>2, <2>3
<1>9. QED
  BY <1>7, <1>8, WalkStepSound, WalkTyped DEF BeginAtHead

\* The search, with or without an await of the catalog.
LEMMA AdvanceSound ==
  ASSUME Inv, NEW w \in Walk, NEW rec \in WalkType, Searching(rec),
         NEW mem, Follows(mem, Memory(rec.owner), rec.cfg),
         \A r \in Route : r # rec.target => mem[r] = Memory(rec.owner)[r],
         NEW down, Advance(w, rec, mem, down)
  PROVE  /\ \E new \in WalkType : WalkCoherent(new) /\ Put(w, new)
         /\ HealthMoves
         /\ blocked' \subseteq Session
<1>1. rec.owner \in Session \cup {NoSession} /\ rec.cfg \in Config
  BY DEF WalkType
<1>2. Follows(Consult(rec, mem), Memory(rec.owner), rec.cfg)
  BY ConsultFollows
<1>3. Remember(rec.owner, Consult(rec, mem))
  BY DEF Advance
<1>4. HealthMoves
  BY <1>1, <1>2, <1>3, RememberMoves DEF Inv
<1>5. QED
  BY <1>4, AdvanceCoherent

\* advanceFrom, whether or not it has to wait for the catalog.
LEMMA SearchSound ==
  ASSUME Inv, NEW w \in Walk, NEW rec \in WalkType, Searching(rec),
         NEW mem, Follows(mem, Memory(rec.owner), rec.cfg),
         \A r \in Route : r # rec.target => mem[r] = Memory(rec.owner)[r],
         Search(w, rec, mem)
  PROVE  /\ \E new \in WalkType : WalkCoherent(new) /\ Put(w, new)
         /\ HealthMoves
         /\ blocked' \subseteq Session
<1>1. CASE NeedsProbe(rec)
  <2> DEFINE new == [rec EXCEPT !.pc = "probing"]
  <2>1. Put(w, new) /\ Remember(rec.owner, mem) /\ UNCHANGED blocked
    BY <1>1 DEF Search
  <2>2. "probing" \in {"idle"} \cup Waiting \cup Finished
    BY DEF Waiting
  <2>3. new \in WalkType
    BY <2>2 DEF WalkType
  <2>4. /\ new.pc = "probing" /\ new.injected = rec.injected /\ new.owner = rec.owner
        /\ new.attempts = rec.attempts /\ new.cfg = rec.cfg /\ new.source = rec.source
        /\ new.committed = rec.committed /\ new.target = rec.target
        /\ new.failed = rec.failed /\ new.switches = rec.switches /\ new.code = rec.code
    BY DEF WalkType
  <2> HIDE DEF new
  <2>5. AttemptsCoherent(new) /\ Tried(new) = Tried(rec)
    BY <2>4 DEF Searching, AttemptsCoherent, Last, Tried
  <2>6. WalkCoherent(new)
    BY <2>4, <2>5 DEF Searching, WalkCoherent, BeforeFirstAttempt, Attempting
  <2>7. rec.owner \in Session \cup {NoSession} /\ rec.cfg \in Config
    BY DEF WalkType
  <2>8. HealthMoves
    BY <2>1, <2>7, RememberMoves DEF Inv
  <2>9. QED
    BY <2>1, <2>3, <2>6, <2>8 DEF Inv, TypeOK
<1>2. CASE ~NeedsProbe(rec)
  BY <1>2, AdvanceSound DEF Search
<1>3. QED
  BY <1>1, <1>2

\* The owner's memory follows itself.
LEMMA MemoryFollows ==
  ASSUME TypeOK, NEW s \in Session \cup {NoSession}, NEW cfg
  PROVE  Follows(Memory(s), Memory(s), cfg)
<1> DEFINE old == Memory(s)
<1>1. old \in MemoryType
  BY MemoryTyped
<1> HIDE DEF old
<1>2. old = [r \in Route |-> old[r]]
  BY <1>1 DEF MemoryType
<1>3. \A r \in Route : old[r] \in Outcomes(old[r], now, cfg)
  BY DEF Outcomes
<1>4. QED
  BY <1>2, <1>3 DEF Follows, old

\* The cooled-head re-entry.
LEMMA BeginPastCooledHeadSound ==
  ASSUME Inv, NEW w \in Walk, BeginPastCooledHead(w)
  PROVE  StepSound
<1> DEFINE rec == walk[w]
<1>1. rec \in WalkType /\ WalkCoherent(rec) /\ rec.owner \in Session \cup {NoSession}
  BY WalkTyped
<1>2. rec.pc = "ready" /\ Search(w, rec, Memory(rec.owner))
  BY DEF BeginPastCooledHead
<1>3. UNCHANGED <<now, config, policy, live, known>>
  BY DEF BeginPastCooledHead
<1>4. Searching(rec)
  BY <1>1, <1>2, ReadySearching
<1>5. Follows(Memory(rec.owner), Memory(rec.owner), rec.cfg)
  BY <1>1, MemoryFollows DEF Inv
<1> HIDE DEF rec
<1>6. /\ \E new \in WalkType : WalkCoherent(new) /\ Put(w, new)
      /\ HealthMoves /\ blocked' \subseteq Session
  BY <1>1, <1>2, <1>4, <1>5, SearchSound
<1>7. QED
  BY <1>3, <1>6, WalkStepSound, WalkTyped

\* The search resumed by the catalog's answer.
LEMMA ProbeAnswersSound ==
  ASSUME Inv, NEW w \in Walk, NEW down, ProbeAnswers(w, down)
  PROVE  StepSound
<1> DEFINE rec == walk[w]
<1>1. rec \in WalkType /\ WalkCoherent(rec) /\ rec.owner \in Session \cup {NoSession}
  BY WalkTyped
<1>2. rec.pc = "probing" /\ Advance(w, rec, Memory(rec.owner), down)
  BY DEF ProbeAnswers
<1>3. UNCHANGED <<now, config, policy, live, known>>
  BY DEF ProbeAnswers
<1>4. Searching(rec)
  BY <1>1, <1>2, ReadySearching
<1>5. Follows(Memory(rec.owner), Memory(rec.owner), rec.cfg)
  BY <1>1, MemoryFollows DEF Inv
<1> HIDE DEF rec
<1>6. /\ \E new \in WalkType : WalkCoherent(new) /\ Put(w, new)
      /\ HealthMoves /\ blocked' \subseteq Session
  BY <1>1, <1>2, <1>4, <1>5, AdvanceSound
<1>7. QED
  BY <1>3, <1>6, WalkStepSound, WalkTyped

\* The top of the attempt loop.
LEMMA AttemptSound ==
  ASSUME Inv, NEW w \in Walk, Attempt(w)
  PROVE  StepSound
<1> DEFINE rec == walk[w]
           old == Memory(rec.owner)
           t   == rec.target
           h   == TryMarkProbeLogged(old[t])
<1>1. /\ rec \in WalkType /\ WalkCoherent(rec) /\ rec.cfg \in Config
      /\ rec.owner \in Session \cup {NoSession}
  BY WalkTyped
<1>2. rec.pc = "switching" /\ Enter(w, rec, old)
  BY DEF Attempt
<1>3. UNCHANGED <<now, config, policy, live, known, blocked>>
  BY DEF Attempt
<1>4. t \in Route
  BY <1>1, <1>2 DEF WalkCoherent, Waiting
<1>5. old \in MemoryType
  BY <1>1, MemoryTyped DEF Inv
<1>6. /\ \E new \in WalkType : WalkCoherent(new) /\ Put(w, new)
      /\ Remember(rec.owner, AdmitProbe(old, rec))
  <2> HIDE DEF rec, old
  <2>1. QED
    BY <1>1, <1>2, EnterSound
<1>7. Follows(AdmitProbe(old, rec), old, rec.cfg)
  <2>1. CASE rec.cfg.recovery = "half-open"
    <3>1. AdmitProbe(old, rec) = [old EXCEPT ![t] = h]
      BY <2>1 DEF AdmitProbe
    <3>2. h \in Outcomes(old[t], now, rec.cfg)
      BY DEF Outcomes
    <3> HIDE DEF h, old, rec, t
    <3>3. Follows([old EXCEPT ![t] = h], old, rec.cfg)
      BY <1>4, <1>5, <3>2, FollowsOne
    <3>4. QED
      BY <3>1, <3>3
  <2>2. CASE rec.cfg.recovery # "half-open"
    <3>1. AdmitProbe(old, rec) = old
      BY <2>2 DEF AdmitProbe
    <3>2. QED
      BY <1>1, <3>1, MemoryFollows DEF Inv
  <2>3. QED
    BY <2>1, <2>2
<1>8. HealthMoves
  <2> HIDE DEF rec
  <2>1. QED
    BY <1>1, <1>6, <1>7, RememberMoves DEF Inv
<1>9. QED
  BY <1>3, <1>6, <1>8, WalkStepSound, WalkTyped

\* A record that differs in nothing the invariant relates.
LEMMA SameCoherent ==
  ASSUME NEW rec \in WalkType, WalkCoherent(rec), NEW new \in WalkType,
         new.pc = "streaming", rec.pc \in {"adapting", "streaming"},
         new.injected = rec.injected, new.owner = rec.owner,
         new.attempts = rec.attempts, new.cfg = rec.cfg, new.source = rec.source,
         new.target = rec.target, new.failed = rec.failed, new.switches = rec.switches,
         rec.committed => new.committed
  PROVE  WalkCoherent(new)
<1>1. AttemptsCoherent(new) /\ Tried(new) = Tried(rec) /\ Last(new) = Last(rec)
  BY DEF WalkCoherent, AttemptsCoherent, Last, Tried
<1>2. QED
  BY <1>1 DEF WalkCoherent, Attempting, Waiting

\* The walk ends, and the memory is left alone.
LEMMA OverSound ==
  ASSUME Inv, NEW w \in Walk, NEW pc \in Finished, Put(w, Over(walk[w], pc)),
         UNCHANGED <<now, config, policy, live, known, health, blocked>>
  PROVE  StepSound
<1>1. walk[w] \in WalkType /\ AttemptsCoherent(walk[w])
  BY WalkTyped DEF WalkCoherent
<1>2. Over(walk[w], pc) \in WalkType /\ WalkCoherent(Over(walk[w], pc))
  BY <1>1, OverCoherent
<1>3. HealthMoves
  BY StillMoves DEF Inv
<1>4. QED
  BY <1>2, <1>3, WalkStepSound, WalkTyped

\* The adapted request going out.
LEMMA DispatchSound ==
  ASSUME Inv, NEW w \in Walk, Dispatch(w)
  PROVE  StepSound
<1> DEFINE rec == walk[w]
           c   == rec.base \ Unserved[rec.target]
           n   == rec.dispatches + 1
           new == [rec EXCEPT !.pc = "streaming", !.dispatches = n, !.controls = c]
<1>1. rec \in WalkType /\ WalkCoherent(rec) /\ rec.pc = "adapting"
  BY WalkTyped DEF Dispatch
<1>2. Put(w, new)
  BY DEF Dispatch
<1>3. c \in SUBSET Control /\ n \in Nat
  BY <1>1 DEF WalkType
<1>4. "streaming" \in {"idle"} \cup Waiting \cup Finished
  BY DEF Waiting
<1> HIDE DEF rec, c, n
<1>5. new \in WalkType
  BY <1>1, <1>3, <1>4 DEF WalkType
<1>6. WalkCoherent(new)
  <2>1. /\ new.pc = "streaming" /\ new.injected = rec.injected /\ new.owner = rec.owner
        /\ new.attempts = rec.attempts /\ new.cfg = rec.cfg /\ new.source = rec.source
        /\ new.target = rec.target /\ new.failed = rec.failed
        /\ new.switches = rec.switches /\ new.committed = rec.committed
    BY <1>1 DEF WalkType
  <2> HIDE DEF new
  <2>2. QED
    BY <1>1, <1>5, <2>1, SameCoherent
<1>7. HealthMoves
  BY StillMoves DEF Inv, Dispatch
<1>8. QED
  BY <1>2, <1>5, <1>6, <1>7, WalkStepSound, WalkTyped DEF Dispatch

\* A chunk forwarded to the caller, who may hang up.
LEMMA ForwardSound ==
  ASSUME Inv, NEW w \in Walk, NEW kind, NEW keepsPulling, Forward(w, kind, keepsPulling)
  PROVE  StepSound
<1> DEFINE rec == walk[w]
           b   == Committed(rec, kind)
           src == IF kind = "output" THEN rec.source \cup {rec.target} ELSE rec.source
           new == [rec EXCEPT !.committed = b, !.source = src]
<1>1. rec \in WalkType /\ WalkCoherent(rec) /\ rec.pc = "streaming"
  BY WalkTyped DEF Forward
<1>2. Put(w, IF keepsPulling THEN new ELSE Over(new, "closed"))
  BY DEF Forward
<1>3. rec.target \in Route /\ rec.target = Last(rec) /\ rec.attempts # <<>>
  BY <1>1 DEF WalkCoherent, Waiting, Attempting
<1>4. b \in BOOLEAN /\ (rec.committed => b) /\ (kind = "output" => b)
  BY <1>1 DEF Committed, WalkType
<1>5. src \in SUBSET Route /\ src \subseteq {Last(rec)} /\ (src # {} => b)
  <2>1. rec.source \in SUBSET Route /\ rec.source \subseteq {Last(rec)}
    BY <1>1 DEF WalkCoherent, AttemptsCoherent, WalkType
  <2>2. rec.source # {} => rec.committed
    BY <1>1 DEF WalkCoherent, Attempting
  <2>3. QED
    BY <1>3, <1>4, <2>1, <2>2
<1> HIDE DEF rec, b, src
<1>6. new \in WalkType
  BY <1>1, <1>4, <1>5 DEF WalkType
<1>7. /\ new.pc = "streaming" /\ new.injected = rec.injected /\ new.owner = rec.owner
      /\ new.attempts = rec.attempts /\ new.cfg = rec.cfg /\ new.source = src
      /\ new.target = rec.target /\ new.failed = rec.failed
      /\ new.switches = rec.switches /\ new.committed = b
  BY <1>1 DEF WalkType
<1> HIDE DEF new
<1>8. AttemptsCoherent(new) /\ Tried(new) = Tried(rec) /\ Last(new) = Last(rec)
  <2>1. Tried(new) = Tried(rec) /\ Last(new) = Last(rec)
    BY <1>7 DEF Tried, Last
  <2>2. QED
    BY <1>1, <1>3, <1>5, <1>7, <2>1 DEF WalkCoherent, AttemptsCoherent
<1>9. WalkCoherent(new)
  BY <1>1, <1>5, <1>7, <1>8 DEF WalkCoherent, Attempting, Waiting
<1>10. Over(new, "closed") \in WalkType /\ WalkCoherent(Over(new, "closed"))
  BY <1>6, <1>8, OverCoherent DEF Finished
<1>11. HealthMoves
  BY StillMoves DEF Inv, Forward
<1>12. QED
  BY <1>2, <1>6, <1>9, <1>10, <1>11, WalkStepSound, WalkTyped DEF Forward

\* A completion, observed on the captured state.
LEMMA FinishNormallySound ==
  ASSUME Inv, NEW w \in Walk, FinishNormally(w)
  PROVE  StepSound
<1> DEFINE rec == walk[w]
           old == Memory(rec.owner)
           t   == rec.target
           h   == ObserveSuccess(old[t], now)
<1>1. /\ rec \in WalkType /\ WalkCoherent(rec) /\ rec.cfg \in Config
      /\ rec.owner \in Session \cup {NoSession} /\ rec.pc = "streaming"
  BY WalkTyped DEF FinishNormally
<1>2. Remember(rec.owner, SuccessMemory(rec)) /\ Put(w, Over(rec, "done"))
  BY DEF FinishNormally
<1>3. t \in Route /\ AttemptsCoherent(rec)
  BY <1>1 DEF WalkCoherent, Waiting
<1>4. old \in MemoryType
  BY <1>1, MemoryTyped DEF Inv
<1>5. Follows(SuccessMemory(rec), old, rec.cfg)
  <2>1. CASE rec.held
    <3>1. SuccessMemory(rec) = [old EXCEPT ![t] = h]
      BY <2>1 DEF SuccessMemory
    <3>2. h \in Outcomes(old[t], now, rec.cfg)
      BY DEF Outcomes
    <3> HIDE DEF h, old, rec, t
    <3>3. Follows([old EXCEPT ![t] = h], old, rec.cfg)
      BY <1>3, <1>4, <3>2, FollowsOne
    <3>4. QED
      BY <3>1, <3>3
  <2>2. CASE ~rec.held
    <3>1. SuccessMemory(rec) = old
      BY <2>2 DEF SuccessMemory
    <3>2. QED
      BY <1>1, <3>1, MemoryFollows DEF Inv
  <2>3. QED
    BY <2>1, <2>2
<1> HIDE DEF rec, t
<1>6. HealthMoves
  BY <1>1, <1>2, <1>5, RememberMoves DEF Inv
<1>7. Over(rec, "done") \in WalkType /\ WalkCoherent(Over(rec, "done"))
  BY <1>1, <1>3, OverCoherent DEF Finished
<1>8. QED
  BY <1>2, <1>6, <1>7, WalkStepSound, WalkTyped DEF FinishNormally

\* A parameter repair on the same candidate.
LEMMA RepairSound ==
  ASSUME Inv, NEW w \in Walk, NEW code, Repair(w, code)
  PROVE  StepSound
<1> DEFINE rec == walk[w]
           c   == CHOOSE d \in Repairable(rec, code) : TRUE
           p   == rec.repaired \cup {c}
           l   == rec.controls \ {c}
           n   == rec.dispatches + 1
           mid == [rec EXCEPT !.repaired = p, !.controls = l]
           new == [mid EXCEPT !.dispatches = n]
<1>1. rec \in WalkType /\ WalkCoherent(rec) /\ rec.pc = "streaming"
  BY WalkTyped DEF Repair
<1>2. Put(w, new)
  BY DEF Repair, Narrowed
<1>3. p \in SUBSET Control /\ l \in SUBSET Control /\ n \in Nat
  <2>1. c \in Repairable(rec, code)
    BY DEF Repair
  <2>2. c \in Control
    BY <1>1, <2>1 DEF Repairable, WalkType
  <2> HIDE DEF c
  <2>3. QED
    BY <1>1, <2>2 DEF WalkType
<1> HIDE DEF rec, p, l, n
<1>4. mid \in WalkType
  BY <1>1, <1>3 DEF WalkType
<1>5. /\ mid.pc = "streaming" /\ mid.injected = rec.injected /\ mid.owner = rec.owner
      /\ mid.attempts = rec.attempts /\ mid.cfg = rec.cfg /\ mid.source = rec.source
      /\ mid.target = rec.target /\ mid.failed = rec.failed
      /\ mid.switches = rec.switches /\ mid.committed = rec.committed
  BY <1>1 DEF WalkType
<1> HIDE DEF mid
<1>6. new \in WalkType
  BY <1>3, <1>4 DEF WalkType
<1>7. /\ new.pc = "streaming" /\ new.injected = rec.injected /\ new.owner = rec.owner
      /\ new.attempts = rec.attempts /\ new.cfg = rec.cfg /\ new.source = rec.source
      /\ new.target = rec.target /\ new.failed = rec.failed
      /\ new.switches = rec.switches /\ new.committed = rec.committed
  BY <1>4, <1>5 DEF WalkType
<1> HIDE DEF new
<1>8. WalkCoherent(new)
  BY <1>1, <1>6, <1>7, SameCoherent
<1>9. HealthMoves
  BY StillMoves DEF Inv, Repair
<1>10. QED
  BY <1>2, <1>6, <1>8, <1>9, WalkStepSound, WalkTyped DEF Repair

\* Booking a failure leaves a known session known or makes the owner known.
LEMMA BookedKnownSessions ==
  ASSUME Inv, NEW rec \in WalkType, NEW code
  PROVE  BookedKnown(rec, code) \subseteq Session
  BY DEF BookedKnown, CoolsRoute, Inv, TypeOK

\* A booked failure is a state the search may resume from.
LEMMA BookedSearching ==
  ASSUME NEW rec \in WalkType, WalkCoherent(rec), rec.pc = "streaming",
         ~rec.committed, HasSwitchLeft(rec), NEW code \in Code
  PROVE  LET new == Booked(rec, code)
         IN  /\ new \in WalkType /\ Searching(new)
             /\ new.attempts = rec.attempts /\ new.owner = rec.owner
             /\ new.target = rec.target /\ new.cfg = rec.cfg
<1> DEFINE new == Booked(rec, code)
<1>1. AttemptsCoherent(rec) /\ rec.target \in Route
  BY DEF WalkCoherent, Waiting
<1>2. new \in WalkType
  BY <1>1 DEF Booked, WalkType
<1>3. /\ new.injected = rec.injected /\ new.owner = rec.owner /\ new.cfg = rec.cfg
      /\ new.attempts = rec.attempts /\ new.source = rec.source
      /\ new.committed = rec.committed /\ new.target = rec.target
      /\ new.failed = rec.failed \cup {rec.target}
      /\ new.switches = rec.switches /\ new.code = code
  BY DEF Booked, WalkType
<1>4. new.code # NoCode
  BY <1>3, WalkAssumption
<1>5. /\ rec.source = {} /\ Tried(rec) \subseteq rec.failed \cup {rec.target}
      /\ Len(rec.attempts) = rec.switches + 1
      /\ rec.switches < rec.cfg.maxSwitchesPerStep
  BY DEF WalkCoherent, Attempting, HasSwitchLeft
<1> HIDE DEF new
<1>6. AttemptsCoherent(new) /\ Tried(new) = Tried(rec)
  BY <1>1, <1>3 DEF AttemptsCoherent, Last, Tried
<1>7. Searching(new)
  BY <1>1, <1>3, <1>4, <1>5, <1>6 DEF Searching
<1>8. QED
  BY <1>2, <1>3, <1>7 DEF new

\* A swallowed failure, booked, with or without a switch left.
LEMMA SwallowSound ==
  ASSUME Inv, NEW w \in Walk, NEW code \in Code, Swallow(w, code)
  PROVE  StepSound
<1> DEFINE rec == walk[w]
           mem == BookedMemory(rec, code)
           new == Booked(rec, code)
<1>1. /\ rec \in WalkType /\ WalkCoherent(rec) /\ rec.cfg \in Config
      /\ rec.owner \in Session \cup {NoSession}
      /\ rec.pc = "streaming" /\ ~rec.committed
  BY WalkTyped DEF Swallow, BeforeOutput
<1>2. AttemptsCoherent(rec) /\ rec.target \in Route
  BY <1>1 DEF WalkCoherent, Waiting
<1>3. Follows(mem, Memory(rec.owner), rec.cfg)
  BY <1>1, BookedFollows DEF Inv
<1>4. \A r \in Route : r # rec.target => mem[r] = Memory(rec.owner)[r]
  BY <1>1, BookedFollows DEF Inv
<1>5. known' \subseteq Session
  BY <1>1, BookedKnownSessions DEF Swallow
<1>6. /\ \E r \in WalkType : WalkCoherent(r) /\ Put(w, r)
      /\ HealthMoves /\ blocked' \subseteq Session
  <2>1. CASE HasSwitchLeft(rec)
    <3>1. Search(w, new, mem)
      BY <2>1 DEF Swallow
    <3>2. new \in WalkType /\ Searching(new)
          /\ new.owner = rec.owner /\ new.target = rec.target /\ new.cfg = rec.cfg
      BY <1>1, <2>1, BookedSearching
    <3> HIDE DEF new, rec, mem
    <3>3. QED
      BY <1>3, <1>4, <3>1, <3>2, SearchSound
  <2>2. CASE ~HasSwitchLeft(rec)
    <3>1. Put(w, Over(rec, "done")) /\ Remember(rec.owner, mem) /\ UNCHANGED blocked
      BY <2>2 DEF Swallow
    <3> HIDE DEF rec, mem
    <3>2. Over(rec, "done") \in WalkType /\ WalkCoherent(Over(rec, "done"))
      BY <1>1, <1>2, OverCoherent DEF Finished
    <3>3. HealthMoves
      BY <1>1, <1>3, <3>1, RememberMoves DEF Inv
    <3>4. QED
      BY <3>1, <3>2, <3>3 DEF Inv, TypeOK
  <2>3. QED
    BY <2>1, <2>2
<1>7. QED
  BY <1>5, <1>6, WalkStepSound DEF Swallow

\* A failure forwarded verbatim, booked when it is a trigger.
LEMMA FinishFailedSound ==
  ASSUME Inv, NEW w \in Walk, NEW code \in Code, FinishFailed(w, code)
  PROVE  StepSound
<1> DEFINE rec == walk[w]
           mem == BookedMemory(rec, code)
<1>1. /\ rec \in WalkType /\ AttemptsCoherent(rec) /\ rec.cfg \in Config
      /\ rec.owner \in Session \cup {NoSession}
  BY WalkTyped DEF WalkCoherent
<1>2. Put(w, Over(rec, "done")) /\ Over(rec, "done") \in WalkType
      /\ WalkCoherent(Over(rec, "done"))
  BY <1>1, OverCoherent DEF Finished, FinishFailed
<1>3. HealthMoves
  <2>1. CASE IsTrigger(rec, code)
    <3>1. Remember(rec.owner, mem)
      BY <2>1 DEF FinishFailed
    <3>2. Follows(mem, Memory(rec.owner), rec.cfg)
      BY <1>1, BookedFollows DEF Inv
    <3> HIDE DEF rec, mem
    <3>3. QED
      BY <1>1, <3>1, <3>2, RememberMoves DEF Inv
  <2>2. CASE ~IsTrigger(rec, code)
    BY <2>2, StillMoves DEF FinishFailed, Inv
  <2>3. QED
    BY <2>1, <2>2
<1>4. known' \subseteq Session
  BY <1>1, BookedKnownSessions, WalkTyped DEF FinishFailed
<1>5. QED
  BY <1>2, <1>3, <1>4, WalkStepSound, WalkTyped DEF FinishFailed

-----------------------------------------------------------------------------
(* The surroundings.                                                       *)

\* The /fallbacks snapshot.
LEMMA SnapshotSound ==
  ASSUME Inv, NEW s \in Session, Snapshot(s)
  PROVE  StepSound
<1> DEFINE mem == [r \in Route |-> DecisionRead(health[s][r], now, "half-open")]
<1>1. config \in Config /\ config.recovery = "half-open" /\ Memory(s) = health[s]
  BY DEF Inv, TypeOK, Snapshot, Memory
<1>2. Follows(mem, Memory(s), config)
  BY <1>1 DEF Follows, Outcomes
<1>3. Remember(s, mem)
  BY DEF Snapshot, Remember
<1> HIDE DEF mem
<1>4. HealthMoves
  BY <1>1, <1>2, <1>3, RememberMoves DEF Inv
<1>5. QED
  BY <1>4 DEF StepSound, Snapshot, Inv, TypeOK, WalksCoherent, HealthMoves

\* The disposal of an agent, with its walks still in flight.
LEMMA DisposeSound ==
  ASSUME Inv, NEW s \in Session, Dispose(s)
  PROVE  StepSound
<1>1. config \in Config /\ health \in [Session -> MemoryType]
  BY DEF Inv, TypeOK
<1>2. [r \in Route |-> Fresh] \in MemoryType
  BY FreshType DEF MemoryType
<1>3. health' \in [Session -> MemoryType]
  BY <1>1, <1>2 DEF Dispose
<1>4. HealthMoves
  <2>1. ASSUME NEW q \in Session, NEW r \in Route
        PROVE  \/ q \notin known' /\ health'[q][r] = Fresh
               \/ health'[q][r] \in Outcomes(health[q][r], now, config)
    BY <1>1 DEF Dispose, Outcomes
  <2>2. QED
    BY <1>1, <1>3, <2>1 DEF HealthMoves
<1>5. ASSUME NEW w \in Walk
      PROVE  walk'[w] \in WalkType /\ WalkCoherent(walk'[w])
  <2> DEFINE rec == walk[w]
             b   == rec.held /\ rec.owner # s
             new == [rec EXCEPT !.held = b]
  <2>1. rec \in WalkType /\ WalkCoherent(rec)
    BY WalkTyped
  <2>2. walk'[w] = new
    BY DEF Dispose
  <2>3. b \in BOOLEAN
    BY <2>1 DEF WalkType
  <2> HIDE DEF rec, b
  <2>4. new \in WalkType
    BY <2>1, <2>3 DEF WalkType
  <2>5. /\ new.pc = rec.pc /\ new.injected = rec.injected /\ new.owner = rec.owner
        /\ new.attempts = rec.attempts /\ new.cfg = rec.cfg /\ new.source = rec.source
        /\ new.target = rec.target /\ new.failed = rec.failed
        /\ new.switches = rec.switches /\ new.committed = rec.committed
        /\ new.code = rec.code
    BY <2>1 DEF WalkType
  <2> HIDE DEF new
  <2>6. AttemptsCoherent(new) /\ Tried(new) = Tried(rec) /\ Last(new) = Last(rec)
    BY <2>1, <2>5 DEF WalkCoherent, AttemptsCoherent, Last, Tried
  <2>7. WalkCoherent(new)
    BY <2>1, <2>5, <2>6 DEF WalkCoherent, BeforeFirstAttempt
  <2>8. QED
    BY <2>2, <2>4, <2>7
<1>6. walk' \in [Walk -> WalkType] /\ WalksCoherent'
  BY <1>5 DEF Dispose, WalksCoherent
<1>7. QED
  BY <1>3, <1>4, <1>6 DEF StepSound, Dispose, Inv, TypeOK

\* The clock.
LEMMA TickSound ==
  ASSUME Inv, Tick
  PROVE  StepSound
<1>1. HealthMoves
  BY StillMoves DEF Tick, Inv
<1>2. now' \in 1 .. MaxNow
  BY WalkAssumption DEF Tick, Inv, TypeOK
<1>3. QED
  BY <1>1, <1>2 DEF StepSound, Tick, Inv, TypeOK, WalksCoherent

\* A settings edit and a policy change.
LEMMA ChangeSound ==
  ASSUME Inv,
         \/ \E c \in Config : ChangeSettings(c)
         \/ \E s \in Session, p \in Policy : ChangePolicy(s, p)
  PROVE  StepSound
<1>1. HealthMoves
  BY StillMoves DEF ChangeSettings, ChangePolicy, Inv
<1>2. config' \in Config /\ policy' \in [Session -> Policy]
  BY DEF ChangeSettings, ChangePolicy, Inv, TypeOK
<1>3. UNCHANGED <<now, live, known, health, blocked, walk>>
  BY DEF ChangeSettings, ChangePolicy
<1>4. QED
  BY <1>1, <1>2, <1>3 DEF StepSound, Inv, TypeOK, WalksCoherent

-----------------------------------------------------------------------------
(* The theorems.                                                           *)

\* The invariant holds when the plugin has just been applied.
LEMMA InitInv == Init => Inv
<1> SUFFICES ASSUME Init PROVE Inv
  OBVIOUS
<1>1. [r \in Route |-> Fresh] \in MemoryType
  BY FreshType DEF MemoryType
<1>2. TypeOK
  BY <1>1, IdleTyped, WalkAssumption DEF Init, TypeOK
<1>3. ASSUME NEW w \in Walk PROVE WalkCoherent(walk[w])
  <2>1. /\ walk[w] = IdleWalk /\ IdleWalk.cfg \in Config
    BY IdleTyped DEF Init, WalkType
  <2>2. IdleWalk.cfg.maxSwitchesPerStep \in Nat
    BY <2>1, WalkAssumption
  <2>3. /\ IdleWalk.pc = "idle" /\ ~IdleWalk.injected /\ IdleWalk.attempts = <<>>
        /\ IdleWalk.source = {} /\ IdleWalk.failed = {} /\ IdleWalk.switches = 0
        /\ IdleWalk.code = NoCode /\ ~IdleWalk.committed
    BY DEF IdleWalk
  <2> HIDE DEF IdleWalk
  <2>4. AttemptsCoherent(IdleWalk)
    BY <2>2, <2>3 DEF AttemptsCoherent
  <2>5. QED
    BY <2>1, <2>3, <2>4 DEF WalkCoherent, BeforeFirstAttempt, Waiting, Attempting
<1>4. QED
  BY <1>2, <1>3 DEF Inv, WalksCoherent

\* Every step keeps the invariant and moves each memory entry by an outcome.
LEMMA NextSound ==
  ASSUME Inv, [Next]_vars
  PROVE  StepSound
<1>1. CASE UNCHANGED vars
  <2>1. HealthMoves
    BY <1>1, StillMoves DEF vars, Inv
  <2>2. QED
    BY <1>1, <2>1 DEF vars, StepSound, Inv, TypeOK, WalksCoherent
<1>2. ASSUME NEW w \in Walk, WalkStep(w) PROVE StepSound
  <2>1. CASE Call(w)
    <3>1. PICK s \in Owner, controls \in Request, llmUp \in LlmUp :
            \E tail \in RootTails(s) : Start(w, s, tail, controls, llmUp)
      BY <2>1 DEF Call
    <3>2. s \in Session \cup {NoSession} /\ controls \in SUBSET Control
      BY WalkAssumption
    <3>3. QED
      BY <3>1, <3>2, StartSound
  <2>2. CASE Pull(w)
    BY <2>2, BeginAtHeadSound, BeginPastCooledHeadSound DEF Pull
  <2>3. CASE Abandon(w)
    BY <2>3, OverSound DEF Abandon, Finished
  <2>4. CASE \E down \in Outage : ProbeAnswers(w, down)
    BY <2>4, ProbeAnswersSound
  <2>5. CASE Attempt(w)
    BY <2>5, AttemptSound
  <2>6. CASE Dispatch(w)
    BY <2>6, DispatchSound
  <2>7. CASE Chunk(w)
    BY <2>7, ForwardSound DEF Chunk
  <2>8. CASE Finish(w)
    <3>1. CASE FinishNormally(w)
      BY <3>1, FinishNormallySound
    <3>2. CASE FinishAborted(w)
      BY <3>2, OverSound DEF FinishAborted, Finished
    <3>3. CASE EndWithoutFinish(w)
      BY <3>3, OverSound DEF EndWithoutFinish, Finished
    <3>4. CASE \E code \in Code : Repair(w, code) \/ Swallow(w, code) \/ FinishFailed(w, code)
      BY <3>4, RepairSound, SwallowSound, FinishFailedSound
    <3>5. QED
      BY <2>8, <3>1, <3>2, <3>3, <3>4 DEF Finish
  <2>9. QED
    BY <1>2, <2>1, <2>2, <2>3, <2>4, <2>5, <2>6, <2>7, <2>8 DEF WalkStep
<1>3. CASE Surroundings
  BY <1>3, TickSound, ChangeSound, SnapshotSound, DisposeSound DEF Surroundings
<1>4. QED
  BY <1>1, <1>2, <1>3 DEF Next

\* Type correctness and the coherence of every walk's record hold in every
\* reachable state.
THEOREM InvHolds == Spec => []Inv
<1>1. Inv /\ [Next]_vars => Inv'
  BY NextSound DEF StepSound
<1>2. QED
  BY InitInv, <1>1, PTL DEF Spec

\* The machine's state keeps its types: in particular every route a walk settles on
\* is a route, so a wildcard, malformed or self-routing entry is never dispatched to.
THEOREM TypeCorrect == Spec => []TypeOK
<1>1. Inv => TypeOK
  BY DEF Inv
<1>2. QED
  BY InvHolds, <1>1, PTL

\* In every walk what was tried, what failed, the switches counted and what the
\* caller saw agree with each other.
THEOREM WalksStayCoherent == Spec => []WalksCoherent
<1>1. Inv => WalksCoherent
  BY DEF Inv
<1>2. QED
  BY InvHolds, <1>1, PTL

\* A walk never attempts a route twice (chain-walk.ts, the per-call failed set),
\* however cooldowns lapse, settings change or agents go away meanwhile.
THEOREM NeverARouteTwice == Spec => []NoRouteTwice
<1>1. Inv => NoRouteTwice
  BY DEF Inv, WalksCoherent, WalkCoherent, AttemptsCoherent, NoRouteTwice
<1>2. QED
  BY InvHolds, <1>1, PTL

\* The caller of a walk sees output of one route at most, the last one attempted.
THEOREM OutputHasOneSource == Spec => []SingleSource
<1>1. Inv => SingleSource
  BY DEF Inv, WalksCoherent, WalkCoherent, AttemptsCoherent, SingleSource
<1>2. QED
  BY InvHolds, <1>1, PTL

\* A walk makes at most maxSwitchesPerStep + 1 attempts.
SwitchesCapped == \A w \in Walk : Len(walk[w].attempts) <= walk[w].cfg.maxSwitchesPerStep + 1

\* The documented valve ("attempts <= cap + 1") holds for every cap and chain.
THEOREM AttemptsAreCapped == Spec => []SwitchesCapped
<1>1. Inv => SwitchesCapped
  BY DEF Inv, WalksCoherent, WalkCoherent, AttemptsCoherent, SwitchesCapped
<1>2. QED
  BY InvHolds, <1>1, PTL

-----------------------------------------------------------------------------
(* The memory under settings that do not change their recovery mode.       *)

\* What the invariant says of the numbers the memory is computed from.
LEMMA ClockTyped ==
  ASSUME Inv
  PROVE  /\ now \in Nat
         /\ \A s \in Session, r \in Route : health[s][r] \in Health
         /\ \A cfg \in Config : cfg.cooldownMs \in Nat
  BY WalkAssumption DEF Inv, TypeOK, MemoryType

\* With half-open recovery and expiring cooldowns throughout, a route is never half
\* open and suppressed at once, whatever the walks of the session interleave.
THEOREM HalfOpenExcludesCooldown ==
  ASSUME \A cfg \in Config : cfg.recovery = "half-open" /\ cfg.revertPolicy # "never"
  PROVE  Spec => []HalfOpenNotSuppressed
<1>1. Init => HalfOpenNotSuppressed
  BY DEF Init, HalfOpenNotSuppressed, Fresh
<1>2. Inv /\ HalfOpenNotSuppressed /\ [Next]_vars => HalfOpenNotSuppressed'
  <2> SUFFICES ASSUME Inv, HalfOpenNotSuppressed, [Next]_vars,
                      NEW s \in Session, NEW r \in Route
               PROVE  health'[s][r].halfOpen => health'[s][r].until = 0
    BY DEF HalfOpenNotSuppressed
  <2>1. HealthMoves
    BY NextSound DEF StepSound
  <2>2. CASE health'[s][r] = Fresh
    BY <2>2 DEF Fresh
  <2>3. ASSUME NEW cfg \in Config, health'[s][r] \in Outcomes(health[s][r], now, cfg)
        PROVE  health'[s][r].halfOpen => health'[s][r].until = 0
    <3>1. health[s][r].halfOpen => health[s][r].until = 0
      BY DEF HalfOpenNotSuppressed
    <3>2. QED
      BY <2>3, <3>1, ClockTyped, OutcomeHalfOpen
  <2>4. QED
    BY <2>1, <2>2, <2>3 DEF HealthMoves
<1>3. QED
  BY InvHolds, <1>1, <1>2, PTL DEF Spec

\* Every entry of the memory is bounded by what its failures call for.
MemoryBounded(cfg) ==
  \A s \in Session, r \in Route : SuppressionInv(health[s][r], now, cfg)

\* The bound on an entry is no tighter a moment later.
LEMMA TimePasses ==
  ASSUME NEW h \in Health, NEW t \in Nat, NEW cfg, cfg.cooldownMs \in Nat,
         SuppressionInv(h, t, cfg)
  PROVE  SuppressionInv(h, t + 1, cfg)
<1>1. h.fails > 0 => EscalatedCooldownMs(cfg.cooldownMs, h.fails) \in Nat
  BY EscalationMonotone DEF Health
<1>2. QED
  BY <1>1 DEF SuppressionInv, Health

\* Only Tick moves the clock, and it leaves the memory alone.
LEMMA ClockSteps ==
  ASSUME Inv, [Next]_vars
  PROVE  now' = now \/ (now' = now + 1 /\ UNCHANGED health)
<1>1. CASE UNCHANGED vars
  BY <1>1 DEF vars
<1>2. ASSUME NEW w \in Walk, WalkStep(w) PROVE now' = now
  <2>1. CASE Call(w)
    BY <2>1 DEF Call, Start
  <2>2. CASE Pull(w)
    BY <2>2 DEF Pull, BeginAtHead, BeginPastCooledHead
  <2>3. CASE Abandon(w) \/ Attempt(w) \/ Dispatch(w)
    BY <2>3 DEF Abandon, Attempt, Dispatch
  <2>4. CASE \E down \in Outage : ProbeAnswers(w, down)
    BY <2>4 DEF ProbeAnswers
  <2>5. CASE Chunk(w)
    BY <2>5 DEF Chunk, Forward
  <2>6. CASE FinishNormally(w) \/ FinishAborted(w) \/ EndWithoutFinish(w)
    BY <2>6 DEF FinishNormally, FinishAborted, EndWithoutFinish
  <2>7. CASE \E code \in Code : Repair(w, code) \/ Swallow(w, code) \/ FinishFailed(w, code)
    BY <2>7 DEF Repair, Swallow, FinishFailed
  <2>8. QED
    BY <1>2, <2>1, <2>2, <2>3, <2>4, <2>5, <2>6, <2>7 DEF WalkStep, Finish
<1>3. CASE Surroundings
  BY <1>3 DEF Surroundings, Tick, ChangeSettings, ChangePolicy, Snapshot, Dispose
<1>4. QED
  BY <1>1, <1>2, <1>3 DEF Next

\* A step keeps an entry within its bound and an active suppression in force.
LEMMA BoundedStep ==
  ASSUME Inv, NEW cfg, Config = {cfg}, MemoryBounded(cfg), [Next]_vars,
         NEW s \in Session, NEW r \in Route
  PROVE  /\ SuppressionInv(health'[s][r], now', cfg)
         /\ s \in known' /\ IsSuppressed(health[s][r], now) =>
              /\ health'[s][r].until >= health[s][r].until
              /\ health'[s][r].fails >= health[s][r].fails
<1> DEFINE h == health[s][r]
           g == health'[s][r]
<1>1. now \in Nat /\ h \in Health /\ cfg.cooldownMs \in Nat /\ SuppressionInv(h, now, cfg)
  BY ClockTyped DEF MemoryBounded
<1>2. CASE now' = now
  <2>1. HealthMoves
    BY NextSound DEF StepSound
  <2>2. CASE s \notin known' /\ g = Fresh
    <3>1. SuppressionInv(Fresh, now, cfg)
      BY <1>1 DEF SuppressionInv, Fresh
    <3>2. QED
      BY <1>2, <2>2, <3>1
  <2>3. CASE g \in Outcomes(h, now, cfg)
    <3> HIDE DEF h, g
    <3>1. /\ SuppressionInv(g, now, cfg)
          /\ IsSuppressed(h, now) => g.until >= h.until /\ g.fails >= h.fails
      BY <1>1, <2>3, OutcomeSuppression
    <3>2. QED
      BY <1>2, <3>1 DEF h, g
  <2>4. QED
    BY <2>1, <2>2, <2>3 DEF HealthMoves
<1>3. CASE now' = now + 1 /\ UNCHANGED health
  <2>1. SuppressionInv(h, now + 1, cfg)
    BY <1>1, TimePasses
  <2>2. h.until >= h.until /\ h.fails >= h.fails
    BY <1>1 DEF Health
  <2>3. QED
    BY <1>3, <2>1, <2>2
<1>4. QED
  BY <1>2, <1>3, ClockSteps

\* Under one fixed setting, whatever it is, an active suppression is never shortened
\* and its escalation never lost: no stale in-flight success cancels a fresher
\* re-suppression.
THEOREM SuppressionIsKept ==
  ASSUME NEW cfg, Config = {cfg}
  PROVE  Spec => SuppressionHolds
<1>1. Init => MemoryBounded(cfg)
  <2>1. cfg.cooldownMs \in Nat
    BY WalkAssumption
  <2>2. SuppressionInv(Fresh, 1, cfg)
    BY <2>1 DEF SuppressionInv, Fresh
  <2>3. QED
    BY <2>2 DEF Init, MemoryBounded
<1>2. Inv /\ MemoryBounded(cfg) /\ [Next]_vars => MemoryBounded(cfg)'
  BY BoundedStep DEF MemoryBounded
<1>3. Inv /\ MemoryBounded(cfg) /\ [Next]_vars =>
        [\A s \in known \cap known', r \in Route :
           IsSuppressed(health[s][r], now) =>
             /\ health'[s][r].until >= health[s][r].until
             /\ health'[s][r].fails >= health[s][r].fails]_vars
  <2> SUFFICES ASSUME Inv, MemoryBounded(cfg), [Next]_vars,
                      NEW s \in known \cap known', NEW r \in Route,
                      IsSuppressed(health[s][r], now)
               PROVE  /\ health'[s][r].until >= health[s][r].until
                      /\ health'[s][r].fails >= health[s][r].fails
    OBVIOUS
  <2>1. s \in Session
    BY DEF Inv, TypeOK
  <2>2. QED
    BY <2>1, BoundedStep
<1>4. QED
  BY InvHolds, <1>1, <1>2, <1>3, PTL DEF Spec, SuppressionHolds

-----------------------------------------------------------------------------
(* The last resort.                                                        *)

\* What CooledIsLastResort says of one walk.
LastResort(w) ==
  LET r   == walk'[w].target
      mem == health'[walk'[w].owner]
  IN  ( /\ walk'[w].attempts # walk[w].attempts
        /\ walk'[w].owner \in Session
        /\ IsSuppressed(mem[r], now) )
      => /\ Len(walk'[w].attempts) = 1
         /\ \A a \in Alternatives(w, r) : IsSuppressed(mem[a], now)

\* Asking after a route changes nothing of what the answer is.
LEMMA ReadKeepsAnswer ==
  ASSUME NEW h \in Health, NEW t \in Nat, NEW recovery
  PROVE  /\ DecisionRead(h, t, recovery) \in Health
         /\ IsSuppressed(DecisionRead(h, t, recovery), t) <=> IsSuppressed(h, t)
         /\ IsSuppressed(TryMarkProbeLogged(h), t) <=> IsSuppressed(h, t)
<1>1. IsSuppressed(TryMarkProbeLogged(h), t) <=> IsSuppressed(h, t)
  BY DEF TryMarkProbeLogged, IsSuppressed, Health
<1>2. CASE ~HasExpired(h, t)
  BY <1>1, <1>2 DEF DecisionRead
<1>3. CASE HasExpired(h, t)
  <2>1. DecisionRead(h, t, recovery) \in Health /\ DecisionRead(h, t, recovery).until = 0
    BY <1>3 DEF DecisionRead, MarkHalfOpen, Health
  <2>2. ~IsSuppressed(h, t) /\ ~IsSuppressed(DecisionRead(h, t, recovery), t)
    BY <1>3, <2>1 DEF HasExpired, IsSuppressed, Health
  <2>3. QED
    BY <1>1, <2>1, <2>2
<1>4. QED
  BY <1>2, <1>3

\* An exact route of the chain that is not suppressed, and that the walk has neither
\* failed on nor is on, survives the filter of a search that overflow did not start.
LEMMA FitSurvives ==
  ASSUME NEW entries \in Seq(Entry), NEW from \in Route, NEW cooled, NEW failed, NEW down,
         NEW i \in DOMAIN entries, IsExact(entries[i]), entries[i].provider # Self,
         entries[i] \notin cooled, entries[i] \notin failed, entries[i] # from
  PROVE  /\ i \in Surviving(entries, from, cooled, failed, FALSE, down)
         /\ ResolveCandidate(entries[i], from) = entries[i]
<1>1. entries[i] \in Entry /\ entries[i] # Malformed /\ entries[i].model # Wildcard
  BY DEF IsExact
<1>2. entries[i] \in [provider : Provider, model : Model \cup {Wildcard}]
  BY <1>1 DEF Entry
<1>3. ResolveCandidate(entries[i], from) = entries[i]
  BY <1>1, <1>2 DEF ResolveCandidate
<1>4. i \in CandidatePositions(entries)
  BY <1>1 DEF CandidatePositions
<1>5. QED
  BY <1>1, <1>3, <1>4 DEF Surviving, PassesExistenceProbe, IsWildcard

\* What the memory holds of an owner is memory.
LEMMA OwnersMemory ==
  ASSUME Inv, NEW s \in Session
  PROVE  Memory(s) = health[s] /\ Memory(s) \in MemoryType /\ now \in Nat
<1>1. health \in [Session -> MemoryType] /\ now \in Nat
  BY WalkAssumption DEF Inv, TypeOK
<1>2. QED
  BY <1>1 DEF Memory

\* The first attempt at a head that is not suppressed.
LEMMA HeadIsFit ==
  ASSUME Inv, NEW w \in Walk, BeginAtHead(w), walk'[w].owner \in Session
  PROVE  ~IsSuppressed(health'[walk'[w].owner][walk'[w].target], now)
<1> DEFINE rec == walk[w]
           s == rec.owner
           mem == Memory(s)
           read == [mem EXCEPT ![rec.target] = DecisionRead(@, now, rec.cfg.recovery)]
           chosen == Chosen(rec, rec.target)
<1>1. rec \in WalkType /\ WalkCoherent(rec) /\ walk \in [Walk -> WalkType] /\ health \in [Session -> MemoryType]
  BY WalkTyped DEF Inv, TypeOK
<1>2. /\ rec.pc = "ready" /\ rec.target \notin Cooled(mem)
      /\ Enter(w, chosen, read)
  BY DEF BeginAtHead
<1>3. rec.target \in Route
  BY <1>1, <1>2 DEF WalkCoherent, Waiting
<1>4. chosen.target = rec.target /\ chosen.owner = rec.owner
  BY <1>1 DEF Chosen, WalkType
<1>5. /\ walk'[w] = [chosen EXCEPT !.pc = "adapting", !.held = chosen.owner \in known,
                                  !.committed = FALSE, !.repaired = {}]
      /\ Remember(chosen.owner, AdmitProbe(read, chosen))
  BY <1>1, <1>2 DEF Enter, Put
<1>6. walk'[w].target = rec.target /\ walk'[w].owner = s
  BY <1>1, <1>5 DEF Chosen, WalkType
<1> HIDE DEF chosen
<1>7. s \in Session /\ mem = health[s] /\ mem \in MemoryType /\ now \in Nat
  BY <1>6, OwnersMemory
<1>8. health'[s] = AdmitProbe(read, chosen)
  BY <1>1, <1>4, <1>5, <1>7 DEF Remember
<1> HIDE DEF mem
<1>9. mem[rec.target] \in Health /\ ~IsSuppressed(mem[rec.target], now)
  BY <1>2, <1>3, <1>7 DEF Cooled, MemoryType
<1>10. read[rec.target] = DecisionRead(mem[rec.target], now, rec.cfg.recovery)
  BY <1>3, <1>7 DEF MemoryType
<1>11. read[rec.target] \in Health /\ ~IsSuppressed(read[rec.target], now)
  BY <1>7, <1>9, <1>10, ReadKeepsAnswer
<1>12. read \in MemoryType
  BY <1>3, <1>7, <1>9, ReadKeepsAnswer DEF MemoryType
<1> HIDE DEF read
<1>13. AdmitProbe(read, chosen)[rec.target] \in {read[rec.target], TryMarkProbeLogged(read[rec.target])}
  BY <1>3, <1>4, <1>12 DEF AdmitProbe, MemoryType
<1>14. QED
  BY <1>6, <1>7, <1>8, <1>11, <1>13, ReadKeepsAnswer

\* Consulting the memory answers every question as before.
LEMMA ConsultKeepsAnswers ==
  ASSUME Inv, NEW rec, NEW mem \in MemoryType, NEW r \in Route
  PROVE  IsSuppressed(Consult(rec, mem)[r], now) <=> IsSuppressed(mem[r], now)
<1>1. mem[r] \in Health /\ now \in Nat
  BY WalkAssumption DEF MemoryType, Inv, TypeOK
<1>2. Consult(rec, mem)[r] \in {mem[r], DecisionRead(mem[r], now, rec.cfg.recovery)}
  BY DEF Consult
<1>3. QED
  BY <1>1, <1>2, ReadKeepsAnswer

\* A search settles on a route that is not suppressed, unless it found none to replace
\* the suppressed head of a walk that has made no attempt.
LEMMA AdvanceIsLastResort ==
  ASSUME Inv, NEW w \in Walk, NEW rec \in WalkType, Searching(rec),
         rec.attempts = walk[w].attempts,
         NEW mem \in MemoryType, NEW down, Advance(w, rec, mem, down)
  PROVE  LastResort(w)
<1> DEFINE alive == Survivors(rec, mem, down)
           next  == Permitted(rec, alive)
           seen  == [rec EXCEPT !.admitted =
                       IF rec.injected THEN Admitted(policy[rec.owner]) ELSE @]
           found == ResolveCandidate(rec.entries[Least(next)], rec.target)
           used == SwitchCounted(seen)
<1>0. walk \in [Walk -> WalkType] /\ health \in [Session -> MemoryType]
  BY DEF Inv, TypeOK
<1>1. /\ seen.owner = rec.owner /\ seen.entries = rec.entries /\ seen.attempts = rec.attempts
      /\ seen.admitted = IF rec.injected THEN Admitted(policy[rec.owner]) ELSE rec.admitted
  BY DEF WalkType
<1>2. /\ used.owner = rec.owner /\ used.attempts = rec.attempts
  BY DEF SwitchCounted, WalkType
<1>3. \A pc : Over(seen, pc).attempts = rec.attempts
  BY DEF Over, WalkType
<1>4. \A r : /\ Chosen(used, r).target = r /\ Chosen(used, r).owner = rec.owner
             /\ Chosen(seen, r).target = r /\ Chosen(seen, r).owner = rec.owner
             /\ Chosen(seen, r).entries = rec.entries
             /\ Chosen(seen, r).admitted = seen.admitted
             /\ Chosen(seen, r).attempts = Append(rec.attempts, r)
  BY DEF Chosen, SwitchCounted, WalkType
<1> HIDE DEF seen, used
<1>5. rec.owner \in Session => health'[rec.owner] = Consult(rec, mem)
  BY <1>0 DEF Advance, Remember
<1>6. rec.entries \in Seq(Entry) /\ rec.target \in Route
  BY DEF WalkType, Searching
<1>7. CASE next # {} /\ Put(w, Chosen(used, found))
  <2>1. walk'[w].target = found /\ walk'[w].owner = rec.owner
    BY <1>0, <1>4, <1>7 DEF Put
  <2>2. next \subseteq alive
    BY DEF Permitted
  <2>3. found \in Route /\ found \notin Cooled(mem)
    <3> HIDE DEF next
    <3> QED BY <1>6, <1>7, <2>2, SurvivorIsFresh DEF Survivors
  <2> HIDE DEF found
  <2>4. rec.owner \in Session => ~IsSuppressed(health'[rec.owner][found], now)
    BY <1>5, <2>3, ConsultKeepsAnswers DEF Cooled
  <2>5. QED
    BY <2>1, <2>4 DEF LastResort
<1>8. CASE \E pc : Put(w, Over(seen, pc))
  <2>1. walk'[w].attempts = walk[w].attempts
    BY <1>0, <1>3, <1>8 DEF Put
  <2>2. QED
    BY <2>1 DEF LastResort
<1>9. CASE next = {} /\ rec.code = NoCode /\ Put(w, Chosen(seen, rec.target))
  <2>1. /\ walk'[w].target = rec.target /\ walk'[w].owner = rec.owner
        /\ walk'[w].entries = rec.entries /\ walk'[w].admitted = seen.admitted
        /\ walk'[w].attempts = Append(rec.attempts, rec.target)
    BY <1>0, <1>4, <1>9 DEF Put
  <2>2. rec.attempts = <<>> /\ rec.failed = {}
    BY <1>9 DEF Searching, BeforeFirstAttempt
  <2>3. Len(walk'[w].attempts) = 1
    BY <2>1, <2>2
  <2>4. ASSUME rec.owner \in Session, NEW a \in Alternatives(w, rec.target)
        PROVE  IsSuppressed(health'[rec.owner][a], now)
    <3>1. PICK i \in DOMAIN rec.entries :
            /\ IsExact(rec.entries[i]) /\ rec.entries[i].provider # Self
            /\ a = rec.entries[i] /\ a \in seen.admitted /\ a # rec.target
      BY <2>1, <2>4 DEF Alternatives
    <3>2. a \in Route
      <4>1. rec.entries[i] \in Entry /\ a # Malformed /\ a.model # Wildcard
        BY <1>6, <3>1 DEF IsExact
      <4>2. QED
        BY <3>1, <4>1 DEF Entry, Route
    <3>3. (rec.code = ContextWindowExceeded) = FALSE
      BY <1>9, WalkAssumption DEF RequestScoped
    <3>4. a \notin Cooled(mem) =>
            i \in alive /\ ResolveCandidate(rec.entries[i], rec.target) = a
      BY <1>6, <2>2, <3>1, <3>3, FitSurvives DEF Survivors
    <3>5. a \notin Cooled(mem) => i \in next
      BY <1>1, <3>1, <3>4 DEF Permitted
    <3>6. IsSuppressed(mem[a], now)
      BY <1>9, <3>2, <3>5 DEF Cooled
    <3>7. QED
      BY <1>5, <2>4, <3>2, <3>6, ConsultKeepsAnswers
  <2>5. QED
    BY <2>1, <2>3, <2>4 DEF LastResort
<1>10. QED
  BY <1>7, <1>8, <1>9 DEF Advance, seen, used

\* A search that waits for the catalog attempts nothing yet.
LEMMA SearchIsLastResort ==
  ASSUME Inv, NEW w \in Walk, NEW rec \in WalkType, Searching(rec),
         rec.attempts = walk[w].attempts,
         NEW mem \in MemoryType, Search(w, rec, mem)
  PROVE  LastResort(w)
<1>1. CASE NeedsProbe(rec)
  <2>1. walk'[w].attempts = walk[w].attempts
    BY <1>1 DEF Search, Put, Inv, TypeOK, WalkType
  <2>2. QED
    BY <2>1 DEF LastResort
<1>2. CASE ~NeedsProbe(rec)
  BY <1>2, AdvanceIsLastResort DEF Search
<1>3. QED
  BY <1>1, <1>2

\* Every step of a walk attempts a suppressed route as the last resort only.
LEMMA WalkStepIsLastResort ==
  ASSUME Inv, NEW w \in Walk, NEW v \in Walk, WalkStep(v)
  PROVE  LastResort(w)
<1>0. walk \in [Walk -> WalkType] /\ walk[w] \in WalkType
  BY DEF Inv, TypeOK
<1>1. CASE walk'[w].attempts = walk[w].attempts
  BY <1>1 DEF LastResort
<1>2. \A rec : Put(w, rec) => walk'[w] = rec
  BY <1>0 DEF Put
<1>3. \A pc : Over(walk[w], pc).attempts = walk[w].attempts
  BY <1>0 DEF Over, WalkType
<1>4. CASE w # v
  <2>1. \A rec : Put(v, rec) => walk'[w] = walk[w]
    BY <1>0, <1>4 DEF Put
  <2>2. \E rec : Put(v, rec)
    BY DEF WalkStep, Call, Start, Pull, BeginAtHead, BeginPastCooledHead, Abandon, ProbeAnswers,
           Attempt, Dispatch, Chunk, Forward, Finish, FinishNormally, FinishAborted,
           EndWithoutFinish, Repair, Swallow, FinishFailed, Enter, Search, Advance
  <2>3. QED
    BY <1>1, <2>1, <2>2
<1>5. CASE Call(w) \/ Abandon(w) \/ Attempt(w) \/ Dispatch(w) \/ Chunk(w)
  <2>1. walk'[w].attempts = walk[w].attempts
    <3>1. CASE Call(w)
      <4>1. walk[w].pc = "idle" /\ WalkCoherent(walk[w])
        BY <3>1, WalkTyped DEF Call, Start
      <4>2. walk[w].attempts = <<>>
        BY <4>1 DEF WalkCoherent, BeforeFirstAttempt
      <4>3. PICK s, tail, controls, llmUp : Start(w, s, tail, controls, llmUp)
        BY <3>1 DEF Call
      <4> DEFINE started == [IdleWalk EXCEPT !.owner = s, !.cfg = config,
                               !.entries = EntriesOf(s, tail), !.injected = s \in live \cap Injected,
                               !.base = controls, !.admitted = HeadAdmission(s)]
                 head == FirstDispatchableExactHead(EntriesOf(s, tail), HeadAdmission(s))
      <4>4. \/ Put(w, Over(started, "refused"))
            \/ Put(w, [started EXCEPT !.pc = "ready", !.target = head])
        BY <4>3 DEF Start
      <4>5. IdleWalk.attempts = <<>> /\ IdleWalk \in WalkType
        BY IdleTyped DEF IdleWalk
      <4>6. started.attempts = <<>> /\ Over(started, "refused").attempts = <<>>
            /\ [started EXCEPT !.pc = "ready", !.target = head].attempts = <<>>
        BY <4>5 DEF Over, WalkType
      <4> HIDE DEF started
      <4>7. walk'[w].attempts = <<>>
        BY <1>2, <4>4, <4>6
      <4>8. QED
        BY <4>2, <4>7
    <3>2. CASE Abandon(w)
      BY <1>2, <1>3, <3>2 DEF Abandon
    <3>3. CASE Attempt(w)
      <4>1. \A held : [walk[w] EXCEPT !.pc = "adapting", !.held = held, !.committed = FALSE,
                                     !.repaired = {}].attempts = walk[w].attempts
        BY <1>0 DEF WalkType
      <4>2. QED
        BY <1>2, <3>3, <4>1 DEF Attempt, Enter
    <3>4. CASE Dispatch(w)
      <4>1. [walk[w] EXCEPT !.pc = "streaming", !.dispatches = @ + 1,
                            !.controls = walk[w].base \ Unserved[walk[w].target]].attempts
              = walk[w].attempts
        BY <1>0 DEF WalkType
      <4>2. QED
        BY <1>2, <3>4, <4>1 DEF Dispatch
    <3>5. CASE Chunk(w)
      <4>1. PICK kind, keepsPulling : Forward(w, kind, keepsPulling)
        BY <3>5 DEF Chunk
      <4>2. QED
        BY <1>0, <4>1 DEF Forward, Put, Over, WalkType
    <3>6. QED
      BY <1>5, <3>1, <3>2, <3>3, <3>4, <3>5
  <2>2. QED
    BY <1>1, <2>1
<1>6. CASE BeginAtHead(w)
  BY <1>6, HeadIsFit DEF LastResort
<1>7. CASE BeginPastCooledHead(w)
  <2>1. Search(w, walk[w], Memory(walk[w].owner)) /\ walk[w].pc = "ready"
    BY <1>7 DEF BeginPastCooledHead
  <2>2. Memory(walk[w].owner) \in MemoryType
    BY WalkTyped, MemoryTyped DEF Inv
  <2>3. QED
    BY <2>1, <2>2, WalkTyped, ReadySearching, SearchIsLastResort
<1>8. CASE \E down \in Outage : ProbeAnswers(w, down)
  <2>1. PICK down : Advance(w, walk[w], Memory(walk[w].owner), down) /\ walk[w].pc = "probing"
    BY <1>8 DEF ProbeAnswers
  <2>2. Memory(walk[w].owner) \in MemoryType
    BY WalkTyped, MemoryTyped DEF Inv
  <2>3. QED
    BY <2>1, <2>2, WalkTyped, ReadySearching, AdvanceIsLastResort
<1>9. CASE Finish(w)
  <2>1. CASE FinishNormally(w) \/ FinishAborted(w) \/ EndWithoutFinish(w)
             \/ \E code \in Code : Repair(w, code) \/ FinishFailed(w, code)
    <3>1. \A c : [Narrowed(walk[w], c) EXCEPT !.dispatches = @ + 1].attempts = walk[w].attempts
      BY <1>0 DEF Narrowed, WalkType
    <3>2. walk'[w].attempts = walk[w].attempts
      BY <1>2, <1>3, <2>1, <3>1 DEF FinishNormally, FinishAborted, EndWithoutFinish, Repair, FinishFailed
    <3>3. QED
      BY <1>1, <3>2
  <2>2. ASSUME NEW code \in Code, Swallow(w, code) PROVE LastResort(w)
    <3> DEFINE rec == walk[w]
               mem == BookedMemory(rec, code)
    <3>1. CASE HasSwitchLeft(rec)
      <4>1. Search(w, Booked(rec, code), mem)
        BY <2>2, <3>1 DEF Swallow
      <4>2. mem \in MemoryType
        <5>1. Follows(mem, Memory(rec.owner), rec.cfg) /\ rec.cfg \in Config
          BY WalkTyped, BookedFollows, <2>2 DEF Inv, Swallow, WalkCoherent, Waiting
        <5>2. Memory(rec.owner) \in MemoryType
          BY WalkTyped, MemoryTyped DEF Inv
        <5>3. QED
          BY <5>1, <5>2, FollowsType DEF Inv
      <4>3. Booked(rec, code) \in WalkType /\ Searching(Booked(rec, code))
            /\ Booked(rec, code).attempts = walk[w].attempts
        BY <2>2, <3>1, WalkTyped, BookedSearching DEF Swallow, BeforeOutput
      <4>4. QED
        BY <4>1, <4>2, <4>3, SearchIsLastResort
    <3>2. CASE ~HasSwitchLeft(rec)
      <4>1. walk'[w].attempts = walk[w].attempts
        BY <1>2, <1>3, <2>2, <3>2 DEF Swallow
      <4>2. QED
        BY <1>1, <4>1
    <3>3. QED
      BY <3>1, <3>2
  <2>3. QED
    BY <1>9, <2>1, <2>2 DEF Finish
<1>10. QED
  BY <1>4, <1>5, <1>6, <1>7, <1>8, <1>9 DEF WalkStep, Pull

\* A suppressed route is attempted only when nothing better is left: as a walk's first
\* attempt, every other admitted exact route of its chain suppressed too, for any
\* chains, settings, policies and walks that share the memory (chain-walk.ts,
\* advanceFrom and the cooled-head re-entry).
THEOREM SuppressedIsLastResort == Spec => CooledIsLastResort
<1>1. Inv /\ [Next]_vars => [\A w \in Walk : LastResort(w)]_vars
  <2> SUFFICES ASSUME Inv, Next, NEW w \in Walk PROVE LastResort(w)
    OBVIOUS
  <2>1. CASE Surroundings
    <3>1. walk'[w].attempts = walk[w].attempts
      BY <2>1 DEF Surroundings, Tick, ChangeSettings, ChangePolicy, Snapshot, Dispose,
                  Inv, TypeOK, WalkType
    <3>2. QED
      BY <3>1 DEF LastResort
  <2>2. QED
    BY <2>1, WalkStepIsLastResort DEF Next
<1>2. [][\A w \in Walk : LastResort(w)]_vars => CooledIsLastResort
  BY DEF CooledIsLastResort, LastResort
<1>3. QED
  BY InvHolds, <1>1, <1>2, PTL DEF Spec

-----------------------------------------------------------------------------
(***************************************************************************)
(* Two limits every walk respects, for every value of the constants: a     *)
(* plugin-originated walk has no route in flight that the last policy it   *)
(* read does not admit, and a call costs a bounded number of requests; and *)
(* the refinement the runs check for two walks: every walk implements the  *)
(* failover contract.                                                      *)
(*                                                                         *)
(* Neither limit is inductive.  The first needs that a walk which nobody   *)
(* restricts admits every route, the second counts the requests of the     *)
(* attempt under way apart from those before it: an attempt has sent at    *)
(* most one more than the controls it has repaired.  Within says both of   *)
(* one record, and each action has one lemma that shows it of the record   *)
(* it leaves.                                                              *)
(***************************************************************************)

\* Requests an attempt may send, and what n attempts may.
PerAttempt == 1 + Cardinality(Control)
Quota(n) == n * PerAttempt

Unrestricted(rec) == ~rec.injected => rec.admitted = Route
Spent(rec) == rec.dispatches <= Quota(Len(rec.attempts))

Within(rec) ==
  /\ rec.pc \in Waiting => Unrestricted(rec)
  /\ rec.pc \in {"ready"} \cup Attempting => rec.target \in rec.admitted
  /\ Spent(rec)
  /\ rec.pc \in {"switching", "adapting"} => rec.dispatches <= Quota(Len(rec.attempts) - 1)
  /\ rec.pc = "adapting" => rec.repaired = {}
  /\ rec.pc = "streaming" =>
       rec.dispatches <= Quota(Len(rec.attempts) - 1) + 1 + Cardinality(rec.repaired)

AllWithin == \A w \in Walk : Within(walk[w])

-----------------------------------------------------------------------------
(* Arithmetic, and the shapes a record may take.                           *)

\* An attempt has room for one request and one per repairable control.
LEMMA RoomPerAttempt ==
  /\ Cardinality(Control) \in Nat /\ PerAttempt \in Nat
  /\ PerAttempt = 1 + Cardinality(Control)
  BY WalkAssumption, FS_CardinalityType DEF PerAttempt

\* One attempt more is one attempt's requests more.
LEMMA QuotaGrows ==
  ASSUME NEW n \in Nat
  PROVE  Quota(n) \in Nat /\ Quota(n + 1) = Quota(n) + PerAttempt
<1>1. PerAttempt \in Nat
  BY RoomPerAttempt
<1> HIDE DEF PerAttempt
<1>2. n * PerAttempt \in Nat /\ (n + 1) * PerAttempt = n * PerAttempt + PerAttempt
  BY <1>1
<1>3. QED
  BY <1>2 DEF Quota

\* A repaired control is one of the controls, and one more than before.
LEMMA RepairedCount ==
  ASSUME NEW R \in SUBSET Control
  PROVE  /\ Cardinality(R) \in Nat /\ Cardinality(R) <= Cardinality(Control)
         /\ \A c \in Control \ R : Cardinality(R \cup {c}) = Cardinality(R) + 1
<1>1. IsFiniteSet(R) /\ Cardinality(R) <= Cardinality(Control)
  BY WalkAssumption, FS_Subset
<1>2. QED
  BY <1>1, FS_CardinalityType, FS_AddElement

\* A walk that is over is charged for what it sent.
LEMMA OverWithin ==
  ASSUME NEW rec \in WalkType, Spent(rec), NEW pc \in Finished
  PROVE  Within(Over(rec, pc))
<1> DEFINE new == Over(rec, pc)
<1>1. new.pc = pc /\ new.attempts = rec.attempts /\ new.dispatches = rec.dispatches
  BY DEF Over, WalkType
<1> HIDE DEF new
<1>2. pc \notin Waiting /\ pc \notin {"ready"} \cup Attempting
      /\ pc \notin {"switching", "adapting"} /\ pc # "adapting" /\ pc # "streaming"
  BY DEF Finished, Waiting, Attempting
<1>3. QED
  BY <1>1, <1>2 DEF Within, Spent, new

\* An attempt begins with nothing sent, at a route the walk admits.
LEMMA ChosenWithin ==
  ASSUME NEW rec \in WalkType, Spent(rec), Unrestricted(rec), NEW r \in Route,
         r \in rec.admitted
  PROVE  Within(Chosen(rec, r))
<1> DEFINE new == Chosen(rec, r)
           n   == Len(rec.attempts)
<1>1. rec.attempts \in Seq(Route) /\ rec.dispatches \in Nat /\ n \in Nat
  BY DEF WalkType
<1>2. /\ new.pc = "switching" /\ new.attempts = Append(rec.attempts, r)
      /\ new.dispatches = rec.dispatches /\ new.target = r
      /\ new.injected = rec.injected /\ new.admitted = rec.admitted
  BY DEF Chosen, WalkType
<1>3. Len(new.attempts) = n + 1
  BY <1>1, <1>2
<1> HIDE DEF new
<1>4. rec.dispatches <= Quota(n)
  BY DEF Spent
<1>5. Quota(n) \in Nat /\ Quota(n + 1) = Quota(n) + PerAttempt /\ PerAttempt \in Nat
  BY <1>1, QuotaGrows, RoomPerAttempt
<1> HIDE DEF n
<1>6. Len(new.attempts) - 1 = n
  BY <1>1, <1>3
<1>7. new.dispatches <= Quota(n + 1)
  BY <1>1, <1>2, <1>4, <1>5
<1>8. QED
  BY <1>2, <1>3, <1>4, <1>6, <1>7 DEF Within, Spent, Unrestricted, new

\* Replacing one record by one within its limits.
LEMMA PutWithin ==
  ASSUME Inv, AllWithin, NEW w \in Walk, NEW rec, Within(rec), Put(w, rec)
  PROVE  AllWithin'
<1>1. walk \in [Walk -> WalkType]
  BY DEF Inv, TypeOK
<1>2. \A v \in Walk : walk'[v] = rec \/ walk'[v] = walk[v]
  BY <1>1 DEF Put
<1>3. QED
  BY <1>2 DEF AllWithin

\* The record of a walk under way.
LEMMA WalkWithin ==
  ASSUME Inv, AllWithin, NEW w \in Walk
  PROVE  /\ walk[w] \in WalkType /\ WalkCoherent(walk[w]) /\ Within(walk[w])
         /\ Spent(walk[w])
  BY WalkTyped DEF AllWithin, Within

-----------------------------------------------------------------------------
(* The search.                                                             *)

\* Whatever the search answers is admitted by the policy it read.
LEMMA AdvanceWithin ==
  ASSUME Inv, NEW w \in Walk, NEW rec \in WalkType, Searching(rec),
         Spent(rec), Unrestricted(rec),
         NEW mem, NEW down, Advance(w, rec, mem, down)
  PROVE  \E new : Within(new) /\ Put(w, new)
<1> DEFINE alive == Survivors(rec, mem, down)
           next  == Permitted(rec, alive)
           seen  == [rec EXCEPT !.admitted =
                       IF rec.injected THEN Admitted(policy[rec.owner]) ELSE @]
           r     == ResolveCandidate(rec.entries[Least(next)], rec.target)
<1>1. rec.injected => rec.owner \in Session
  BY DEF Searching, AttemptsCoherent
<1>2. rec.injected => Admitted(policy[rec.owner]) \in SUBSET Route
  BY <1>1, AdmittedRoutes DEF Inv
<1>3. seen.admitted = IF rec.injected THEN Admitted(policy[rec.owner]) ELSE Route
  BY DEF WalkType, Unrestricted
<1>4. seen \in WalkType /\ Spent(seen) /\ Unrestricted(seen)
  <2>1. seen = [rec EXCEPT !.admitted = seen.admitted]
    BY DEF WalkType
  <2>2. seen.admitted \in SUBSET Route
    BY <1>2, <1>3
  <2>3. /\ seen.attempts = rec.attempts /\ seen.dispatches = rec.dispatches
        /\ seen.injected = rec.injected
    BY DEF WalkType
  <2> HIDE DEF seen
  <2>4. seen \in WalkType
    BY <2>1, <2>2 DEF WalkType
  <2>5. QED
    BY <1>3, <2>3, <2>4 DEF Spent, Unrestricted
<1>5. CASE next # {} /\ Put(w, Chosen(SwitchCounted(seen), r))
  <2> DEFINE counted == SwitchCounted(seen)
  <2>1. next \subseteq alive /\ alive \subseteq CandidatePositions(rec.entries)
    BY DEF Permitted, Survivors, Surviving
  <2>2. Least(next) \in next
    <3>1. next \subseteq Nat
      <4>1. CandidatePositions(rec.entries) \subseteq Nat
        BY DEF CandidatePositions, WalkType
      <4> HIDE DEF next, alive
      <4>2. QED
        BY <2>1, <4>1
    <3> HIDE DEF next
    <3>2. QED
      BY <1>5, <3>1, LeastMember
  <2>3. r \in Route
    <3>1. rec.entries \in Seq(Entry) /\ rec.target \in Route
      BY DEF WalkType, Searching
    <3> HIDE DEF next, alive
    <3>2. QED
      BY <2>1, <2>2, <3>1, CandidateIsRoute
  <2>4. rec.injected => r \in Admitted(policy[rec.owner])
    BY <2>2 DEF Permitted
  <2> HIDE DEF next, alive, r
  <2>5. /\ counted.attempts = seen.attempts /\ counted.dispatches = seen.dispatches
        /\ counted.injected = seen.injected /\ counted.admitted = seen.admitted
        /\ counted \in WalkType
    <3> DEFINE n == IF seen.code = NoCode THEN seen.switches ELSE seen.switches + 1
    <3> HIDE DEF seen
    <3>1. n \in Nat
      BY <1>4 DEF WalkType
    <3>2. counted = [seen EXCEPT !.switches = n]
      BY DEF SwitchCounted
    <3> HIDE DEF n, counted
    <3>3. QED
      BY <1>4, <3>1, <3>2 DEF WalkType
  <2> HIDE DEF counted, seen
  <2>6. Spent(counted) /\ Unrestricted(counted) /\ r \in counted.admitted
    BY <1>3, <1>4, <2>3, <2>4, <2>5 DEF Spent, Unrestricted
  <2>7. Within(Chosen(counted, r))
    BY <2>3, <2>5, <2>6, ChosenWithin
  <2>8. QED
    BY <1>5, <2>7 DEF counted
<1>6. CASE Put(w, Over(seen, "done")) \/ Put(w, Over(seen, "refused"))
  <2> HIDE DEF seen
  <2>1. QED
    BY <1>4, <1>6, OverWithin DEF Finished
<1>7. CASE ~HeadRevoked(rec) /\ Put(w, Chosen(seen, rec.target))
  <2>1. rec.target \in Route
    BY DEF Searching
  <2>2. rec.target \in seen.admitted
    BY <1>3, <1>7, <2>1 DEF HeadRevoked
  <2> HIDE DEF seen
  <2>3. QED
    BY <1>4, <1>7, <2>1, <2>2, ChosenWithin
<1>8. QED
  BY <1>5, <1>6, <1>7 DEF Advance, seen

\* The same, when the catalog has to be asked first.
LEMMA SearchWithin ==
  ASSUME Inv, NEW w \in Walk, NEW rec \in WalkType, Searching(rec),
         Spent(rec), Unrestricted(rec), NEW mem, Search(w, rec, mem)
  PROVE  \E new : Within(new) /\ Put(w, new)
<1>1. CASE NeedsProbe(rec)
  <2> DEFINE new == [rec EXCEPT !.pc = "probing"]
  <2>1. Put(w, new)
    BY <1>1 DEF Search
  <2>2. /\ new.pc = "probing" /\ new.attempts = rec.attempts
        /\ new.dispatches = rec.dispatches /\ new.injected = rec.injected
        /\ new.admitted = rec.admitted
    BY DEF WalkType
  <2> HIDE DEF new
  <2>3. Within(new)
    BY <2>2 DEF Within, Spent, Unrestricted, Attempting
  <2>4. QED
    BY <2>1, <2>3
<1>2. CASE ~NeedsProbe(rec)
  BY <1>2, AdvanceWithin DEF Search
<1>3. QED
  BY <1>1, <1>2

-----------------------------------------------------------------------------
(* The steps of one walk.                                                  *)

\* A walk that waits admits every route, or what the policy admits.
LEMMA WaitingUnrestricted ==
  ASSUME NEW rec, Within(rec), rec.pc \in Waiting
  PROVE  Unrestricted(rec)
  BY DEF Within

\* A call is admitted at a head its policy admits, or refused.
LEMMA StartWithin ==
  ASSUME Inv, NEW w \in Walk, NEW s \in Session \cup {NoSession},
         NEW tail \in RootTails(s), NEW controls \in SUBSET Control, NEW llmUp,
         Start(w, s, tail, controls, llmUp)
  PROVE  \E new : Within(new) /\ Put(w, new)
<1> DEFINE entries == EntriesOf(s, tail)
           inj == s \in live \cap Injected
           adm == HeadAdmission(s)
           started == [IdleWalk EXCEPT !.owner = s, !.cfg = config, !.entries = entries,
                    !.injected = inj, !.base = controls, !.admitted = adm]
<1>1. config \in Config
  BY DEF Inv, TypeOK
<1>2. entries \in Seq(Entry)
  <2>1. tail \in Seq(Entry)
    BY <1>1, WalkAssumption DEF RootTails
  <2>2. \A r \in DOMAIN config.roles : config.roles[r].chain \in Seq(Entry)
    BY <1>1, WalkAssumption
  <2>3. QED
    BY <2>1, <2>2, RoleChainIsChain DEF EntriesOf
<1>3. inj \in BOOLEAN /\ (inj => s \in Session) /\ (~inj => adm = Route)
  BY WalkAssumption DEF HeadAdmission
<1>4. adm \in SUBSET Route
  BY <1>3, AdmittedRoutes DEF HeadAdmission, Inv
<1> HIDE DEF entries, inj, adm
<1>5. started \in WalkType
  BY <1>1, <1>2, <1>3, <1>4, IdleTyped DEF WalkType
<1>6. /\ started.injected = inj /\ started.attempts = <<>> /\ started.dispatches = 0
      /\ started.admitted = adm
  BY IdleTyped DEF WalkType, IdleWalk
<1> HIDE DEF started
<1>7. Len(<<>>) = 0 /\ Quota(0) \in Nat
  BY QuotaGrows
<1>8. Spent(started)
  BY <1>6, <1>7 DEF Spent
<1>9. CASE Refuses(s, entries) \/ ~llmUp
  <2>1. Put(w, Over(started, "refused"))
    BY <1>9 DEF Start, started, entries, inj, adm
  <2>2. QED
    BY <1>5, <1>8, <2>1, OverWithin DEF Finished
<1>10. CASE ~(Refuses(s, entries) \/ ~llmUp)
  <2> DEFINE head == FirstDispatchableExactHead(entries, adm)
             new == [started EXCEPT !.pc = "ready", !.target = head]
  <2>1. Put(w, new)
    BY <1>10 DEF Start, started, entries, inj, adm
  <2>2. head \in adm
    BY <1>2, <1>4, <1>10, HeadIsAllowed DEF Refuses, adm
  <2> HIDE DEF head
  <2>3. /\ new.injected = inj /\ new.pc = "ready" /\ new.attempts = <<>>
        /\ new.dispatches = 0 /\ new.admitted = adm /\ new.target = head
    BY <1>5, <1>6 DEF WalkType
  <2> HIDE DEF new
  <2>4. Within(new)
    BY <1>3, <1>7, <2>2, <2>3 DEF Within, Spent, Unrestricted, Attempting
  <2>5. QED
    BY <2>1, <2>4
<1>11. QED
  BY <1>9, <1>10

\* Entering an attempt sends nothing.
LEMMA EnterWithin ==
  ASSUME NEW w \in Walk, NEW rec \in WalkType, Within(rec), rec.pc = "switching",
         NEW mem, Enter(w, rec, mem)
  PROVE  \E new : Within(new) /\ Put(w, new)
<1> DEFINE b   == rec.owner \in known
           new == [rec EXCEPT !.pc = "adapting", !.held = b,
                              !.committed = FALSE, !.repaired = {}]
<1>1. Put(w, new)
  BY DEF Enter
<1> HIDE DEF b
<1>2. /\ new.pc = "adapting" /\ new.repaired = {} /\ new.attempts = rec.attempts
      /\ new.dispatches = rec.dispatches /\ new.injected = rec.injected
      /\ new.admitted = rec.admitted /\ new.target = rec.target
  BY DEF WalkType
<1> HIDE DEF new
<1>3. Within(new)
  BY <1>2 DEF Within, Spent, Unrestricted, Attempting, Waiting
<1>4. QED
  BY <1>1, <1>3

\* The first pull attempts the head, or looks past it.
LEMMA PullWithin ==
  ASSUME Inv, AllWithin, NEW w \in Walk, Pull(w)
  PROVE  \E new : Within(new) /\ Put(w, new)
<1> DEFINE rec == walk[w]
           mem == Memory(rec.owner)
<1>1. /\ rec \in WalkType /\ WalkCoherent(rec) /\ Within(rec) /\ Spent(rec)
  BY WalkWithin
<1>2. rec.pc = "ready"
  BY DEF Pull, BeginAtHead, BeginPastCooledHead
<1>3. Unrestricted(rec) /\ rec.target \in rec.admitted /\ rec.target \in Route
  BY <1>1, <1>2 DEF Within, WalkCoherent, Waiting
<1>4. CASE BeginAtHead(w)
  <2> DEFINE new == Chosen(rec, rec.target)
  <2>1. PICK m : Enter(w, new, m)
    BY <1>4 DEF BeginAtHead
  <2>2. new \in WalkType
    <3>1. rec.attempts \in Seq(Route)
      BY <1>1 DEF WalkType
    <3>2. Append(rec.attempts, rec.target) \in Seq(Route)
      BY <1>3, <3>1
    <3>3. "switching" \in {"idle"} \cup Waiting \cup Finished
      BY DEF Waiting
    <3> HIDE DEF rec
    <3>4. QED
      BY <1>1, <3>2, <3>3 DEF Chosen, WalkType
  <2>3. new.pc = "switching"
    BY <1>1 DEF Chosen, WalkType
  <2> HIDE DEF rec
  <2>4. Within(new)
    BY <1>1, <1>3, ChosenWithin
  <2> HIDE DEF new
  <2>5. QED
    BY <2>1, <2>2, <2>3, <2>4, EnterWithin
<1>5. CASE BeginPastCooledHead(w)
  <2>1. Search(w, rec, mem)
    BY <1>5 DEF BeginPastCooledHead
  <2>2. Searching(rec)
    BY <1>1, <1>2, ReadySearching
  <2> HIDE DEF rec, mem
  <2>3. QED
    BY <1>1, <1>3, <2>1, <2>2, SearchWithin
<1>6. QED
  BY <1>4, <1>5 DEF Pull

\* The catalog answers.
LEMMA ProbeWithin ==
  ASSUME Inv, AllWithin, NEW w \in Walk, NEW down, ProbeAnswers(w, down)
  PROVE  \E new : Within(new) /\ Put(w, new)
<1> DEFINE rec == walk[w]
<1>1. /\ rec \in WalkType /\ WalkCoherent(rec) /\ Within(rec) /\ Spent(rec)
  BY WalkWithin
<1>2. rec.pc = "probing" /\ Advance(w, rec, Memory(rec.owner), down)
  BY DEF ProbeAnswers
<1>3. Searching(rec) /\ Unrestricted(rec)
  BY <1>1, <1>2, ReadySearching, WaitingUnrestricted DEF Waiting
<1> HIDE DEF rec
<1>4. QED
  BY <1>1, <1>2, <1>3, AdvanceWithin

\* The request goes out: the first of its attempt.
LEMMA DispatchWithin ==
  ASSUME Inv, AllWithin, NEW w \in Walk, Dispatch(w)
  PROVE  \E new : Within(new) /\ Put(w, new)
<1> DEFINE rec == walk[w]
           c   == rec.base \ Unserved[rec.target]
           d   == rec.dispatches + 1
           new == [rec EXCEPT !.pc = "streaming", !.dispatches = d, !.controls = c]
           n   == Len(rec.attempts)
<1>1. rec \in WalkType /\ WalkCoherent(rec) /\ Within(rec) /\ rec.pc = "adapting"
  BY WalkWithin DEF Dispatch
<1>2. Put(w, new)
  BY DEF Dispatch
<1>3. n \in Nat \ {0} /\ rec.dispatches \in Nat
  BY <1>1 DEF WalkCoherent, Attempting, WalkType
<1>4. rec.dispatches <= Quota(n - 1) /\ rec.repaired = {} /\ Unrestricted(rec)
      /\ rec.target \in rec.admitted
  BY <1>1 DEF Within, Attempting, Waiting
<1> HIDE DEF rec, c
<1>5. /\ new.pc = "streaming" /\ new.attempts = rec.attempts /\ new.dispatches = d
      /\ new.injected = rec.injected /\ new.admitted = rec.admitted
      /\ new.target = rec.target /\ new.repaired = rec.repaired
  BY <1>1 DEF WalkType
<1> HIDE DEF new
<1>6. Quota(n) = Quota(n - 1) + PerAttempt /\ Quota(n - 1) \in Nat
  <2>1. n - 1 \in Nat /\ n = (n - 1) + 1
    BY <1>3
  <2> HIDE DEF n
  <2>2. QED
    BY <2>1, QuotaGrows
<1>7. Cardinality({}) = 0
  BY FS_EmptySet
<1>8. d <= Quota(n) /\ d <= Quota(n - 1) + 1 + Cardinality(rec.repaired)
  <2> HIDE DEF n
  <2>1. QED
    BY <1>3, <1>4, <1>6, <1>7, RoomPerAttempt
<1> HIDE DEF d
<1>9. Within(new)
  BY <1>4, <1>5, <1>8 DEF Within, Spent, Unrestricted, Attempting, Waiting
<1>10. QED
  BY <1>2, <1>9

\* A repair sends one request more and repairs one control more.
LEMMA RepairWithin ==
  ASSUME Inv, AllWithin, NEW w \in Walk, NEW code, Repair(w, code)
  PROVE  \E new : Within(new) /\ Put(w, new)
<1> DEFINE rec == walk[w]
           c   == CHOOSE d \in Repairable(rec, code) : TRUE
           p   == rec.repaired \cup {c}
           l   == rec.controls \ {c}
           d   == rec.dispatches + 1
           new == [[rec EXCEPT !.repaired = p, !.controls = l] EXCEPT !.dispatches = d]
           n   == Len(rec.attempts)
<1>1. rec \in WalkType /\ WalkCoherent(rec) /\ Within(rec) /\ rec.pc = "streaming"
  BY WalkWithin DEF Repair
<1>2. Put(w, new)
  BY DEF Repair, Narrowed
<1>3. n \in Nat \ {0} /\ rec.dispatches \in Nat /\ rec.repaired \in SUBSET Control
  BY <1>1 DEF WalkCoherent, Attempting, WalkType
<1>4. c \in Control \ rec.repaired
  <2>1. c \in Repairable(rec, code)
    BY DEF Repair
  <2>2. rec.controls \in SUBSET Control
    BY <1>1 DEF WalkType
  <2> HIDE DEF c
  <2>3. QED
    BY <2>1, <2>2 DEF Repairable
<1>5. /\ Unrestricted(rec) /\ rec.target \in rec.admitted
      /\ rec.dispatches <= Quota(n - 1) + 1 + Cardinality(rec.repaired)
  BY <1>1 DEF Within, Attempting, Waiting
<1> HIDE DEF rec, c, l
<1>6. /\ Cardinality(p) = Cardinality(rec.repaired) + 1
      /\ Cardinality(rec.repaired) \in Nat
      /\ Cardinality(p) <= Cardinality(Control)
  <2>1. p \in SUBSET Control
    BY <1>3, <1>4
  <2>2. Cardinality(p) <= Cardinality(Control)
    <3> HIDE DEF p
    <3>1. QED
      BY <2>1, RepairedCount
  <2>3. QED
    BY <1>3, <1>4, <2>2, RepairedCount
<1> HIDE DEF p
<1>7. /\ new.pc = "streaming" /\ new.attempts = rec.attempts /\ new.dispatches = d
      /\ new.injected = rec.injected /\ new.admitted = rec.admitted
      /\ new.target = rec.target /\ new.repaired = p
  BY <1>1 DEF WalkType
<1> HIDE DEF new
<1>8. Quota(n) = Quota(n - 1) + PerAttempt /\ Quota(n - 1) \in Nat
  <2>1. n - 1 \in Nat /\ n = (n - 1) + 1
    BY <1>3
  <2> HIDE DEF n
  <2>2. QED
    BY <2>1, QuotaGrows
<1>9. d <= Quota(n) /\ d <= Quota(n - 1) + 1 + Cardinality(p)
  <2> HIDE DEF n
  <2>1. QED
    BY <1>3, <1>5, <1>6, <1>8, RoomPerAttempt
<1> HIDE DEF d
<1>10. Within(new)
  BY <1>5, <1>7, <1>9 DEF Within, Spent, Unrestricted, Attempting, Waiting
<1>11. QED
  BY <1>2, <1>10

\* A forwarded chunk sends nothing.
LEMMA ForwardWithin ==
  ASSUME Inv, AllWithin, NEW w \in Walk, NEW kind, NEW keepsPulling,
         Forward(w, kind, keepsPulling)
  PROVE  \E new : Within(new) /\ Put(w, new)
<1> DEFINE rec == walk[w]
           b   == Committed(rec, kind)
           src == IF kind = "output" THEN rec.source \cup {rec.target} ELSE rec.source
           new == [rec EXCEPT !.committed = b, !.source = src]
<1>1. /\ rec \in WalkType /\ WalkCoherent(rec) /\ Within(rec) /\ Spent(rec)
      /\ rec.pc = "streaming"
  BY WalkWithin DEF Forward
<1>2. Put(w, IF keepsPulling THEN new ELSE Over(new, "closed"))
  BY DEF Forward
<1>3. rec.target \in Route
  BY <1>1 DEF WalkCoherent, Waiting
<1>4. b \in BOOLEAN /\ src \in SUBSET Route
  BY <1>1, <1>3 DEF Committed, WalkType
<1> HIDE DEF rec, b, src
<1>5. new \in WalkType
  BY <1>1, <1>4 DEF WalkType
<1>6. /\ new.pc = rec.pc /\ new.attempts = rec.attempts /\ new.dispatches = rec.dispatches
      /\ new.injected = rec.injected /\ new.admitted = rec.admitted
      /\ new.target = rec.target /\ new.repaired = rec.repaired
  BY <1>1 DEF WalkType
<1> HIDE DEF new
<1>7. Within(new) /\ Spent(new)
  BY <1>1, <1>6 DEF Within, Spent, Unrestricted
<1>8. QED
  BY <1>2, <1>5, <1>7, OverWithin DEF Finished

\* A swallowed failure leads to another route, or ends the walk.
LEMMA SwallowWithin ==
  ASSUME Inv, AllWithin, NEW w \in Walk, NEW code \in Code, Swallow(w, code)
  PROVE  \E new : Within(new) /\ Put(w, new)
<1> DEFINE rec == walk[w]
           mem == BookedMemory(rec, code)
           new == Booked(rec, code)
<1>1. /\ rec \in WalkType /\ WalkCoherent(rec) /\ Within(rec) /\ Spent(rec)
      /\ rec.pc = "streaming" /\ ~rec.committed
  BY WalkWithin DEF Swallow, BeforeOutput
<1>2. CASE ~HasSwitchLeft(rec)
  BY <1>1, <1>2, OverWithin DEF Swallow, Finished
<1>3. CASE HasSwitchLeft(rec)
  <2>1. Search(w, new, mem)
    BY <1>3 DEF Swallow
  <2>2. new \in WalkType /\ Searching(new)
    BY <1>1, <1>3, BookedSearching
  <2>3. /\ new.attempts = rec.attempts /\ new.dispatches = rec.dispatches
        /\ new.injected = rec.injected /\ new.admitted = rec.admitted
    BY <1>1 DEF Booked, WalkType
  <2>4. Unrestricted(rec)
    BY <1>1 DEF Within, Waiting
  <2> HIDE DEF new, mem, rec
  <2>5. Spent(new) /\ Unrestricted(new)
    BY <1>1, <2>3, <2>4 DEF Spent, Unrestricted
  <2>6. QED
    BY <2>1, <2>2, <2>5, SearchWithin
<1>4. QED
  BY <1>2, <1>3

\* Starting an attempt the search chose.
LEMMA AttemptWithin ==
  ASSUME Inv, AllWithin, NEW w \in Walk, Attempt(w)
  PROVE  \E new : Within(new) /\ Put(w, new)
<1> DEFINE rec == walk[w]
<1>1. /\ rec \in WalkType /\ Within(rec)
      /\ rec.pc = "switching" /\ Enter(w, rec, Memory(rec.owner))
  BY WalkWithin DEF Attempt
<1> HIDE DEF rec
<1>2. QED
  BY <1>1, EnterWithin

\* A walk that simply stops.
LEMMA StopWithin ==
  ASSUME Inv, AllWithin, NEW w \in Walk, NEW pc \in Finished, Put(w, Over(walk[w], pc))
  PROVE  \E new : Within(new) /\ Put(w, new)
  BY WalkWithin, OverWithin

-----------------------------------------------------------------------------
(* The theorems.                                                           *)

\* Every step of a walk leaves its record within the limits.
LEMMA WalkStepWithin ==
  ASSUME Inv, AllWithin, NEW w \in Walk, WalkStep(w)
  PROVE  AllWithin'
<1>1. \E new : Within(new) /\ Put(w, new)
  <2>1. CASE Call(w)
    <3>1. PICK s \in Owner, controls \in Request, llmUp \in LlmUp :
            \E tail \in RootTails(s) : Start(w, s, tail, controls, llmUp)
      BY <2>1 DEF Call
    <3>2. s \in Session \cup {NoSession} /\ controls \in SUBSET Control
      BY WalkAssumption
    <3>3. QED
      BY <3>1, <3>2, StartWithin
  <2>2. CASE Pull(w)
    BY <2>2, PullWithin
  <2>3. CASE Abandon(w)
    BY <2>3, StopWithin DEF Abandon, Finished
  <2>4. CASE \E down \in Outage : ProbeAnswers(w, down)
    BY <2>4, ProbeWithin
  <2>5. CASE Attempt(w)
    BY <2>5, AttemptWithin
  <2>6. CASE Dispatch(w)
    BY <2>6, DispatchWithin
  <2>7. CASE Chunk(w)
    BY <2>7, ForwardWithin DEF Chunk
  <2>8. CASE Finish(w)
    <3>1. CASE FinishNormally(w)
      BY <3>1, StopWithin DEF FinishNormally, Finished
    <3>2. CASE FinishAborted(w)
      BY <3>2, StopWithin DEF FinishAborted, Finished
    <3>3. CASE EndWithoutFinish(w)
      BY <3>3, StopWithin DEF EndWithoutFinish, Finished
    <3>4. ASSUME NEW code \in Code, Repair(w, code)
          PROVE  \E new : Within(new) /\ Put(w, new)
      BY <3>4, RepairWithin
    <3>5. ASSUME NEW code \in Code, Swallow(w, code)
          PROVE  \E new : Within(new) /\ Put(w, new)
      BY <3>5, SwallowWithin
    <3>6. ASSUME NEW code \in Code, FinishFailed(w, code)
          PROVE  \E new : Within(new) /\ Put(w, new)
      BY <3>6, StopWithin DEF FinishFailed, Finished
    <3>7. QED
      BY <2>8, <3>1, <3>2, <3>3, <3>4, <3>5, <3>6 DEF Finish
  <2>9. QED
    BY <2>1, <2>2, <2>3, <2>4, <2>5, <2>6, <2>7, <2>8 DEF WalkStep
<1>2. QED
  BY <1>1, PutWithin

\* The surroundings never touch what the limits are about.
LEMMA SurroundingsWithin ==
  ASSUME Inv, AllWithin, Surroundings
  PROVE  AllWithin'
<1>1. CASE walk' = walk
  BY <1>1 DEF AllWithin
<1>2. ASSUME NEW s \in Session, Dispose(s) PROVE AllWithin'
  <2>1. ASSUME NEW w \in Walk PROVE Within(walk'[w])
    <3> DEFINE rec == walk[w]
               b   == rec.held /\ rec.owner # s
               new == [rec EXCEPT !.held = b]
    <3>1. walk'[w] = new
      BY <1>2 DEF Dispose
    <3>2. rec \in WalkType /\ Within(rec)
      BY WalkWithin
    <3> HIDE DEF b, rec
    <3>3. /\ new.pc = rec.pc /\ new.attempts = rec.attempts
          /\ new.dispatches = rec.dispatches /\ new.injected = rec.injected
          /\ new.admitted = rec.admitted /\ new.target = rec.target
          /\ new.repaired = rec.repaired
      BY <3>2 DEF WalkType
    <3> HIDE DEF new
    <3>4. Within(new)
      BY <3>2, <3>3 DEF Within, Spent, Unrestricted
    <3>5. QED
      BY <3>1, <3>4
  <2>2. QED
    BY <2>1 DEF AllWithin
<1>3. QED
  BY <1>1, <1>2 DEF Surroundings, Tick, ChangeSettings, ChangePolicy, Snapshot

\* Nothing has been sent when the plugin has just been applied.
LEMMA InitWithin == Init => AllWithin
<1> SUFFICES ASSUME Init, NEW w \in Walk PROVE Within(walk[w])
  BY DEF AllWithin
<1>1. walk[w] = IdleWalk
  BY DEF Init
<1>2. IdleWalk.pc = "idle" /\ IdleWalk.attempts = <<>> /\ IdleWalk.dispatches = 0
  BY DEF IdleWalk
<1>3. Len(<<>>) = 0 /\ 0 <= Quota(0)
  BY QuotaGrows
<1> HIDE DEF IdleWalk
<1>4. QED
  BY <1>1, <1>2, <1>3 DEF Within, Spent, Waiting, Attempting

\* Every step leaves every walk within its limits.
LEMMA NextWithin ==
  ASSUME Inv, AllWithin, [Next]_vars
  PROVE  AllWithin'
<1>1. CASE UNCHANGED vars
  BY <1>1 DEF vars, AllWithin
<1>2. CASE Next
  BY <1>2, WalkStepWithin, SurroundingsWithin DEF Next
<1>3. QED
  BY <1>1, <1>2

\* Both limits hold of every walk in every reachable state.
LEMMA WithinHolds == Spec => [](Inv /\ AllWithin)
<1>1. Init => Inv /\ AllWithin
  BY InitInv, InitWithin
<1>2. Inv /\ AllWithin /\ [Next]_vars => Inv' /\ AllWithin'
  BY NextSound, NextWithin DEF StepSound
<1>3. QED
  BY <1>1, <1>2, PTL DEF Spec

\* A plugin-originated walk has no route in flight that the last policy it read does
\* not admit (chain-walk.ts: currentAdmitted), whatever the policy does while its
\* probes are awaited and however often it is read as unprovable.
THEOREM AdmittedInFlight == Spec => []InjectedAdmitted
<1>1. AllWithin => InjectedAdmitted
  BY DEF AllWithin, Within, InjectedAdmitted
<1>2. QED
  BY WithinHolds, <1>1, PTL

\* One call costs at most maxSwitchesPerStep + 1 attempts, and an attempt one request
\* and one more for every control it repairs (chain-walk.ts: the switch cap and the
\* per-candidate repaired set), so a provider that rejects everything cannot make the
\* plugin send without end.
THEOREM RequestsAreBounded == Spec => []WorkBounded
<1>1. ASSUME Inv, AllWithin PROVE WorkBounded
  <2>1. ASSUME NEW w \in Walk
        PROVE  /\ Len(walk[w].attempts) <= walk[w].cfg.maxSwitchesPerStep + 1
               /\ walk[w].dispatches <= Len(walk[w].attempts) * (1 + Cardinality(Control))
    <3>1. WalkCoherent(walk[w]) /\ Spent(walk[w])
      BY <1>1, WalkWithin
    <3>2. QED
      BY <3>1 DEF WalkCoherent, AttemptsCoherent, Spent, Quota, PerAttempt
  <2>2. QED
    BY <2>1 DEF WorkBounded
<1>2. QED
  BY WithinHolds, <1>1, PTL

-----------------------------------------------------------------------------
(* The failover contract.  A step of a walk adds at most one route to what *)
(* it tried or shows at most one piece of output (Moves); that the route   *)
(* is new, within the budget and tried before any output, and that the     *)
(* output is that of the last route, is what the invariant says of the     *)
(* record after the step.                                                  *)

\* What one step may do to what the caller of a walk knows of it.
Keeps(old, new) == new.attempts = old.attempts /\ new.source = old.source

Tries(old, new) ==
  /\ new.source = old.source
  /\ new.pc \in {"switching", "adapting"}
  /\ \E r : new.attempts = Append(old.attempts, r)

Shows(old, new) ==
  /\ new.attempts = old.attempts
  /\ new.source = old.source \cup {old.target}

Moves(old, new) ==
  /\ old.pc \notin Finished
  /\ Keeps(old, new) \/ Tries(old, new) \/ Shows(old, new)

\* One walk's record is replaced by one it may move to.
Moved(w) == \E new : Put(w, new) /\ Moves(walk[w], new)

-----------------------------------------------------------------------------
(* The steps of one walk.                                                  *)

\* A walk that is over shows what it showed.
LEMMA OverKeeps ==
  ASSUME NEW rec \in WalkType, NEW pc
  PROVE  Keeps(rec, Over(rec, pc))
  BY DEF Over, WalkType, Keeps

\* A choice is one more route tried.
LEMMA ChosenTries ==
  ASSUME NEW rec \in WalkType, NEW r
  PROVE  Tries(rec, Chosen(rec, r)) /\ Chosen(rec, r).pc = "switching"
  BY DEF Chosen, WalkType, Tries

\* The outcome of a search, seen from the record it searched for.
LEMMA AdvanceMoves ==
  ASSUME NEW w \in Walk, NEW rec \in WalkType, NEW mem, NEW down,
         Advance(w, rec, mem, down)
  PROVE  \E new : Put(w, new) /\ (Keeps(rec, new) \/ Tries(rec, new))
<1> DEFINE alive == Survivors(rec, mem, down)
           next  == Permitted(rec, alive)
           a     == IF rec.injected THEN Admitted(policy[rec.owner]) ELSE rec.admitted
           seen  == [rec EXCEPT !.admitted = a]
           n     == IF seen.code = NoCode THEN seen.switches ELSE seen.switches + 1
           mid   == [seen EXCEPT !.switches = n]
           r     == ResolveCandidate(rec.entries[Least(next)], rec.target)
<1>1. \/ Put(w, Chosen(mid, r))
      \/ Put(w, Over(seen, "done"))
      \/ Put(w, Over(seen, "refused"))
      \/ Put(w, Chosen(seen, rec.target))
  BY DEF Advance, SwitchCounted
<1> HIDE DEF a, n, r
<1>2. /\ seen.attempts = rec.attempts /\ seen.source = rec.source
      /\ mid.attempts = rec.attempts /\ mid.source = rec.source
  BY DEF WalkType
<1>3. ASSUME NEW r0
      PROVE  /\ Tries(rec, Chosen(seen, r0)) /\ Tries(rec, Chosen(mid, r0))
             /\ Keeps(rec, Over(seen, "done")) /\ Keeps(rec, Over(seen, "refused"))
  <2>1. /\ Chosen(seen, r0).attempts = Append(rec.attempts, r0)
        /\ Chosen(seen, r0).source = rec.source /\ Chosen(seen, r0).pc = "switching"
    BY DEF Chosen, WalkType
  <2>2. /\ Chosen(mid, r0).attempts = Append(rec.attempts, r0)
        /\ Chosen(mid, r0).source = rec.source /\ Chosen(mid, r0).pc = "switching"
    BY DEF Chosen, WalkType
  <2>3. \A pc : /\ Over(seen, pc).attempts = rec.attempts
                /\ Over(seen, pc).source = rec.source
    BY DEF Over, WalkType
  <2> HIDE DEF seen, mid
  <2>4. QED
    BY <2>1, <2>2, <2>3 DEF Tries, Keeps
<1> HIDE DEF seen, mid
<1>4. QED
  BY <1>1, <1>3

\* The same, when the catalog has to be asked first.
LEMMA SearchMoves ==
  ASSUME NEW w \in Walk, NEW rec \in WalkType, NEW mem, Search(w, rec, mem)
  PROVE  \E new : Put(w, new) /\ (Keeps(rec, new) \/ Tries(rec, new))
<1>1. CASE NeedsProbe(rec)
  <2>1. Put(w, [rec EXCEPT !.pc = "probing"])
    BY <1>1 DEF Search
  <2>2. Keeps(rec, [rec EXCEPT !.pc = "probing"])
    BY DEF Keeps, WalkType
  <2>3. QED
    BY <2>1, <2>2
<1>2. CASE ~NeedsProbe(rec)
  BY <1>2, AdvanceMoves DEF Search
<1>3. QED
  BY <1>1, <1>2

\* A call starts with nothing tried and nothing shown.
LEMMA StartMoves ==
  ASSUME Inv, NEW w \in Walk, NEW s, NEW tail, NEW controls, NEW llmUp,
         Start(w, s, tail, controls, llmUp)
  PROVE  Moved(w)
<1> DEFINE entries == EntriesOf(s, tail)
           i == s \in live \cap Injected
           a == HeadAdmission(s)
           started == [IdleWalk EXCEPT !.owner = s, !.cfg = config, !.entries = entries,
                    !.injected = i, !.base = controls, !.admitted = a]
           h == FirstDispatchableExactHead(entries, a)
           ready == [started EXCEPT !.pc = "ready", !.target = h]
<1>1. Put(w, Over(started, "refused")) \/ Put(w, ready)
  BY DEF Start
<1>2. walk[w].pc = "idle" /\ walk[w].attempts = <<>> /\ walk[w].source = {}
  BY WalkTyped DEF Start, WalkCoherent, BeforeFirstAttempt
<1> HIDE DEF entries, i, a, h
<1>3. /\ Over(started, "refused").attempts = <<>> /\ Over(started, "refused").source = {}
      /\ ready.attempts = <<>> /\ ready.source = {}
  BY DEF Over, IdleWalk
<1> HIDE DEF started, ready
<1>4. Keeps(walk[w], Over(started, "refused")) /\ Keeps(walk[w], ready)
  BY <1>2, <1>3 DEF Keeps
<1>5. walk[w].pc \notin Finished
  BY <1>2 DEF Finished
<1>6. QED
  BY <1>1, <1>4, <1>5 DEF Moved, Moves

\* The first pull tries the head, or what the search finds past it.
LEMMA PullMoves ==
  ASSUME Inv, NEW w \in Walk, Pull(w)
  PROVE  Moved(w)
<1> DEFINE rec == walk[w]
<1>1. rec \in WalkType /\ rec.pc = "ready"
  BY WalkTyped DEF Pull, BeginAtHead, BeginPastCooledHead
<1>2. rec.pc \notin Finished
  BY <1>1 DEF Finished
<1>3. CASE BeginAtHead(w)
  <2> DEFINE t   == rec.target
             mid == Chosen(rec, t)
             b   == mid.owner \in known
             new == [mid EXCEPT !.pc = "adapting", !.held = b,
                                !.committed = FALSE, !.repaired = {}]
  <2>1. Put(w, new)
    BY <1>3 DEF BeginAtHead, Enter
  <2> HIDE DEF rec, t, b
  <2>2. /\ new.attempts = Append(rec.attempts, t) /\ new.source = rec.source
        /\ new.pc = "adapting"
    BY <1>1 DEF Chosen, WalkType
  <2> HIDE DEF mid, new
  <2>3. Tries(rec, new)
    BY <2>2 DEF Tries
  <2>4. QED
    BY <1>2, <2>1, <2>3 DEF Moved, Moves, rec
<1>4. CASE BeginPastCooledHead(w)
  <2>1. Search(w, rec, Memory(rec.owner))
    BY <1>4 DEF BeginPastCooledHead
  <2>2. QED
    BY <1>1, <1>2, <2>1, SearchMoves DEF Moved, Moves
<1>5. QED
  BY <1>3, <1>4 DEF Pull

\* The catalog answers.
LEMMA ProbeMoves ==
  ASSUME Inv, NEW w \in Walk, NEW down, ProbeAnswers(w, down)
  PROVE  Moved(w)
<1> DEFINE rec == walk[w]
<1>1. /\ rec \in WalkType /\ rec.pc = "probing"
      /\ Advance(w, rec, Memory(rec.owner), down)
  BY WalkTyped DEF ProbeAnswers
<1>2. rec.pc \notin Finished
  BY <1>1 DEF Finished
<1>3. QED
  BY <1>1, <1>2, AdvanceMoves DEF Moved, Moves

\* Entering an attempt and sending its request change nothing the caller knows.
LEMMA AttemptMoves ==
  ASSUME Inv, NEW w \in Walk, Attempt(w) \/ Dispatch(w)
  PROVE  Moved(w)
<1> DEFINE rec == walk[w]
           b   == rec.owner \in known
           c   == rec.base \ Unserved[rec.target]
           d   == rec.dispatches + 1
           entered == [rec EXCEPT !.pc = "adapting", !.held = b,
                                  !.committed = FALSE, !.repaired = {}]
           sent == [rec EXCEPT !.pc = "streaming", !.dispatches = d, !.controls = c]
<1>1. rec \in WalkType /\ rec.pc \in {"switching", "adapting"}
  BY WalkTyped DEF Attempt, Dispatch
<1>2. Put(w, entered) \/ Put(w, sent)
  BY DEF Attempt, Enter, Dispatch
<1>3. rec.pc \notin Finished
  BY <1>1 DEF Finished
<1> HIDE DEF b, c, d, rec
<1>4. Keeps(rec, entered) /\ Keeps(rec, sent)
  BY <1>1 DEF Keeps, WalkType
<1> HIDE DEF entered, sent
<1>5. QED
  BY <1>2, <1>3, <1>4 DEF Moved, Moves, rec

\* Output of the route in flight reaches the caller.
LEMMA ForwardMoves ==
  ASSUME Inv, NEW w \in Walk, NEW kind, NEW keepsPulling, Forward(w, kind, keepsPulling)
  PROVE  Moved(w)
<1> DEFINE rec == walk[w]
           b   == Committed(rec, kind)
           src == IF kind = "output" THEN rec.source \cup {rec.target} ELSE rec.source
           new == [rec EXCEPT !.committed = b, !.source = src]
<1>1. rec \in WalkType /\ rec.pc = "streaming"
  BY WalkTyped DEF Forward
<1>2. Put(w, new) \/ Put(w, Over(new, "closed"))
  BY DEF Forward
<1>3. rec.pc \notin Finished
  BY <1>1 DEF Finished
<1>4. src = rec.source \/ src = rec.source \cup {rec.target}
  OBVIOUS
<1> HIDE DEF b, src, rec
<1>5. /\ new.attempts = rec.attempts /\ new.source = src
      /\ Over(new, "closed").attempts = rec.attempts /\ Over(new, "closed").source = src
  BY <1>1 DEF WalkType, Over
<1> HIDE DEF new
<1>6. /\ Keeps(rec, new) \/ Shows(rec, new)
      /\ Keeps(rec, Over(new, "closed")) \/ Shows(rec, Over(new, "closed"))
  BY <1>4, <1>5 DEF Keeps, Shows
<1>7. QED
  BY <1>2, <1>3, <1>6 DEF Moved, Moves, rec

\* A walk that simply stops.
LEMMA StopMoves ==
  ASSUME Inv, NEW w \in Walk, walk[w].pc \in Waiting, NEW pc, Put(w, Over(walk[w], pc))
  PROVE  Moved(w)
<1>1. walk[w].pc \notin Finished
  BY DEF Waiting, Finished
<1>2. QED
  BY <1>1, WalkTyped, OverKeeps DEF Moved, Moves

\* A repair sends the same route another request.
LEMMA RepairMoves ==
  ASSUME Inv, NEW w \in Walk, NEW code, Repair(w, code)
  PROVE  Moved(w)
<1> DEFINE rec == walk[w]
           c   == CHOOSE d \in Repairable(rec, code) : TRUE
           p   == rec.repaired \cup {c}
           l   == rec.controls \ {c}
           d   == rec.dispatches + 1
           new == [[rec EXCEPT !.repaired = p, !.controls = l] EXCEPT !.dispatches = d]
<1>1. rec \in WalkType /\ rec.pc = "streaming"
  BY WalkTyped DEF Repair
<1>2. Put(w, new)
  BY DEF Repair, Narrowed
<1>3. rec.pc \notin Finished
  BY <1>1 DEF Finished
<1> HIDE DEF p, l, d, rec
<1>4. Keeps(rec, new)
  BY <1>1 DEF Keeps, WalkType
<1> HIDE DEF new
<1>5. QED
  BY <1>2, <1>3, <1>4 DEF Moved, Moves, rec

\* A swallowed failure is not shown; the search may try another route.
LEMMA SwallowMoves ==
  ASSUME Inv, NEW w \in Walk, NEW code \in Code, Swallow(w, code)
  PROVE  Moved(w)
<1> DEFINE rec == walk[w]
           f   == rec.failed \cup {rec.target}
           new == [rec EXCEPT !.failed = f, !.code = code]
<1>1. rec \in WalkType /\ WalkCoherent(rec) /\ rec.pc = "streaming"
  BY WalkTyped DEF Swallow
<1>2. CASE ~HasSwitchLeft(rec)
  BY <1>1, <1>2, StopMoves DEF Swallow, Waiting
<1>3. CASE HasSwitchLeft(rec)
  <2>1. Search(w, new, BookedMemory(rec, code))
    BY <1>3 DEF Swallow, Booked
  <2>2. rec.target \in Route
    BY <1>1 DEF WalkCoherent, Waiting
  <2>3. f \in SUBSET Route
    BY <1>1, <2>2 DEF WalkType
  <2> HIDE DEF f, rec
  <2>4. new \in WalkType
    BY <1>1, <2>3 DEF WalkType
  <2>5. new.attempts = rec.attempts /\ new.source = rec.source
    BY <1>1 DEF WalkType
  <2> HIDE DEF new
  <2>6. PICK x : Put(w, x) /\ (Keeps(new, x) \/ Tries(new, x))
    BY <2>1, <2>4, SearchMoves
  <2>7. Keeps(rec, x) \/ Tries(rec, x)
    BY <2>5, <2>6 DEF Keeps, Tries
  <2>8. rec.pc \notin Finished
    BY <1>1 DEF Finished
  <2>9. QED
    BY <2>6, <2>7, <2>8 DEF Moved, Moves, rec
<1>4. QED
  BY <1>2, <1>3

\* Every step of a walk is one of the moves.
LEMMA WalkStepMoves ==
  ASSUME Inv, NEW w \in Walk, WalkStep(w)
  PROVE  Moved(w)
<1>1. CASE Call(w)
  BY <1>1, StartMoves DEF Call
<1>2. CASE Pull(w)
  BY <1>2, PullMoves
<1>3. CASE Abandon(w)
  BY <1>3, StopMoves DEF Abandon, Waiting
<1>4. CASE \E down \in Outage : ProbeAnswers(w, down)
  BY <1>4, ProbeMoves
<1>5. CASE Attempt(w) \/ Dispatch(w)
  BY <1>5, AttemptMoves
<1>6. CASE Chunk(w)
  BY <1>6, ForwardMoves DEF Chunk
<1>7. CASE FinishNormally(w) \/ FinishAborted(w) \/ EndWithoutFinish(w)
  BY <1>7, StopMoves DEF FinishNormally, FinishAborted, EndWithoutFinish, Waiting
<1>8. ASSUME NEW code \in Code, Repair(w, code) PROVE Moved(w)
  BY <1>8, RepairMoves
<1>9. ASSUME NEW code \in Code, Swallow(w, code) PROVE Moved(w)
  BY <1>9, SwallowMoves
<1>10. ASSUME NEW code \in Code, FinishFailed(w, code) PROVE Moved(w)
  BY <1>10, StopMoves DEF FinishFailed, Waiting
<1>11. QED
  BY <1>1, <1>2, <1>3, <1>4, <1>5, <1>6, <1>7, <1>8, <1>9, <1>10 DEF WalkStep, Finish

-----------------------------------------------------------------------------
(* The moves are steps of the contract.                                    *)

\* The settings have a largest cap, and no cap exceeds the budget.
LEMMA BudgetSuffices ==
  ASSUME NEW bound \in Nat, \A c \in Config : c.maxSwitchesPerStep <= bound,
         NEW c \in Config
  PROVE  MaxAttempts \in Nat /\ c.maxSwitchesPerStep + 1 <= MaxAttempts
<1> DEFINE caps == { d.maxSwitchesPerStep : d \in Config }
           tops == { n \in Nat : \A m \in caps : m <= n }
           Top(m) == m \in caps /\ \A n \in caps : n <= m
<1>1. caps \subseteq Nat /\ caps # {}
  BY WalkAssumption
<1>2. tops # {} /\ tops \subseteq Nat
  BY DEF caps
<1> HIDE DEF caps
<1>3. PICK t \in tops : \A n \in tops : t <= n
  <2> HIDE DEF tops
  <2>1. QED
    BY <1>2, LeastNaturalExists
<1>4. t \in caps
  <2>1. SUFFICES ASSUME t \notin caps PROVE FALSE
    OBVIOUS
  <2>2. PICK m \in caps : TRUE
    BY <1>1
  <2>3. \A k \in caps : k <= t - 1
    BY <1>1, <1>3, <2>1
  <2>4. t - 1 \in tops
    BY <1>1, <2>2, <2>3
  <2>5. QED
    BY <1>3, <2>4
<1>5. \E m \in caps : \A n \in caps : n <= m
  BY <1>3, <1>4
<1> DEFINE top == CHOOSE m \in caps : \A n \in caps : n <= m
<1>6. MaxAttempts = 1 + top
  BY DEF MaxAttempts, caps
<1>7. c.maxSwitchesPerStep \in caps
  BY DEF caps
<1>8. top \in caps /\ \A n \in caps : n <= top
  BY <1>5, Zenon
<1> HIDE DEF top
<1>9. top \in Nat /\ c.maxSwitchesPerStep \in Nat /\ c.maxSwitchesPerStep <= top
  BY <1>1, <1>7, <1>8
<1>10. QED
  BY <1>6, <1>9

\* Before the first call nothing has been tried or shown.
LEMMA InitIsContract == Init => Contract!Init
<1> SUFFICES ASSUME Init PROVE Contract!Init
  OBVIOUS
<1>1. IdleWalk.attempts = <<>> /\ IdleWalk.source = {} /\ IdleWalk.pc \notin Finished
  BY DEF IdleWalk, Finished
<1>2. \A w \in Walk : walk[w] = IdleWalk
  BY DEF Init
<1> HIDE DEF IdleWalk
<1>3. QED
  BY <1>1, <1>2 DEF Contract!Init

\* A move of one walk is a step of the contract, or changes nothing in it.
LEMMA MoveIsContract ==
  ASSUME NEW bound \in Nat, \A c \in Config : c.maxSwitchesPerStep <= bound,
         Inv, Inv', NEW w \in Walk, Moved(w)
  PROVE  [Contract!Next]_(Contract!contractVars)
<1> DEFINE old  == walk[w]
           new  == walk'[w]
           over == { v \in Walk : walk[v].pc \in Finished }
<1>1. PICK n : Put(w, n) /\ Moves(old, n)
  BY DEF Moved
<1>2. walk \in [Walk -> WalkType] /\ walk' \in [Walk -> WalkType]
  BY DEF Inv, TypeOK
<1>3. new = n /\ \A v \in Walk : v # w => walk'[v] = walk[v]
  BY <1>1, <1>2 DEF Put
<1>4. Moves(old, new)
  BY <1>1, <1>3
<1>5. w \notin over /\ over' = IF new.pc \in Finished THEN over \cup {w} ELSE over
  BY <1>3, <1>4 DEF Moves
<1>6. new \in WalkType /\ WalkCoherent(new) /\ new.cfg \in Config
  <2>1. walk'[w] \in WalkType
    BY <1>2
  <2>2. WalkCoherent(walk'[w])
    BY DEF Inv, WalksCoherent
  <2>3. QED
    BY <2>1, <2>2 DEF WalkType
<1>7. CASE Keeps(old, new)
  <2>1. /\ [v \in Walk |-> walk[v].attempts]' = [v \in Walk |-> walk[v].attempts]
        /\ [v \in Walk |-> walk[v].source]' = [v \in Walk |-> walk[v].source]
    BY <1>3, <1>7 DEF Keeps
  <2>2. Contract!End(w) \/ UNCHANGED Contract!contractVars
    BY <1>5, <2>1 DEF Contract!End, Contract!contractVars
  <2>3. QED
    BY <2>2 DEF Contract!Next
<1>8. CASE Tries(old, new)
  <2>1. PICK r : new.attempts = Append(old.attempts, r)
    BY <1>8 DEF Tries
  <2>2. old.attempts \in Seq(Route) /\ new.attempts \in Seq(Route)
    BY <1>2, <1>6 DEF WalkType
  <2>3. new.pc \in Attempting /\ new.pc # "streaming" /\ new.pc \notin Finished
        /\ new.source = old.source
    BY <1>8 DEF Tries, Attempting, Finished
  <2>4. new.source = {}
    BY <1>6, <2>3 DEF WalkCoherent
  <2>5. \A i, j \in DOMAIN new.attempts : new.attempts[i] = new.attempts[j] => i = j
    BY <1>6 DEF WalkCoherent, AttemptsCoherent
  <2>6. /\ Len(new.attempts) = Len(old.attempts) + 1 /\ Len(old.attempts) \in Nat
        /\ new.attempts[Len(old.attempts) + 1] = r
        /\ \A i \in DOMAIN old.attempts : new.attempts[i] = old.attempts[i]
        /\ DOMAIN old.attempts = 1 .. Len(old.attempts)
        /\ DOMAIN new.attempts = 1 .. Len(old.attempts) + 1
    BY <2>1, <2>2
  <2>7. r \in Route
    BY <2>2, <2>6
  <2>8. r \notin { old.attempts[i] : i \in DOMAIN old.attempts }
    BY <2>5, <2>6
  <2>9. Len(old.attempts) < MaxAttempts
    <3>1. Len(new.attempts) <= new.cfg.maxSwitchesPerStep + 1
      BY <1>6 DEF WalkCoherent, AttemptsCoherent
    <3>2. MaxAttempts \in Nat /\ new.cfg.maxSwitchesPerStep + 1 <= MaxAttempts
      BY <1>6, BudgetSuffices
    <3>3. new.cfg.maxSwitchesPerStep \in Nat
      BY <1>6, WalkAssumption
    <3>4. QED
      BY <2>6, <3>1, <3>2, <3>3
  <2>10. /\ [v \in Walk |-> walk'[v].attempts]
              = [[v \in Walk |-> walk[v].attempts] EXCEPT ![w] = Append(@, r)]
         /\ [v \in Walk |-> walk'[v].source] = [v \in Walk |-> walk[v].source]
    BY <1>3, <2>1, <2>3
  <2>11. over' = over
    BY <1>5, <2>3
  <2>12. Contract!Try(w, r)
    BY <1>5, <2>3, <2>4, <2>8, <2>9, <2>10, <2>11 DEF Contract!Try, Contract!Tried
  <2>13. QED
    BY <2>7, <2>12 DEF Contract!Next
<1>9. CASE Shows(old, new)
  <2>1. new.attempts # <<>> /\ new.source = {new.attempts[Len(new.attempts)]}
    <3>1. new.source # {}
      BY <1>9 DEF Shows
    <3>2. new.source # {} => new.attempts # <<>> /\ new.source = {Last(new)}
      BY <1>6 DEF WalkCoherent, AttemptsCoherent
    <3>3. QED
      BY <3>1, <3>2 DEF Last
  <2>2. old.attempts = new.attempts
    BY <1>9 DEF Shows
  <2>3. /\ [v \in Walk |-> walk'[v].source]
             = [[v \in Walk |-> walk[v].source]
                  EXCEPT ![w] = {old.attempts[Len(old.attempts)]}]
        /\ [v \in Walk |-> walk'[v].attempts] = [v \in Walk |-> walk[v].attempts]
    BY <1>3, <2>1, <2>2
  <2>4. Contract!Deliver(w)
    BY <1>5, <2>1, <2>2, <2>3 DEF Contract!Deliver
  <2>5. QED
    BY <2>4 DEF Contract!Next
<1>10. QED
  BY <1>4, <1>7, <1>8, <1>9 DEF Moves

\* A step that leaves every walk's progress alone changes nothing in the contract.
LEMMA StillIsContract ==
  ASSUME Inv, Surroundings \/ UNCHANGED vars
  PROVE  UNCHANGED Contract!contractVars
<1>1. walk \in [Walk -> WalkType]
  BY DEF Inv, TypeOK
<1>2. \A w \in Walk : /\ walk'[w].attempts = walk[w].attempts
                      /\ walk'[w].source = walk[w].source /\ walk'[w].pc = walk[w].pc
  <2>1. CASE walk' = walk
    BY <2>1
  <2>2. ASSUME NEW s \in Session, Dispose(s), NEW w \in Walk
        PROVE  /\ walk'[w].attempts = walk[w].attempts
               /\ walk'[w].source = walk[w].source /\ walk'[w].pc = walk[w].pc
    <3> DEFINE rec == walk[w]
               b   == rec.held /\ rec.owner # s
    <3>1. walk'[w] = [rec EXCEPT !.held = b] /\ rec \in WalkType
      BY <1>1, <2>2 DEF Dispose
    <3> HIDE DEF b, rec
    <3>2. /\ [rec EXCEPT !.held = b].attempts = rec.attempts
          /\ [rec EXCEPT !.held = b].source = rec.source
          /\ [rec EXCEPT !.held = b].pc = rec.pc
      BY <3>1 DEF WalkType
    <3>3. QED
      BY <3>1, <3>2 DEF rec
  <2>3. QED
    BY <2>1, <2>2 DEF Surroundings, Tick, ChangeSettings, ChangePolicy, Snapshot, vars
<1>3. QED
  BY <1>2 DEF Contract!contractVars

-----------------------------------------------------------------------------
(* The theorem.                                                            *)

\* Every walk implements the failover contract (chain-walk.ts): its caller sees one
\* attempt after the other, no route twice, at most one more than the largest switch
\* cap, none after the first output, and output of the last attempt alone, whatever
\* other walks, the clock, the policies and the settings do meanwhile.
THEOREM WalksImplementContract ==
  ASSUME NEW bound \in Nat, \A c \in Config : c.maxSwitchesPerStep <= bound
  PROVE  Spec => ImplementsContract
<1>1. Init => Contract!Init
  BY InitIsContract
<1>2. ASSUME Inv, Inv', [Next]_vars
      PROVE  [Contract!Next]_(Contract!contractVars)
  <2>1. CASE \E w \in Walk : WalkStep(w)
    BY <1>2, <2>1, WalkStepMoves, MoveIsContract
  <2>2. CASE Surroundings \/ UNCHANGED vars
    BY <1>2, <2>2, StillIsContract
  <2>3. QED
    BY <1>2, <2>1, <2>2 DEF Next
<1>3. QED
  BY <1>1, <1>2, InvHolds, PTL DEF Spec, ImplementsContract, Contract!Spec

=============================================================================
