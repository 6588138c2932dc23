--------------------------- MODULE PersonaListeners ---------------------------
(***************************************************************************)
(* The role persona of src/role-persona.ts: every applied fiber of the     *)
(* plugin installs one listener, and the listeners of one root share a map *)
(* of claims, so that a child gets the section once.                       *)
(*                                                                         *)
(* The section is registered by a child fiber, which cordis activates on a *)
(* later tick and unloads on a later tick: `ticks` holds what was asked of *)
(* cordis and has not settled, in the order it was asked.                  *)
(***************************************************************************)
EXTENDS Fibers, Naturals, FiniteSets, SequencesExt

CONSTANTS
  Child,      \* agent ids
  Own,        \* a section of the name that the child's own scope brought along
  MaxBirths   \* bound on the creations and repeated notifications
ASSUME PersonaAssumption ==
  Own \notin Fiber \union {NoFiber} /\ IsFiniteSet(Child) /\ MaxBirths \in Nat

VARIABLES
  alive,      \* the agents that agents.list() answers
  told,       \* the listeners a child's agent/created has still to reach
  record,     \* the seam record: "none", "clear", "failed" (personaNotApplied)
  claim,      \* rolePersonaStates: the listener that holds the child's claim
  fibers,     \* of each listener: the children whose injected fiber it holds
  ticks,
  section,    \* who registered the section the child's scope carries
  births
personaVars == <<phase, alive, told, record, claim, fibers, ticks, section, births>>

InFlight(c) == {i \in DOMAIN ticks : ticks[i].kind = "activate" /\ ticks[i].child = c}

PersonaInit ==
  /\ NoneApplied /\ alive = {} /\ births = 0 /\ ticks = <<>>
  /\ told = [c \in Child |-> {}] /\ record = [c \in Child |-> "none"]
  /\ claim = [c \in Child |-> NoFiber] /\ section = [c \in Child |-> NoFiber]
  /\ fibers = [f \in Fiber |-> {}]

-----------------------------------------------------------------------------
\* A role child nobody has claimed.  What its role declares is read now.
Owes(c) == record[c] # "none" /\ claim[c] = NoFiber

Tick(kind, f, c) == [kind |-> kind, fiber |-> f, child |-> c, cancelled |-> FALSE, gone |-> FALSE]

\* installPersona up to its await, for the children of `asked` whose role declares
\* a persona, `declaring`: the claim comes before the injected fiber.
InstallPersona(f, asked, declaring) ==
  LET given == {c \in asked : Owes(c)} \intersect declaring IN
  /\ claim' = [c \in Child |-> IF c \in given THEN f ELSE claim[c]]
  /\ fibers' = [fibers EXCEPT ![f] = @ \union given]
  /\ ticks' = ticks \o SetToSeq({Tick("activate", f, c) : c \in given})

\* installRolePersona: the listeners, then the backfill of the children there are.
InstallRolePersona(f) ==
  /\ Applied(f)
  /\ \E declaring \in SUBSET Child : InstallPersona(f, alive, declaring)
  /\ UNCHANGED <<alive, told, record, section, births>>

\* The host creates an agent; the dispatch seam wrote the record of a role child.
\* A resumed child's scope may carry a section of the name already.  A creation is
\* awaited: an id is not created again while an installation for it is in flight.
CreateChild(c) ==
  /\ c \notin alive /\ births < MaxBirths /\ InFlight(c) = {}
  /\ alive' = alive \union {c} /\ births' = births + 1
  /\ told' = [told EXCEPT ![c] = Up]
  /\ \E r \in (IF Up = {} THEN {"none"} ELSE {"none", "clear"}) : record' = [record EXCEPT ![c] = r]
  /\ \E s \in {NoFiber, Own} : section' = [section EXCEPT ![c] = s]
  /\ UNCHANGED <<phase, claim, fibers, ticks>>

\* The notification is repeated for a child that is alive.
Announce(c) ==
  /\ c \in alive /\ births < MaxBirths /\ told[c] = {}
  /\ births' = births + 1 /\ told' = [told EXCEPT ![c] = Up]
  /\ UNCHANGED <<phase, alive, record, claim, fibers, ticks, section>>

\* agent/created is serial: the next listener hears of the child when the one
\* before has awaited its fiber.
AgentCreated(f, c) ==
  /\ f \in told[c] /\ InFlight(c) = {}
  /\ told' = [told EXCEPT ![c] = @ \ {f}]
  /\ \E declaring \in SUBSET {c} : InstallPersona(f, {c}, declaring)
  /\ UNCHANGED <<phase, alive, record, section, births>>

\* release, for several handles: a fiber that has not activated never will, the
\* others unload on a later tick.
Released(pairs) ==
  LET waiting == {<<ticks[i].fiber, ticks[i].child>> : i \in {j \in DOMAIN ticks : ticks[j].kind = "activate"}}
      cancelled == [i \in DOMAIN ticks |->
                      [ticks[i] EXCEPT !.cancelled = @ \/ <<ticks[i].fiber, ticks[i].child>> \in pairs]]
  IN cancelled \o SetToSeq({Tick("unload", p[1], p[2]) : p \in pairs \ waiting})

\* The child is gone and its scope with it; whoever holds the claim loses it.
ChildDisposed(c) ==
  LET pairs == {<<f, c>> : f \in {g \in Up : c \in fibers[g]}}
      left == Released(pairs) IN
  /\ c \in alive /\ alive' = alive \ {c} /\ told' = [told EXCEPT ![c] = {}]
  /\ record' = [record EXCEPT ![c] = "none"] /\ section' = [section EXCEPT ![c] = NoFiber]
  /\ claim' = [claim EXCEPT ![c] = NoFiber]
  /\ fibers' = [f \in Fiber |-> fibers[f] \ {c}]
  /\ ticks' = [i \in DOMAIN left |-> [left[i] EXCEPT !.gone = @ \/ left[i].child = c]]
  /\ UNCHANGED <<phase, births>>

OwnClaims(f) == [c \in Child |-> IF claim[c] = f THEN NoFiber ELSE claim[c]]

\* Mutant: the claims go, the sections stay.
HandlesNone(f) == {}
Handles(f) == {<<f, c>> : c \in fibers[f]}

\* dispose: withdraw this listener's sections, then release its claims.  The seam
\* forgets the records of the root with its last fiber.
DisposeListener(f) ==
  /\ Disposed(f)
  /\ told' = [c \in Child |-> told[c] \ {f}]
  /\ ticks' = Released(Handles(f))
  /\ fibers' = [fibers EXCEPT ![f] = {}]
  /\ claim' = OwnClaims(f)
  /\ record' = IF Up = {f} THEN [c \in Child |-> "none"] ELSE record
  /\ UNCHANGED <<alive, section, births>>

-----------------------------------------------------------------------------
(* What cordis settles                                                     *)

\* Mutant: a failed activation leaves no verdict.
ContainedSilently(t) == record
\* The sticky verdict on the record the installation captured.
Contained(t) ==
  IF t.gone \/ record[t.child] = "none" THEN record ELSE [record EXCEPT ![t.child] = "failed"]

\* The section is registered, or the scope has one of the name: delivered as well.
Registers(t) ==
  /\ ~t.cancelled
  /\ section' = IF section[t.child] = NoFiber THEN [section EXCEPT ![t.child] = t.fiber] ELSE section
  /\ UNCHANGED <<record, fibers>>
\* Any other refusal of the registry: the fiber stands, without a section.
SectionRefused(t) == ~t.cancelled /\ record' = Contained(t) /\ UNCHANGED <<section, fibers>>
\* The awaited fiber rejects.  The claim is kept.
ActivationFails(t) ==
  /\ record' = Contained(t)
  /\ fibers' = [fibers EXCEPT ![t.fiber] = @ \ {t.child}]
  /\ UNCHANGED section
CancelledQuietly(t) == t.cancelled /\ UNCHANGED <<record, section, fibers>>

Activates ==
  /\ ticks # <<>> /\ Head(ticks).kind = "activate" /\ ticks' = Tail(ticks)
  /\ LET t == Head(ticks) IN
       Registers(t) \/ SectionRefused(t) \/ ActivationFails(t) \/ CancelledQuietly(t)
  /\ UNCHANGED <<phase, alive, told, claim, births>>

Unloads ==
  /\ ticks # <<>> /\ Head(ticks).kind = "unload" /\ ticks' = Tail(ticks)
  /\ LET t == Head(ticks) IN
       section' = IF ~t.gone /\ section[t.child] = t.fiber
                  THEN [section EXCEPT ![t.child] = NoFiber] ELSE section
  /\ UNCHANGED <<phase, alive, told, record, claim, fibers, births>>

PersonaNext ==
  \/ \E f \in Fiber : InstallRolePersona(f) \/ DisposeListener(f)
  \/ \E c \in Child : CreateChild(c) \/ Announce(c) \/ ChildDisposed(c)
  \/ \E f \in Fiber, c \in Child : AgentCreated(f, c)
  \/ Activates \/ Unloads

PersonaSpec == PersonaInit /\ [][PersonaNext]_personaVars

-----------------------------------------------------------------------------
(* Properties                                                              *)

\* A claim keeps every other listener away from a child, so it must never stand for
\* nothing: once its installation settled, the child has the section or its record
\* the verdict the notice row reads, through reloads, failed activations and ids
\* that are created again.
ClaimIsBacked ==
  \A c \in Child : claim[c] # NoFiber =>
    \/ section[c] # NoFiber
    \/ record[c] = "failed"
    \/ \E i \in InFlight(c) : ticks[i].fiber = claim[c] /\ ~ticks[i].cancelled

\* A disposed listener leaves nothing behind: every claim has a living holder and a
\* living child, every section a holder that can still withdraw it, or its
\* withdrawal is under way.
NothingLeftBehind ==
  \A c \in Child :
    /\ claim[c] # NoFiber => claim[c] \in Up /\ c \in alive
    /\ section[c] \in Fiber =>
         \/ section[c] \in Up /\ c \in fibers[section[c]]
         \/ \E i \in DOMAIN ticks : ticks[i] = Tick("unload", section[c], c)

=============================================================================
