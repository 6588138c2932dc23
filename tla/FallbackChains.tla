--------------------------- MODULE FallbackChains ---------------------------
(***************************************************************************)
(* The pure chain arithmetic of chains.ts, virtual-adapter.ts and          *)
(* route-allowlist.ts: how a role's chain is put together, how an entry is *)
(* resolved against the route that just failed, which entry a walk may     *)
(* start at, and which candidates survive the filter.                      *)
(*                                                                         *)
(* A chain is a sequence of entries in the operator's order.  The code     *)
(* keeps lists of candidates and takes the first survivor; here a          *)
(* selection is a set of positions of the chain and the first survivor is  *)
(* the least one.                                                          *)
(***************************************************************************)
EXTENDS Naturals, Sequences

CONSTANTS
  Provider,   \* provider ids
  Model,      \* model ids
  Self,       \* FALLBACKS_PROVIDER: the virtual route's own provider id
  Wildcard,   \* the model part of a `provider/*` entry (a selector with no model)
  Malformed,  \* an entry parseSelector rejects
  Official,   \* the exact routes isOfficialAllDayId accepts
  Catalog,    \* the routes the providers' catalogs list
  Window      \* disclosed context windows, 0 when a route discloses none

Route == [provider : Provider, model : Model]
Entry == [provider : Provider, model : Model \cup {Wildcard}] \cup {Malformed}

ASSUME ChainsAssumption ==
  /\ Self \in Provider
  /\ Wildcard \notin Model
  /\ Malformed \notin [provider : Provider, model : Model \cup {Wildcard}]
  /\ Official \subseteq Route
  /\ Catalog \subseteq Route
  /\ Window \in [Route -> Nat]

IsExact(e) == e # Malformed /\ e.model # Wildcard
IsWildcard(e) == e # Malformed /\ e.model = Wildcard

Least(I) == CHOOSE i \in I : \A j \in I : i <= j

(***************************************************************************)
(* roleChainEntries: a declared role's own chain, then the root chain      *)
(* unless the role says `fallback: none`; `inherit` and unknown ids walk   *)
(* the root chain alone.  roles maps each declared id to its definition.   *)
(***************************************************************************)
RoleChainEntries(roles, rootChain, role) ==
  IF role = "inherit" \/ role \notin DOMAIN roles
  THEN rootChain
  ELSE roles[role].chain \o (IF roles[role].fallback = "none" THEN <<>> ELSE rootChain)

\* isAllDayConforming: the LAST entry of the all-day chain is an official model.
IsAllDayConforming(chain) ==
  /\ chain # <<>>
  /\ chain[Len(chain)] \in Official

\* Mutant: a wildcard may be the head.
DispatchableOrWildcard(entries, allowed) ==
  { i \in DOMAIN entries : /\ entries[i] # Malformed
                           /\ entries[i].provider # Self
                           /\ entries[i].model = Wildcard \/ entries[i] \in allowed }

(***************************************************************************)
(* firstDispatchableExactHead: the first exact entry that does not route   *)
(* back into the virtual provider and is among the allowed routes.         *)
(***************************************************************************)
Dispatchable(entries, allowed) ==
  { i \in DOMAIN entries : /\ IsExact(entries[i])
                           /\ entries[i].provider # Self
                           /\ entries[i] \in allowed }

FirstDispatchableExactHead(entries, allowed) ==
  entries[Least(Dispatchable(entries, allowed))]

(***************************************************************************)
(* resolveCandidate: an exact entry is itself; `provider/*` keeps the      *)
(* failing model id and swaps only the provider.                           *)
(***************************************************************************)
ResolveCandidate(e, from) ==
  [provider |-> e.provider,
   model    |-> IF e.model = Wildcard THEN from.model ELSE e.model]

HasWildcardEntry(entries) == \E i \in DOMAIN entries : IsWildcard(entries[i])

\* resolveChainViews and advanceFrom's recursion guard: the positions that name
\* a candidate at all.
CandidatePositions(entries) ==
  { i \in DOMAIN entries : entries[i] # Malformed /\ entries[i].provider # Self }

(***************************************************************************)
(* fitsContextWindow: a candidate is excluded only when both windows are   *)
(* known and the candidate's is not larger.  down is the set of providers  *)
(* whose catalog threw: nothing is known about their routes.               *)
(***************************************************************************)
KnownWindow(r, down) == IF r.provider \in down THEN 0 ELSE Window[r]

FitsContextWindow(r, from, down) ==
  \/ KnownWindow(from, down) = 0
  \/ KnownWindow(r, down) = 0
  \/ KnownWindow(r, down) > KnownWindow(from, down)

\* The makeModelExists probe, applied to `provider/*` entries only; a catalog
\* that threw lists nothing.
PassesExistenceProbe(e, r, down) ==
  IsWildcard(e) => (r \in Catalog /\ r.provider \notin down)

\* Mutant: the cooldown memory is not consulted.
SurvivingCooled(entries, from, cooled, failed, overflow, down) ==
  { i \in CandidatePositions(entries) :
      LET r == ResolveCandidate(entries[i], from)
      IN  /\ r # from
          /\ r \notin failed
          /\ overflow => FitsContextWindow(r, from, down)
          /\ PassesExistenceProbe(entries[i], r, down) }

(***************************************************************************)
(* createCandidateFilter + selectCandidates.  cooled is the set of routes  *)
(* the cooldown store suppresses, failed the walk's own failed set,        *)
(* overflow says whether the failure was CONTEXT_WINDOW_EXCEEDED.          *)
(***************************************************************************)
Surviving(entries, from, cooled, failed, overflow, down) ==
  { i \in CandidatePositions(entries) :
      LET r == ResolveCandidate(entries[i], from)
      IN  /\ r # from
          /\ r \notin cooled
          /\ r \notin failed
          /\ overflow => FitsContextWindow(r, from, down)
          /\ PassesExistenceProbe(entries[i], r, down) }
=============================================================================
