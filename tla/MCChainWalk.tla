----------------------------- MODULE MCChainWalk -----------------------------
(***************************************************************************)
(* Small instances of the chain walk.  Two real providers and two models   *)
(* give a chain with every kind of entry: an exact head, a `provider/*`    *)
(* entry, an exact official tail, an entry that does not parse and a       *)
(* self-route.                                                             *)
(***************************************************************************)
EXTENDS ChainWalk, TLC

At(p, m) == [provider |-> p, model |-> m]

MCProvider == {"p", "q", Self}
TwinModel == {"m"}
MCModel == {"m", "n"}

Primary == At("p", "m")
Wild == At("q", Wildcard)
Fallback == At("q", "n")
Loop == At(Self, "m")

Twin == At("q", "m")

MCOfficial == {Fallback}
TwinOfficial == {Twin}
TwinCatalog == {Primary, Twin}
MCCatalog == {Primary, At("q", "m"), Fallback}
MCWindow == [r \in Route |->
               CASE r = Primary -> 2 [] r = Fallback -> 3 [] OTHER -> 0]

\* A chain of three, one with an entry of every kind, and a slot's chain.
TwinChain  == <<Primary, Wild, Twin>>
MixedChain == <<Loop, Malformed, Wild, Primary, Fallback>>
SlotChain  == <<Fallback, Primary>>

Settings(revert, recovery, cooldown, switches, codes, chain) ==
  [revertPolicy |-> revert, recovery |-> recovery, cooldownMs |-> cooldown,
   maxSwitchesPerStep |-> switches, triggerCodes |-> codes, rootChain |-> chain,
   slotChains |-> {SlotChain},
   roles |-> [scout |-> [chain |-> <<Fallback>>, fallback |-> "inherit-root"],
              solo  |-> [chain |-> <<Primary, Fallback>>, fallback |-> "none"]]]

TimerConfig    == { Settings("cooldown-expiry", "timer", 1, 2,
                             {"QUOTA", "CONTEXT_WINDOW_EXCEEDED"}, MixedChain) }
RepairConfig   == { Settings("cooldown-expiry", "half-open", 1, 2,
                             {"QUOTA", "CONTEXT_WINDOW_EXCEEDED"}, MixedChain),
                    Settings("never", "timer", 1, 1, {"QUOTA", "OTHER"}, MixedChain) }

LiveConfig     == { [Settings("cooldown-expiry", "half-open", 1, 1, {"QUOTA"}, TwinChain)
                      EXCEPT !.slotChains = {}, !.roles = <<>>] }

MCRepairedBy == [reasoningEffort |-> "UNSUPPORTED_REASONING_EFFORT",
                 maxTokens       |-> "INVALID_MAX_TOKENS"]
MCUnserved == [r \in Route |->
                 IF r = Fallback THEN {"reasoningEffort"} ELSE {}]

PolicyOf(state, allowed) == [state |-> state, allowed |-> allowed]
NoPolicy   == { PolicyOf("disabled", {}) }
AnyPolicy  == { PolicyOf("disabled", {}), PolicyOf("unprovable", {}),
                PolicyOf("enabled", {Primary}), PolicyOf("enabled", {Fallback}) }

RootRole     == [s \in Session |-> "inherit"]
ScoutRole    == [s \in Session |-> "scout"]

Symmetry == Permutations(Walk)

NoOutage  == {{}}
AnyOutage == {{}, {"q"}}
Nothing   == {{}}
Everything == {{"reasoningEffort", "maxTokens"}}
=============================================================================
