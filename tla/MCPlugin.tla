------------------------------- MODULE MCPlugin -------------------------------
(***************************************************************************)
(* Small instances of what the plugin keeps around the walk and the seam:  *)
(* the fibers of one root, the persona listeners, the policy reader, the   *)
(* role badge and the role seeds.  They share no state here; a behaviour   *)
(* is about one of them, the `scene` its initial state picks.  The seeds   *)
(* have two, one of calls that overlap and one of edits of the rules.      *)
(***************************************************************************)
EXTENDS PluginFibers, PersonaListeners, SubagentPolicy, RoleProjection, MCRoleSeeds

VARIABLE scene
allVars == <<wiringVars, personaVars, policyVars, projectionVars, vars, scene>>

\* Fibers, calls and companions are interchangeable.
AllSymmetry == Symmetry \union Permutations(Fiber)

\* What a scene is not about stays in one initial state.
MCInit ==
  /\ scene \in {"wiring", "persona", "policy", "badge", "seeds", "rules"}
  /\ WiringInit /\ PersonaInit /\ PolicyInit /\ ProjectionInit /\ Init
  /\ scene # "wiring" => services = {} /\ config = [active |-> FALSE, presets |-> "bundled"]
  /\ scene # "policy" => settings = Absent
  /\ scene # "badge"  => log = <<>>
  /\ scene \notin {"seeds", "rules"} => doc.list = NoRows

MCNext ==
  \/ scene = "wiring" /\ WiringNext
     /\ UNCHANGED <<alive, told, record, claim, fibers, ticks, section, births, policyVars,
                    projectionVars, vars, scene>>
  \/ scene = "persona" /\ PersonaNext
     /\ UNCHANGED <<services, config, pending, bindings, provider, registered, row,
                    declarer, moves, policyVars, projectionVars, vars, scene>>
  \/ scene = "policy" /\ PolicyNext
     /\ UNCHANGED <<wiringVars, personaVars, projectionVars, vars, scene>>
  \/ scene = "badge" /\ ProjectionNext
     /\ UNCHANGED <<wiringVars, personaVars, policyVars, vars, scene>>
  \/ /\ scene \in {"seeds", "rules"} /\ Next
     /\ IF scene = "seeds" THEN RowsOnly' ELSE OneCall'
     /\ UNCHANGED <<wiringVars, personaVars, policyVars, projectionVars, scene>>

MCSpec == MCInit /\ [][MCNext]_allVars
=============================================================================
