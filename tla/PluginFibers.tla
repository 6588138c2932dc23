----------------------------- MODULE PluginFibers -----------------------------
(***************************************************************************)
(* The wiring of src/index.ts when the plugin is applied more than once    *)
(* over one context root: which fiber owns the `llm-fallbacks` service,    *)
(* which one registered the virtual row of src/virtual-adapter.ts, and     *)
(* what a settings update reaches.                                         *)
(*                                                                         *)
(* A fiber's conditional children (ctx.inject) activate on a tick of their *)
(* own, those of one service in the order they were registered, and unload *)
(* when the service goes.                                                  *)
(***************************************************************************)
EXTENDS Fibers, Naturals, FiniteSets, SequencesExt

CONSTANTS
  MaxMoves     \* bound on what the host and the operator do
ASSUME PluginAssumption == MaxMoves \in Nat

VARIABLES
  services,     \* the services composed now, of "settings" and "llm"
  config,       \* the live composed config, source(): [active, presets]
  pending,      \* of each fiber: the children whose service is there, not activated
  serviceOwned, writable, listening, llmBound,   \* of each fiber, its bindings
  provider,     \* the fiber whose settings child provides `llm-fallbacks`
  registered,   \* of each fiber: it believes that it registered the row
  row,          \* the fiber whose registration the runtime holds
  declarer,     \* the fiber that last declared the bundled presets
  moves
bindings == <<serviceOwned, writable, listening, llmBound>>
wiringVars == <<phase, services, config, pending, bindings, provider, registered, row,
                declarer, moves>>

Children(s) == IF s = "settings" THEN {"provide", "bind", "preset"} ELSE {"adapter"}
Before(child) == CASE child = "bind" -> {"provide"} [] child = "preset" -> {"provide", "bind"}
                   [] OTHER -> {}

WiringInit ==
  /\ NoneApplied /\ services \in SUBSET {"settings", "llm"}
  /\ config \in [active : BOOLEAN, presets : {"bundled"}]
  /\ pending = [f \in Fiber |-> {}]
  /\ serviceOwned = [f \in Fiber |-> FALSE] /\ writable = [f \in Fiber |-> FALSE]
  /\ listening = [f \in Fiber |-> FALSE] /\ llmBound = [f \in Fiber |-> FALSE]
  /\ provider = NoFiber /\ registered = [f \in Fiber |-> FALSE]
  /\ row = NoFiber /\ declarer = NoFiber /\ moves = 0

Moves == moves < MaxMoves /\ moves' = moves + 1

-----------------------------------------------------------------------------
(* The virtual row                                                         *)

\* What one fiber's reconcile makes of [registered, row] under `now`; `runtime` is
\* whether its llm child has bound one.
\* Mutant: a fiber that met the duplicate counts itself as registered.
ReconciledDuplicate(f, runtime, now, s) ==
  CASE now.active /\ ~s.registered[f] /\ runtime ->
         [registered |-> [s.registered EXCEPT ![f] = TRUE],
          row |-> IF s.row = NoFiber THEN f ELSE s.row]
    [] ~now.active /\ s.registered[f] ->
         [registered |-> [s.registered EXCEPT ![f] = FALSE],
          row |-> IF s.row = f THEN NoFiber ELSE s.row]
    [] OTHER -> s

\* Mutant: the withdrawal forgets to reset the flag.
ReconciledStuck(f, runtime, now, s) ==
  CASE now.active /\ ~s.registered[f] /\ runtime /\ s.row = NoFiber ->
         [registered |-> [s.registered EXCEPT ![f] = TRUE], row |-> f]
    [] ~now.active /\ s.registered[f] -> [registered |-> s.registered, row |-> NoFiber]
    [] OTHER -> s

\* Over DUPLICATE_ADAPTER the fiber goes without.
Reconciled(f, runtime, now, s) ==
  CASE now.active /\ ~s.registered[f] /\ runtime /\ s.row = NoFiber ->
         [registered |-> [s.registered EXCEPT ![f] = TRUE], row |-> f]
    [] ~now.active /\ s.registered[f] ->
         [registered |-> [s.registered EXCEPT ![f] = FALSE], row |-> NoFiber]
    [] OTHER -> s
RowState == [registered |-> registered, row |-> row]
RowBecomes(s) == registered' = s.registered /\ row' = s.row

\* Withdrawn with the fibers of `gone`: their llm children unload.
RowWithout(gone) ==
  RowBecomes([registered |-> [f \in Fiber |-> registered[f] /\ f \notin gone],
              row |-> IF row \in gone THEN NoFiber ELSE row])

-----------------------------------------------------------------------------
(* Applications, services and their children                               *)

\* serviceOwned is claimed at once, on the word of a registry that the settings
\* child of another fiber may be about to change.
ApplyPlugin(f) ==
  /\ Applied(f)
  /\ serviceOwned' = [serviceOwned EXCEPT ![f] = provider = NoFiber]
  /\ pending' = [pending EXCEPT ![f] = UNION {Children(s) : s \in services}]
  /\ UNCHANGED <<services, config, writable, listening, llmBound, provider, registered,
                 row, declarer, moves>>

\* Mutant: the optimistic claim survives the duplicate.
OwnedAfterProvideKept(f) == serviceOwned[f]
OwnedAfterProvide(f) == provider = NoFiber

Settles(f, child) ==
  /\ child \in pending[f] /\ Before(child) \intersect pending[f] = {}
  /\ pending' = [pending EXCEPT ![f] = @ \ {child}]
  /\ UNCHANGED <<phase, services, config, moves>>

\* The settings child: the write channel first, then the service.
ProvideService(f) ==
  /\ Settles(f, "provide")
  /\ writable' = [writable EXCEPT ![f] = TRUE]
  /\ provider' = IF provider = NoFiber THEN f ELSE provider
  /\ serviceOwned' = [serviceOwned EXCEPT ![f] = OwnedAfterProvide(f)]
  /\ UNCHANGED <<listening, llmBound, registered, row, declarer>>

\* The settings binding: from here on document updates reach the fiber.
BindSettings(f) ==
  /\ Settles(f, "bind") /\ listening' = [listening EXCEPT ![f] = TRUE]
  /\ UNCHANGED <<serviceOwned, writable, llmBound, provider, registered, row, declarer>>

\* The llm child binds the runtime and reconciles.
BindRuntime(f) ==
  /\ Settles(f, "adapter") /\ llmBound' = [llmBound EXCEPT ![f] = TRUE]
  /\ RowBecomes(Reconciled(f, TRUE, config, RowState))
  /\ UNCHANGED <<serviceOwned, writable, listening, provider, declarer>>

\* The preset child: the owner of the service declares the bundled roles.
DeclarePresets(f) ==
  /\ Settles(f, "preset")
  /\ declarer' = IF serviceOwned[f] /\ config.presets # "none" THEN f ELSE declarer
  /\ UNCHANGED <<bindings, provider, registered, row>>

Appears(s) ==
  /\ s \notin services /\ Moves /\ services' = services \union {s}
  /\ pending' = [f \in Fiber |-> IF f \in Up THEN pending[f] \union Children(s) ELSE pending[f]]
  /\ UNCHANGED <<phase, config, bindings, provider, registered, row, declarer>>

\* The service goes with the settings child that provided it.
WithdrawService(gone) == IF provider \in gone THEN NoFiber ELSE provider

\* The children of the service unload, on every fiber.  serviceOwned is not touched.
Disappears(s) ==
  /\ s \in services /\ Moves /\ services' = services \ {s}
  /\ pending' = [f \in Fiber |-> pending[f] \ Children(s)]
  /\ IF s = "settings"
     THEN /\ writable' = [f \in Fiber |-> FALSE] /\ listening' = [f \in Fiber |-> FALSE]
          /\ provider' = WithdrawService(Fiber)
          /\ UNCHANGED <<llmBound, registered, row>>
     ELSE /\ llmBound' = [f \in Fiber |-> FALSE] /\ RowWithout(Fiber)
          /\ UNCHANGED <<writable, listening, provider>>
  /\ UNCHANGED <<phase, config, serviceOwned, declarer>>

\* The fiber unloads with all its children.
UnloadPlugin(f) ==
  /\ Disposed(f)
  /\ pending' = [pending EXCEPT ![f] = {}]
  /\ writable' = [writable EXCEPT ![f] = FALSE] /\ listening' = [listening EXCEPT ![f] = FALSE]
  /\ llmBound' = [llmBound EXCEPT ![f] = FALSE]
  /\ provider' = WithdrawService({f}) /\ RowWithout({f})
  /\ UNCHANGED <<services, config, serviceOwned, declarer, moves>>

-----------------------------------------------------------------------------
(* The settings                                                            *)

\* settings/document-updated reaches the listening fibers one after the other.
DocumentUpdated(now) ==
  /\ "settings" \in services /\ Moves /\ now # config /\ config' = now
  /\ \E order \in SetToSeqs({f \in Up : listening[f]}) :
       LET after[n \in 0..Len(order)] ==
             IF n = 0 THEN RowState
             ELSE Reconciled(order[n], llmBound[order[n]], now, after[n - 1])
       IN  RowBecomes(after[Len(order)])
  /\ UNCHANGED <<phase, services, pending, bindings, provider, declarer>>

Configs == [active : BOOLEAN, presets : {"bundled", "none"}]

WiringNext ==
  \/ \E f \in Fiber : \/ ApplyPlugin(f) \/ UnloadPlugin(f)
                      \/ ProvideService(f) \/ BindSettings(f) \/ BindRuntime(f) \/ DeclarePresets(f)
  \/ \E s \in {"settings", "llm"} : Appears(s) \/ Disappears(s)
  \/ \E now \in Configs : DocumentUpdated(now)

WiringSpec == WiringInit /\ [][WiringNext]_wiringVars

-----------------------------------------------------------------------------
(* Properties                                                              *)

\* Once a fiber's settings child has run, its flag says who provides the service,
\* whatever was claimed while several fibers were being applied.
OwnershipIsTrue ==
  \A f \in Up : "settings" \in services /\ "provide" \notin pending[f] =>
    (serviceOwned[f] <=> provider = f)

\* A consumer that finds the service can declare seeds with it: the service never
\* outlives the write channel of the fiber that provides it.
ServiceIsWritable == provider # NoFiber => provider \in Up /\ writable[provider]

\* The bundled presets are declared by the fiber that provides the service, and by
\* no fiber that lost the race for it.
PresetsByOwner == [][declarer' # declarer => declarer' = provider]_wiringVars

\* A fiber that believes the row its own is right, so that none withdraws the row of
\* a sibling and none fails to withdraw its own.
RowBeliefIsTrue == \A f \in Fiber : registered[f] <=> row = f

\* What there is once per root, the service and the row, belongs to exactly the fiber
\* that counts itself its owner, and that fiber can serve it.
SingletonsAreOwned == OwnershipIsTrue /\ ServiceIsWritable /\ RowBeliefIsTrue

\* A settings update leaves the row as the config asks, whichever fibers have come
\* and gone: offered when a listening fiber has a runtime, and otherwise held by
\* none that heard the update.
RowAnswersUpdates ==
  [][(\E now \in Configs : DocumentUpdated(now)) =>
       IF config'.active THEN (\E f \in Up : listening[f] /\ llmBound[f]) => row' # NoFiber
       ELSE row' = NoFiber \/ ~listening[row']]_wiringVars
=============================================================================
