----------------------------- MODULE RouteHealth -----------------------------
(***************************************************************************)
(* One agent's memory of one route: the cooldown entry of cooldown.ts and  *)
(* the recovery entry of recovery.ts, combined as state.ts reads and       *)
(* writes them.  Pure operators on a record; the machines that call them   *)
(* are in the modules that EXTEND this one.                                *)
(*                                                                         *)
(*   until        expiry of the cooldown entry, 0 when there is no entry   *)
(*                (the clock is positive, so no entry ever expires at 0),  *)
(*                Forever for revertPolicy 'never'                         *)
(*   fails        consecutiveFailures, 0 when there is no recovery entry   *)
(*   halfOpen     an expiry episode is in progress                         *)
(*   probeLogged  the episode's one logged admission has happened          *)
(*                                                                         *)
(* A recovery entry always has fails > 0 or halfOpen, so its absence needs *)
(* no flag.  expiredUntil, which only the status display prints, is left   *)
(* out.                                                                    *)
(***************************************************************************)
EXTENDS Integers

CONSTANTS
  Forever,              \* Number.POSITIVE_INFINITY
  EscalationMultiplier, \* ESCALATION_MULTIPLIER
  EscalationCap         \* ESCALATION_CAP_MS

ASSUME HealthAssumption ==
  /\ Forever \in Nat \ {0}
  /\ EscalationMultiplier \in Nat \ {0}
  /\ EscalationCap \in Nat

Health == [until : Nat, fails : Nat, halfOpen : BOOLEAN, probeLogged : BOOLEAN]
Fresh  == [until |-> 0, fails |-> 0, halfOpen |-> FALSE, probeLogged |-> FALSE]

Larger(a, b)  == IF a >= b THEN a ELSE b
Smaller(a, b) == IF a <= b THEN a ELSE b

\* CooldownStore.isSuppressed and its lazy expiry.
IsSuppressed(h, now) == h.until > now
HasExpired(h, now)   == h.until # 0 /\ h.until <= now

\* ESCALATION_MULTIPLIER ** k, as a function the proofs can reason about.
Growth[k \in Nat] == IF k = 0 THEN 1 ELSE EscalationMultiplier * Growth[k - 1]

(***************************************************************************)
(* escalatedCooldownMs: bounded geometric growth, never below the flat     *)
(* cooldown.                                                               *)
(***************************************************************************)
EscalatedCooldownMs(ms, n) ==
  Larger(ms, Smaller(EscalationCap, ms * Growth[n - 1]))

\* Mutant: a failure does not end the episode in progress.
RecordFailureMidEpisode(h) == [h EXCEPT !.fails = @ + 1]

\* RecoveryStore.recordFailure.
RecordFailure(h) ==
  [h EXCEPT !.fails = @ + 1, !.halfOpen = FALSE, !.probeLogged = FALSE]

\* RecoveryStore.markHalfOpen.
MarkHalfOpen(h) == [h EXCEPT !.halfOpen = TRUE, !.probeLogged = FALSE]

\* Mutant: any completion deletes the entry.
CloseAlways(h) == [h EXCEPT !.fails = 0, !.halfOpen = FALSE, !.probeLogged = FALSE]

\* RecoveryStore.close: deletes the entry, and only out of a half-open episode.
Close(h) ==
  IF h.halfOpen
  THEN [h EXCEPT !.fails = 0, !.halfOpen = FALSE, !.probeLogged = FALSE]
  ELSE h

\* RecoveryStore.tryMarkProbeLogged.
TryMarkProbeLogged(h) == IF h.halfOpen THEN [h EXCEPT !.probeLogged = TRUE] ELSE h

(***************************************************************************)
(* FallbackStateStore.isSuppressed as a state change: an expired entry is  *)
(* dropped on read, and under 'half-open' the drop opens an episode.       *)
(***************************************************************************)
DecisionRead(h, now, recovery) ==
  IF ~HasExpired(h, now) THEN h
  ELSE IF recovery = "half-open"
       THEN MarkHalfOpen([h EXCEPT !.until = 0])
       ELSE [h EXCEPT !.until = 0]

(***************************************************************************)
(* FallbackStateStore.observeSuccess: the half-open read first, then the   *)
(* close.                                                                  *)
(***************************************************************************)
ObserveSuccess(h, now) == Close(DecisionRead(h, now, "half-open"))

(***************************************************************************)
(* coolRoute of chain-walk.ts: 'never' suppresses for good and leaves the  *)
(* recovery entry alone; 'half-open' counts the failure and escalates;     *)
(* 'timer' is flat.                                                        *)
(***************************************************************************)
CoolRoute(h, now, cfg) ==
  IF cfg.revertPolicy = "never" THEN [h EXCEPT !.until = Forever]
  ELSE IF cfg.recovery = "half-open"
       THEN LET failed == RecordFailure(h)
            IN  [failed EXCEPT !.until = now + EscalatedCooldownMs(cfg.cooldownMs, failed.fails)]
       ELSE [h EXCEPT !.until = now + cfg.cooldownMs]
=============================================================================
