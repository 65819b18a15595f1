----------------------------- MODULE Activation -----------------------------
(***************************************************************************)
(* The readiness gates of the side panel (side-panel/activation.ts): bridge, *)
(* then worker, then page.  Pure: a state and an event give the next state. *)
(* Times are left out, and the stored phase, which the reducer always sets  *)
(* to activationPhase of the gates, is the operator Phase.                  *)
(***************************************************************************)
EXTENDS Naturals

CONSTANT MaxRun   \* bound: run numbers wrap around after it

ASSUME MaxRunAssumption == MaxRun \in Nat \ {0}

Runs == 1..MaxRun
Gates == {"bridge", "worker", "page"}
Statuses == {"pending", "active", "passed", "stalled"}
NoGate == "none"

Activations == [run : 0..MaxRun, cold : BOOLEAN, tenant : BOOLEAN, gates : [Gates -> Statuses]]

FreshGates == [g \in Gates |-> "pending"]
InitActivation == [run |-> 0, cold |-> FALSE, tenant |-> FALSE, gates |-> FreshGates]
NextRun(a) == (a.run % MaxRun) + 1

\* activationPhase: a stall dominates, hard gates first.
Phase(a) ==
  CASE ~a.tenant                                 -> "inactive"
    [] a.tenant /\ a.gates["bridge"] = "stalled" -> "disconnected"
    [] a.tenant /\ a.gates["bridge"] # "stalled" /\ a.gates["worker"] = "stalled" -> "blocked"
    [] OTHER -> IF a.gates["page"] = "stalled" THEN "degraded"
                ELSE IF \A g \in Gates : a.gates[g] = "passed" THEN "ready" ELSE "readying"

Usable(a) == Phase(a) \in {"ready", "degraded"}

\* The gate whose timer afterActivation arms (the last active one).
ActiveGate(a) ==
  CASE a.gates["page"] = "active"   -> "page"
    [] a.gates["page"] # "active" /\ a.gates["worker"] = "active" -> "worker"
    [] OTHER -> IF a.gates["bridge"] = "active" THEN "bridge" ELSE NoGate

PassBridge(a) ==
  IF a.gates["bridge"] = "active"
  THEN [a EXCEPT !.gates["bridge"] = "passed", !.gates["worker"] = "active"] ELSE a

PassWorker(a) ==
  IF a.gates["bridge"] = "passed" /\ a.gates["worker"] = "active"
  THEN [a EXCEPT !.gates["worker"] = "passed", !.gates["page"] = "active"] ELSE a

PassPage(a) ==
  IF a.gates["worker"] = "passed" /\ a.gates["page"] = "active"
  THEN [a EXCEPT !.gates["page"] = "passed"] ELSE a

\* reset to a tab without a tenant, and to a tenant tab.
ResetInactive(a) ==
  [run |-> NextRun(a), cold |-> FALSE, tenant |-> FALSE, gates |-> FreshGates]

Reset(a, connected, workerLive) ==
  LET base == [run |-> NextRun(a), cold |-> ~workerLive, tenant |-> TRUE,
               gates |-> [FreshGates EXCEPT !["bridge"] = "active"]]
      st   == IF connected THEN PassBridge(base) ELSE base
  IN  IF connected /\ workerLive THEN PassWorker(st) ELSE st

\* timeout: only a gate in flight can stall.
TimeOut(a, g) == IF a.gates[g] = "active" THEN [a EXCEPT !.gates[g] = "stalled"] ELSE a

\* disconnect: stall the bridge gate of a run that had passed it.
Disconnect(a) ==
  IF a.gates["bridge"] = "passed" THEN [a EXCEPT !.gates["bridge"] = "stalled"] ELSE a

\* retry: re-activate a stalled worker gate.
RetryWorker(a) ==
  IF a.gates["worker"] = "stalled" THEN [a EXCEPT !.gates["worker"] = "active"] ELSE a

\* Mutant of ShouldAutoRetry: one attempt too many.
ShouldAutoRetryOneMore(cold, attempts, maxAttempts) == cold /\ attempts <= maxAttempts

\* shouldAutoRetryWorkerGate.
ShouldAutoRetry(cold, attempts, maxAttempts) == cold /\ attempts < maxAttempts

\* The gates are strictly ordered: a gate has left "pending" only if the ones
\* before it passed, except that a bridge may stall again after it passed.
GateOrder(a) ==
  /\ a.gates["worker"] # "pending" => a.gates["bridge"] \in {"passed", "stalled"}
  /\ a.gates["page"] # "pending" => a.gates["worker"] = "passed"
  /\ ~a.tenant => a.gates = FreshGates
  /\ a.tenant => a.gates["bridge"] # "pending"
  /\ a.gates["bridge"] = "passed" => a.gates["worker"] # "pending"
  /\ a.gates["worker"] = "passed" => a.gates["page"] # "pending"
=============================================================================
