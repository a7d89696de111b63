---------------------------- MODULE RunbookGateway ----------------------------
(***************************************************************************)
(* The one mutation an AI agent may ask for: execute_allowlisted_response  *)
(* of agent/runbook_gateway.py.  ThreadingHTTPServer runs every call in a  *)
(* thread of its own; the cooldown lives in a ConfigMap that a call reads  *)
(* first and writes after the restart, with nothing held in between.       *)
(*                                                                         *)
(* Abstractions.  A call is made once.  Its reading tools only report; an  *)
(* action outside the allowlist is one name.  Seconds are ticks.           *)
(***************************************************************************)
EXTENDS Naturals, FiniteSets

CONSTANTS
  Calls,      \* tools/call requests
  Cooldown,   \* ACTION_COOLDOWN_SECONDS
  MaxTime     \* bound of the clock

ASSUME GatewayAssumption == {Cooldown, MaxTime} \subseteq Nat

VARIABLES
  seconds,    \* the clock
  annotation, \* lnd-ops/restarted-at of the probe Deployment
  epoch,      \* lastRestartEpoch of runbook-action-state
  events,     \* the calls with an audit Event of each outcome
  rollouts,   \* history: when each call that rolled the Deployment decided to
  pc, last, now, \* a call: where it is, what it read, its own clock reading
  undisturbed \* history: no two calls overlapped and no request failed

cluster == <<annotation, epoch, events, rollouts>>
gwVars == <<seconds, annotation, epoch, events, rollouts, pc, last, now, undisturbed>>

AuditOutcomes == {"allowed", "cooldown", "denied"}

(* answered with an outcome, or with an error that says nothing was        *)
(* confirmed                                                               *)
Answers == AuditOutcomes \cup {"error"}

(* The clock starts one cooldown after the epoch, as after a long pause.   *)
GatewayInit ==
  /\ seconds = Cooldown
  /\ annotation = 0 /\ epoch = 0
  /\ events = [o \in AuditOutcomes |-> {}]
  /\ rollouts = {}
  /\ pc = [c \in Calls |-> "new"]
  /\ last = [c \in Calls |-> 0]
  /\ now = [c \in Calls |-> 0]
  /\ undisturbed = TRUE

Goto(c, l) == pc' = [pc EXCEPT ![c] = l]

InProgress(c) == pc[c] \notin {"new"} \cup Answers

(* tools/call arrives, on a thread of its own.                             *)
Call(c, action) ==
  /\ pc[c] = "new"
  /\ Goto(c, IF action = "restart_diagnostic_probe" THEN "read" ELSE "auditDenied")
  /\ undisturbed' = (undisturbed /\ \A d \in Calls : ~InProgress(d))
  /\ UNCHANGED <<seconds, cluster, last, now>>

ReadState(c) ==
  /\ pc[c] = "read"
  /\ last' = [last EXCEPT ![c] = epoch]
  /\ Goto(c, "decide")
  /\ UNCHANGED <<seconds, cluster, now, undisturbed>>

TooSoon(c) == seconds < last[c] + Cooldown

Decide(c) ==
  /\ pc[c] = "decide"
  /\ now' = [now EXCEPT ![c] = seconds]
  /\ Goto(c, IF TooSoon(c) THEN "auditCooldown" ELSE "restart")
  /\ UNCHANGED <<seconds, cluster, last, undisturbed>>

(* The annotation is the call's clock reading: the same one rolls nothing. *)
PatchDeployment(c) ==
  /\ pc[c] = "restart"
  /\ annotation' = now[c]
  /\ rollouts' = IF annotation' = annotation THEN rollouts ELSE rollouts \cup {now[c]}
  /\ Goto(c, "record")
  /\ UNCHANGED <<seconds, epoch, events, last, now, undisturbed>>

(* The time of the first restart is kept.                                  *)
PatchStateOnce(c) ==                                        \* mutant
  /\ pc[c] = "record"
  /\ epoch' = IF epoch = 0 THEN now[c] ELSE epoch
  /\ Goto(c, "auditAllowed")
  /\ UNCHANGED <<seconds, annotation, events, rollouts, last, now, undisturbed>>

PatchState(c) ==
  /\ pc[c] = "record"
  /\ epoch' = now[c]
  /\ Goto(c, "auditAllowed")
  /\ UNCHANGED <<seconds, annotation, events, rollouts, last, now, undisturbed>>

AuditPc == [allowed |-> "auditAllowed", cooldown |-> "auditCooldown", denied |-> "auditDenied"]

SkipAudit(c, outcome) ==                                    \* mutant
  /\ pc[c] = AuditPc[outcome]
  /\ Goto(c, outcome)
  /\ UNCHANGED <<seconds, cluster, last, now, undisturbed>>

(* The Event, and then the answer.                                         *)
Audit(c, outcome) ==
  /\ pc[c] = AuditPc[outcome]
  /\ events' = [events EXCEPT ![outcome] = @ \cup {c}]
  /\ Goto(c, outcome)
  /\ UNCHANGED <<seconds, annotation, epoch, rollouts, last, now, undisturbed>>

(* A request to the API fails or its answer is lost, or the Pod dies: what *)
(* was patched stays patched, and the caller is told to check.             *)
Fail(c) ==
  /\ InProgress(c)
  /\ Goto(c, "error")
  /\ undisturbed' = FALSE
  /\ UNCHANGED <<seconds, cluster, last, now>>

SecondPasses ==
  /\ seconds < MaxTime
  /\ seconds' = seconds + 1
  /\ UNCHANGED <<cluster, pc, last, now, undisturbed>>

GatewayNext ==
  \/ \E c \in Calls :
       \/ \E action \in {"restart_diagnostic_probe", "unlock_wallet"} : Call(c, action)
       \/ ReadState(c) \/ Decide(c) \/ PatchDeployment(c) \/ PatchState(c)
       \/ \E outcome \in AuditOutcomes : Audit(c, outcome)
       \/ Fail(c)
  \/ SecondPasses

GatewaySpec == GatewayInit /\ [][GatewayNext]_gwVars

-----------------------------------------------------------------------------
(* Properties.                                                             *)

Apart(s, t) == s = t \/ s >= t + Cooldown \/ t >= s + Cooldown

(* "a five-minute cooldown rejects immediate repeats"                      *)
(* (docs/phase7-runbook.md:26): whoever calls, the probe does not roll     *)
(* twice within one cooldown (from one decision to the next), as long as   *)
(* no request to the cluster fails.                                        *)
CooldownHolds ==
  (\A c \in Calls : pc[c] # "error") => \A s, t \in rollouts : Apart(s, t)

(* The same where calls come one after the other: the epoch that is        *)
(* written last really guards the next restart.                            *)
CooldownHoldsInTurn == undisturbed => \A s, t \in rollouts : Apart(s, t)

(* A call that has its Event, is not answered yet, or failed.              *)
AccountsFor(c, t) ==
  now[c] = t /\ (c \in events["allowed"] \/ pc[c] \in {"record", "auditAllowed", "error"})

(* Whatever overlaps or fails, each rollout is of a call of its own that    *)
(* has its Event, is not answered yet, or was told that nothing is         *)
(* confirmed (runbook_gateway.py:320): no restart is reported as done      *)
(* without an Event.  Calls in turn leave exactly one Event per rollout,   *)
(* and a denied or cooled call none that says a restart was made.          *)
RestartsAreAudited ==
  /\ \A t \in rollouts : \E c \in Calls : AccountsFor(c, t)
  /\ undisturbed /\ (\A c \in Calls : ~InProgress(c)) =>
       /\ Cardinality(rollouts) = Cardinality(events["allowed"])
       /\ \A c \in Calls : pc[c] \in AuditOutcomes =>
            \A o \in AuditOutcomes : c \in events[o] <=> pc[c] = o

=============================================================================
