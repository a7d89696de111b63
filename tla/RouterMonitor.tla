----------------------------- MODULE RouterMonitor -----------------------------
(***************************************************************************)
(* The Router monitor, ops/router-monitor: every 5 seconds it polls the    *)
(* one status probe of ops/router_worker.py, folds its result into         *)
(* ops/router_monitor.py's Observations and rewrites monitor.json, which   *)
(* router-monitor --status and the UI judge by the age of its stamps.      *)
(* The node changes, the probe may hang, and the monitor may be killed at  *)
(* any time.                                                               *)
(*                                                                         *)
(* Abstractions.  A stamp is its age, an integer that stops growing once   *)
(* no comparison can tell it from a larger one.  The codes of a ready node *)
(* (proof_required, external_required, complete) are the one "ready", and  *)
(* a probe reads the node at one moment between its checked_at and its     *)
(* end.  Clocks that jump and the text of the events are left out.         *)
(***************************************************************************)
EXTENDS Naturals

CONSTANTS
  Outages,       \* codes of a node that is not ready
  HeartbeatMax,  \* 15 s: the monitor lives
  FreshMax,      \* 30 s: the observation is current
  Threshold,     \* 120 s: until an alert
  ProbeTimeout,  \* 180 s: until the worker kills the probe
  Interval       \* 10 s: between two probes

ASSUME MonitorAssumption ==
  /\ {HeartbeatMax, FreshMax, Threshold, ProbeTimeout, Interval} \subseteq Nat \ {0}
  /\ FreshMax + Threshold <= ProbeTimeout
  /\ Outages \cap {"ready", "query_error", "none"} = {}

VARIABLES
  node,         \* what the node is: "ready" or an outage
  readyAge,     \* history: time since the node was last ready
  probe,        \* the worker's subprocess
  due,          \* time until the next one
  daemon,       \* is router-monitor running?
  seen,         \* Observations: current, its condition and its staleness
  monitorFile,  \* monitor.json
  looped        \* history: did the loop come round since the last tick?

monVars == <<node, readyAge, probe, due, daemon, seen, monitorFile, looped>>

Codes == {"ready", "query_error", "none"} \cup Outages
OldAge == 0..FreshMax + 1   \* FreshMax + 1: too old, or no stamp at all
Older(a) == IF a > FreshMax THEN a ELSE a + 1
Unstamped == FreshMax + 1
Never == Threshold + 1      \* no moment since which

NoProbe == [phase |-> "none", age |-> 0, code |-> "none", checked |-> Unstamped]
Forgotten ==
  [code |-> "none", checked |-> Unstamped, condition |-> "none", since |-> Never,
   alerted |-> FALSE, staleFor |-> Never, staleAlerted |-> FALSE]

MonitorTypeOK ==
  /\ node \in {"ready"} \cup Outages /\ readyAge \in OldAge
  /\ probe \in [phase : {"none", "begun", "reading", "done"}, age : 0..ProbeTimeout,
                code : Codes, checked : OldAge]
  /\ due \in 0..Interval /\ daemon \in BOOLEAN /\ looped \in BOOLEAN
  /\ seen \in [code : Codes, checked : OldAge, condition : Codes,
               since : 0..Never, alerted : BOOLEAN,
               staleFor : 0..Never, staleAlerted : BOOLEAN]
  /\ monitorFile \in [running : BOOLEAN, heartbeat : 0..HeartbeatMax + 1,
                      code : Codes, checked : OldAge, alert : BOOLEAN,
                      observationAlert : BOOLEAN]

MonitorInit ==
  /\ node \in {"ready"} \cup Outages
  /\ readyAge = IF node = "ready" THEN 0 ELSE Unstamped
  /\ probe = NoProbe /\ due = 0 /\ daemon = FALSE /\ seen = Forgotten /\ looped = FALSE
  /\ monitorFile = [running |-> FALSE, heartbeat |-> HeartbeatMax + 1, code |-> "none",
                    checked |-> Unstamped, alert |-> FALSE, observationAlert |-> FALSE]

-----------------------------------------------------------------------------
(* The probe: ops/verify-router snapshot() in a subprocess. *)

\* checked_at is taken before the first read.
ProbeStamps ==
  /\ probe.phase = "begun"
  /\ probe' = [probe EXCEPT !.phase = "reading", !.checked = 0]
  /\ UNCHANGED <<node, readyAge, due, daemon, seen, monitorFile, looped>>

ProbeReads ==
  /\ probe.phase = "reading" /\ probe.code = "none"
  /\ probe' = [probe EXCEPT !.code = node]
  /\ UNCHANGED <<node, readyAge, due, daemon, seen, monitorFile, looped>>

\* Mutant: checked_at is taken when the probe ends.
ProbeEndsStamped ==
  /\ probe.phase = "reading" /\ probe.code # "none"
  /\ probe' = [probe EXCEPT !.phase = "done", !.checked = 0]
  /\ UNCHANGED <<node, readyAge, due, daemon, seen, monitorFile, looped>>

ProbeEnds ==
  /\ probe.phase = "reading" /\ probe.code # "none"
  /\ probe' = [probe EXCEPT !.phase = "done"]
  /\ UNCHANGED <<node, readyAge, due, daemon, seen, monitorFile, looped>>

\* A read failed, or the output is not a status.
ProbeFails ==
  /\ probe.phase \in {"begun", "reading"}
  /\ probe' = [probe EXCEPT !.phase = "done", !.code = "query_error",
                            !.checked = Unstamped]
  /\ UNCHANGED <<node, readyAge, due, daemon, seen, monitorFile, looped>>

-----------------------------------------------------------------------------
(* StatusWorker.tick: what it returns, and what it leaves. *)

TimedOut == probe.phase # "none" /\ probe.phase # "done" /\ probe.age >= ProbeTimeout

Tick ==
  IF probe.phase = "none" THEN
       /\ probe' = IF due = 0 THEN [NoProbe EXCEPT !.phase = "begun"] ELSE NoProbe
       /\ due' = due
  ELSE IF probe.phase = "done" \/ TimedOut
       THEN probe' = NoProbe /\ due' = Interval
       ELSE UNCHANGED <<probe, due>>

HasResult == probe.phase = "done" \/ TimedOut
Result ==
  IF TimedOut THEN [code |-> "query_error", checked |-> Unstamped]
              ELSE [code |-> probe.code, checked |-> probe.checked]

\* Mutant: every result restarts the count of its condition.
AcceptAnew(s, r) ==
  LET condition == IF r.code = "ready" THEN "none" ELSE r.code
  IN [s EXCEPT !.code = r.code, !.checked = r.checked, !.condition = condition,
               !.since = IF condition = "none" THEN Never ELSE 0, !.alerted = FALSE]

\* Observations.accept.  An alert is given once per condition, and lost
\* with the process: the duration of an outage is counted from a restart.
Accept(s, r) ==
  LET condition == IF r.code = "ready" THEN "none" ELSE r.code
      changed   == condition # s.condition
      since     == IF changed \/ s.since = Never THEN 0 ELSE s.since
      due_      == condition # "none" /\ since >= Threshold
  IN [s EXCEPT !.code = r.code, !.checked = r.checked,
               !.condition = condition,
               !.since = IF condition = "none" THEN Never ELSE since,
               !.alerted = due_ \/ (~changed /\ s.alerted)]

\* Observations.check_freshness.
CheckFreshness(s) ==
  IF s.checked <= FreshMax /\ s.code # "query_error"
  THEN [s EXCEPT !.staleFor = Never, !.staleAlerted = FALSE]
  ELSE IF s.staleFor = Never
       THEN [s EXCEPT !.staleFor = 0]
       ELSE [s EXCEPT !.staleAlerted = s.staleAlerted \/ s.staleFor >= Threshold]

\* Observations.save.
Saved(s, running) ==
  [running |-> running, heartbeat |-> 0, code |-> s.code, checked |-> s.checked,
   alert |-> s.alerted, observationAlert |-> s.staleAlerted]

-----------------------------------------------------------------------------
(* The monitor process. *)

MonitorStarts ==
  /\ ~daemon /\ daemon' = TRUE
  /\ seen' = Forgotten /\ probe' = NoProbe /\ due' = 0
  /\ UNCHANGED <<node, readyAge, monitorFile, looped>>

MonitorLoop ==
  /\ daemon
  /\ Tick
  /\ seen' = CheckFreshness(IF HasResult THEN Accept(seen, Result) ELSE seen)
  /\ monitorFile' = Saved(seen', TRUE)
  /\ looped' = TRUE
  /\ UNCHANGED <<node, readyAge, daemon>>

\* SIGTERM, or an error in the loop: the worker is closed, a last save.
MonitorStops ==
  /\ daemon /\ daemon' = FALSE
  /\ probe' = NoProbe
  /\ monitorFile' = Saved(seen, FALSE)
  /\ UNCHANGED <<node, readyAge, due, seen, looped>>

MonitorKilled ==
  /\ daemon /\ daemon' = FALSE /\ probe' = NoProbe
  /\ UNCHANGED <<node, readyAge, due, seen, monitorFile, looped>>

-----------------------------------------------------------------------------
(* The node, and time. *)

NodeChanges ==
  /\ \E c \in ({"ready"} \cup Outages) \ {node} : node' = c
  /\ readyAge' = IF "ready" \in {node, node'} THEN 0 ELSE readyAge
  /\ UNCHANGED <<probe, due, daemon, seen, monitorFile, looped>>

Wait(n, top) == IF n >= top THEN n ELSE n + 1

\* A running probe that timed out is noticed by the next loop.
ClockTicks ==
  /\ ~TimedOut
  /\ readyAge' = IF node = "ready" THEN 0 ELSE Older(readyAge)
  /\ probe' = IF probe.phase = "none" THEN probe
              ELSE [probe EXCEPT !.age = Wait(@, ProbeTimeout), !.checked = Older(@)]
  /\ due' = IF due = 0 THEN 0 ELSE due - 1
  /\ seen' = [seen EXCEPT !.checked = Older(@), !.since = Wait(@, Threshold),
                          !.staleFor = Wait(@, Threshold)]
  /\ monitorFile' = [monitorFile EXCEPT !.checked = Older(@),
                                        !.heartbeat = Wait(@, HeartbeatMax + 1)]
  /\ looped' = FALSE
  /\ UNCHANGED <<node, daemon>>

MonitorNext ==
  \/ ProbeStamps \/ ProbeReads \/ ProbeEnds \/ ProbeFails
  \/ MonitorStarts \/ MonitorLoop \/ MonitorStops \/ MonitorKilled
  \/ NodeChanges \/ ClockTicks

\* The loop comes back and time passes.  Nothing is assumed of the probe:
\* it may hang, be slow or fail as it likes.
MonitorFairness == WF_monVars(MonitorLoop) /\ WF_monVars(ClockTicks)

MonitorSpec == MonitorInit /\ [][MonitorNext]_monVars /\ MonitorFairness

-----------------------------------------------------------------------------
\* router_monitor.status: what a reader of the file is told.
Alive == monitorFile.running /\ monitorFile.heartbeat <= HeartbeatMax
StatusReady ==
  /\ Alive /\ monitorFile.checked <= FreshMax
  /\ monitorFile.code = "ready"

(* Whoever reads "ready" reads of a node that was ready within the last 30 *)
(* seconds, whatever hung, was slow or was killed in between: neither a    *)
(* live monitor with a hung probe nor the file of a dead one looks well.   *)
ReadyIsRecent == StatusReady => readyAge <= FreshMax

\* The node stays in one outage, the monitor lives and loops every tick, and
\* probes hang or answer but do not fail fast.
Steady ==
  /\ \E c \in Outages : <>[](node = c)
  /\ <>[]daemon
  /\ <>[][~ProbeFails /\ (ClockTicks => looped)]_monVars

(* A lasting outage is reported: by the alert on its code, or, if probes   *)
(* hang, by the alert that there is no observation.  It rests on 30 + 120  *)
(* seconds being less than the 180 after which a hung probe changes the    *)
(* code and restarts the count.                                            *)
OutageReported ==
  Steady => []<>(monitorFile.alert \/ monitorFile.observationAlert)
=============================================================================
