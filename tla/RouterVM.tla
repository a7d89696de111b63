-------------------------------- MODULE RouterVM --------------------------------
(***************************************************************************)
(* Starting the approved Lima VM: ops/router_vm.py, called every 5 seconds *)
(* by the launchd service ops/router-vm-start, which gives way to          *)
(* ops/router-monitor once the VM is seen running.  launchd restarts the   *)
(* service whenever it ends; it may be stopped (SIGTERM) or killed         *)
(* anywhere, and the limactl it spawned may outlive it.                    *)
(*                                                                         *)
(* Abstractions.  Time passes in units of 30 seconds and next_attempt_at   *)
(* is the time left until it.  The VM changes state on its own, because    *)
(* limactl, a person or macOS made it.  A record that fails its format     *)
(* check and a limactl list that fails only end the service, as Exit does. *)
(***************************************************************************)
EXTENDS Naturals

CONSTANT Configs  \* fingerprints: what directory and lima.yaml can be

MaxStarts == 3
Delay == <<1, 2, 4>>  \* 30 * 2 ** (attempts - 1) seconds

VMStates == {"Stopped", "Starting", "Running", "Stopping"}
Outcomes == {"requested", "retry_wait", "uncertain"}
StartStates == Outcomes \cup {"approved", "running", "transitioning",
                              "needs_review", "starting"}
Nobody == "nobody"
Unseen == "unseen"

ASSUME ConfigsAssumption == Nobody \notin Configs

VARIABLES
  vm, config,  \* status and fingerprint of the existing instance
  startFile,   \* vm-start.json
  service,     \* where ops/router-vm-start is
  look,        \* the status its inventory call returned, while it decides
  approver,    \* the fingerprint a running approval has read, or Nobody
  starts,      \* history: starts spawned since the budget was last granted
  pause        \* history: time since the last start was spawned or seen to
               \* end, counted up to the longest delay

vmVars == <<vm, config, startFile, service, look, approver, starts, pause>>

\* The states of ops/router-vm-start that hold vm-start.lock.
InStart == {"decide", "spawn", "client"}

VMTypeOK ==
  /\ vm \in VMStates /\ config \in Configs
  /\ startFile \in [state : StartStates, attempts : 0..MaxStarts,
                    wait : 0..Delay[MaxStarts], fingerprint : Configs]
  /\ service \in InStart \cup {"down", "loop", "idle", "monitor"}
  /\ look \in VMStates \cup {Unseen}
  /\ approver \in Configs \cup {Nobody}
  /\ starts \in 0..MaxStarts
  /\ pause \in 0..Delay[MaxStarts]

VMInit ==
  /\ vm \in {"Running", "Stopped"} /\ config \in Configs
  /\ startFile = [state |-> "approved", attempts |-> 0, wait |-> 0,
                  fingerprint |-> config]
  /\ service = "down" /\ look = Unseen /\ approver = Nobody
  /\ starts = 0 /\ pause = 0

-----------------------------------------------------------------------------
(* The operator's approval.  It looks before it takes the lock. *)

ApproveReads ==
  /\ approver = Nobody /\ vm \in {"Running", "Stopped"}
  /\ approver' = config
  /\ UNCHANGED <<vm, config, startFile, service, look, starts, pause>>

ApproveWrites ==
  /\ approver # Nobody /\ service \notin InStart
  /\ startFile' = [state |-> "approved", attempts |-> 0, wait |-> 0,
                   fingerprint |-> approver]
  /\ approver' = Nobody /\ starts' = 0
  /\ UNCHANGED <<vm, config, service, look, pause>>

\* The lock is held, or the operator does not confirm.
ApproveGivesUp ==
  /\ approver # Nobody /\ approver' = Nobody
  /\ UNCHANGED <<vm, config, startFile, service, look, starts, pause>>

-----------------------------------------------------------------------------
(* One ensure_started: look, decide and record, spawn, wait, record. *)

Launch ==
  /\ service = "down" /\ service' = "loop"
  /\ UNCHANGED <<vm, config, startFile, look, approver, starts, pause>>

Look ==
  /\ service = "loop" /\ config = startFile.fingerprint
  /\ service' = "decide" /\ look' = vm
  /\ UNCHANGED <<vm, config, startFile, approver, starts, pause>>

FingerprintDiffers ==
  /\ service = "loop" /\ config # startFile.fingerprint
  /\ service' = "down"
  /\ UNCHANGED <<vm, config, startFile, look, approver, starts, pause>>

SeesRunning ==
  /\ service = "decide" /\ look = "Running" /\ look' = Unseen
  /\ startFile' = [startFile EXCEPT !.state = "running", !.attempts = 0, !.wait = 0]
  /\ service' = "monitor" /\ starts' = 0
  /\ UNCHANGED <<vm, config, approver, pause>>

SeesTransition ==
  /\ service = "decide" /\ look \notin {"Running", "Stopped"} /\ look' = Unseen
  /\ startFile' = [startFile EXCEPT !.state = "transitioning"]
  /\ service' = "loop"
  /\ UNCHANGED <<vm, config, approver, starts, pause>>

\* The service idles from here until it is stopped, whatever is approved.
BudgetSpent ==
  /\ service = "decide" /\ look = "Stopped" /\ look' = Unseen
  /\ startFile.attempts >= MaxStarts
  /\ startFile' = [startFile EXCEPT !.state = "needs_review"]
  /\ service' = "idle"
  /\ UNCHANGED <<vm, config, approver, starts, pause>>

Waits ==
  /\ service = "decide" /\ look = "Stopped" /\ look' = Unseen
  /\ startFile.attempts < MaxStarts /\ startFile.wait > 0
  /\ service' = "loop"
  /\ UNCHANGED <<vm, config, startFile, approver, starts, pause>>

\* Mutant: the attempt is counted when its client ends.
RecordsNothing ==
  /\ service = "decide" /\ look = "Stopped" /\ look' = Unseen
  /\ startFile.attempts < MaxStarts /\ startFile.wait = 0
  /\ startFile' = [startFile EXCEPT !.state = "starting"]
  /\ service' = "spawn"
  /\ UNCHANGED <<vm, config, approver, starts, pause>>

\* The attempt is on disk before limactl is spawned.
RecordsAttempt ==
  /\ service = "decide" /\ look = "Stopped" /\ look' = Unseen
  /\ startFile.attempts < MaxStarts /\ startFile.wait = 0
  /\ startFile' = [startFile EXCEPT !.state = "starting", !.attempts = @ + 1,
                                    !.wait = Delay[startFile.attempts + 1]]
  /\ service' = "spawn"
  /\ UNCHANGED <<vm, config, approver, starts, pause>>

Spawns ==
  /\ service = "spawn" /\ service' = "client"
  /\ starts' = starts + 1 /\ pause' = 0
  /\ UNCHANGED <<vm, config, startFile, look, approver>>

\* Mutant: the delay still runs from the spawn.
ClientEndsLate ==
  /\ service = "client"
  /\ \E outcome \in Outcomes : startFile' = [startFile EXCEPT !.state = outcome]
  /\ service' = "loop" /\ pause' = 0
  /\ UNCHANGED <<vm, config, look, approver, starts>>

\* The client exits, or is killed after 130 seconds; the delay begins now.
ClientEnds ==
  /\ service = "client"
  /\ \E outcome \in Outcomes :
       startFile' = [startFile EXCEPT !.state = outcome,
                                      !.wait = Delay[startFile.attempts]]
  /\ service' = "loop" /\ pause' = 0
  /\ UNCHANGED <<vm, config, look, approver, starts>>

\* SIGTERM while the client runs: it is reaped and the attempt recorded.
StoppedInClient ==
  /\ service = "client"
  /\ startFile' = [startFile EXCEPT !.state = "uncertain",
                                    !.wait = Delay[startFile.attempts]]
  /\ service' = "down" /\ pause' = 0
  /\ UNCHANGED <<vm, config, look, approver, starts>>

\* SIGKILL, a host crash, an exception or the end of the monitor.
Exit ==
  /\ service # "down" /\ service' = "down" /\ look' = Unseen
  /\ UNCHANGED <<vm, config, startFile, approver, starts, pause>>

-----------------------------------------------------------------------------
(* The machine around them. *)

VMMoves ==
  /\ \/ vm = "Stopped"  /\ vm' = "Starting"
     \/ vm = "Starting" /\ vm' \in {"Running", "Stopped"}
     \/ vm = "Running"  /\ vm' \in {"Stopping", "Stopped"}
     \/ vm = "Stopping" /\ vm' = "Stopped"
  /\ UNCHANGED <<config, startFile, service, look, approver, starts, pause>>

ConfigEdited ==
  /\ \E c \in Configs \ {config} : config' = c
  /\ UNCHANGED <<vm, startFile, service, look, approver, starts, pause>>

Dec(n) == IF n = 0 THEN 0 ELSE n - 1

\* What runs between looking and spawning takes much less than 30 seconds.
TimePasses ==
  /\ service \notin {"decide", "spawn"}
  /\ startFile' = [startFile EXCEPT !.wait = Dec(@)]
  /\ pause' = IF pause = Delay[MaxStarts] THEN pause ELSE pause + 1
  /\ UNCHANGED <<vm, config, service, look, approver, starts>>

VMNext ==
  \/ ApproveReads \/ ApproveWrites \/ ApproveGivesUp
  \/ Launch \/ Look \/ FingerprintDiffers
  \/ SeesRunning \/ SeesTransition \/ BudgetSpent \/ Waits
  \/ RecordsAttempt \/ Spawns \/ ClientEnds \/ StoppedInClient \/ Exit
  \/ VMMoves \/ ConfigEdited \/ TimePasses

VMSpec == VMInit /\ [][VMNext]_vmVars

-----------------------------------------------------------------------------
(* However often the service is stopped, killed and restarted, limactl     *)
(* start is spawned at most three times, and never more often than         *)
(* vm-start.json says, before the VM is seen running or the operator       *)
(* approves again.  A spawn that is recorded late, or a restart that       *)
(* forgets, breaks it.                                                     *)
StartBudget ==
  /\ starts <= MaxStarts
  /\ starts <= startFile.attempts
  /\ service = "spawn" => starts < startFile.attempts

(* Between two starts of one budget lies the delay of the attempt before,  *)
(* 30, 60 or 120 seconds, counted from the end of that attempt's client    *)
(* when the service saw it end and from its spawn when it was killed.      *)
StartsSpaced ==
  [][starts' > starts /\ starts > 0 => pause >= Delay[startFile.attempts - 1]]_vmVars
=============================================================================
