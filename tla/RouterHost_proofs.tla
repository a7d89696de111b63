------------------------- MODULE RouterHost_proofs --------------------------
(***************************************************************************)
(* Proofs about the machines of the Router's host: the VM start            *)
(* (RouterVM), the monitor (RouterMonitor) and the evidence of a recovery  *)
(* (RouterEvidence), for any configurations, timeouts, ages, outages and   *)
(* number of reboots and changes.                                          *)
(***************************************************************************)
EXTENDS RouterVM, RouterMonitor, RouterEvidence, TLAPS

-----------------------------------------------------------------------------
(* RouterVM: the budget of starts.                                         *)

(* An attempt is on file from before its spawn until its client has ended. *)
OnFile == service \in {"spawn", "client"} => startFile.attempts >= 1

(* What is left to wait and what was waited make up the delay of the       *)
(* attempt on file; at a spawn the next delay is on file whole, and the    *)
(* one before has passed.                                                  *)
Spaced ==
  /\ starts > 0 => pause + startFile.wait >= Delay[startFile.attempts]
  /\ service = "spawn" =>
       /\ startFile.wait = Delay[startFile.attempts]
       /\ starts > 0 => pause >= Delay[startFile.attempts - 1]

VMIInv == VMTypeOK /\ StartBudget /\ OnFile /\ Spaced

(* The three delays, in units of 30 seconds.                               *)
LEMMA Delays ==
  /\ Delay[1] = 1 /\ Delay[2] = 2 /\ Delay[3] = 4 /\ MaxStarts = 3
  /\ \A n \in 1..3 : Delay[n] \in 0..4
<1>1. Delay[1] = 1 /\ Delay[2] = 2 /\ Delay[3] = 4 /\ MaxStarts = 3
  BY DEF Delay, MaxStarts
<1>2. \A n \in 1..3 : n = 1 \/ n = 2 \/ n = 3
  OBVIOUS
<1>3. QED  BY <1>1, <1>2

(* The first state.                                                        *)
LEMMA VMInitInv == VMInit => VMIInv
BY Delays DEF VMInit, VMIInv, VMTypeOK, VMStates, StartStates, Outcomes, InStart,
   StartBudget, OnFile, Spaced, Unseen, Nobody

(* What is on file, read out of its type.                                  *)
LEMMA FileType ==
  ASSUME VMTypeOK
  PROVE  /\ startFile.attempts \in 0..3 /\ startFile.wait \in 0..4
         /\ startFile.state \in StartStates /\ startFile.fingerprint \in Configs
         /\ starts \in 0..3 /\ pause \in 0..4
BY Delays DEF VMTypeOK

(* A write of state, attempts and wait keeps the file's type.              *)
LEMMA FileWrite ==
  ASSUME VMTypeOK, NEW s \in StartStates, NEW n \in 0..3, NEW w \in 0..4
  PROVE  [startFile EXCEPT !.state = s, !.attempts = n, !.wait = w]
           \in [state : StartStates, attempts : 0..MaxStarts,
                wait : 0..Delay[MaxStarts], fingerprint : Configs]
BY Delays DEF VMTypeOK

-----------------------------------------------------------------------------
(* Each step keeps the invariant.                                          *)

(* Approvals: a new budget, and never while a start runs.                  *)
LEMMA ApproveStep ==
  ASSUME VMIInv, ApproveReads \/ ApproveWrites \/ ApproveGivesUp
  PROVE  VMIInv'
<1>1. CASE ApproveReads \/ ApproveGivesUp
  BY <1>1 DEF ApproveReads, ApproveGivesUp, VMIInv, VMTypeOK, StartBudget, OnFile, Spaced
<1>2. CASE ApproveWrites
  BY <1>2, Delays DEF ApproveWrites, VMIInv, VMTypeOK, StartBudget, OnFile, Spaced,
     InStart, StartStates
<1>3. QED  BY <1>1, <1>2

(* Steps that leave the file's attempts and delay alone.                   *)
LEMMA QuietStep ==
  ASSUME VMIInv,
         \/ Launch \/ Look \/ FingerprintDiffers \/ SeesTransition \/ BudgetSpent
         \/ Waits \/ Exit \/ VMMoves \/ ConfigEdited
  PROVE  VMIInv'
<1>1. CASE Launch \/ Look \/ FingerprintDiffers \/ Waits \/ Exit \/ VMMoves \/ ConfigEdited
  BY <1>1 DEF Launch, Look, FingerprintDiffers, Waits, Exit, VMMoves, ConfigEdited,
     VMIInv, VMTypeOK, VMStates, InStart, StartBudget, OnFile, Spaced
<1>2. CASE SeesTransition \/ BudgetSpent
  <2>1. \E s \in {"transitioning", "needs_review"} :
          startFile' = [startFile EXCEPT !.state = s]
    BY <1>2 DEF SeesTransition, BudgetSpent
  <2>2. service' \in {"loop", "idle"} /\ look' = Unseen
        /\ UNCHANGED <<vm, config, approver, starts, pause>>
    BY <1>2 DEF SeesTransition, BudgetSpent
  <2>3. QED  BY <2>1, <2>2 DEF VMIInv, VMTypeOK, StartStates, InStart, StartBudget, OnFile, Spaced
<1>3. QED  BY <1>1, <1>2

(* The VM is seen running: the budget is granted anew.                     *)
LEMMA RunningStep == ASSUME VMIInv, SeesRunning PROVE VMIInv'
<1>1. startFile' = [startFile EXCEPT !.state = "running", !.attempts = 0, !.wait = 0]
      /\ service' = "monitor" /\ starts' = 0 /\ look' = Unseen
      /\ UNCHANGED <<vm, config, approver, pause>>
  BY DEF SeesRunning
<1>2. "running" \in StartStates
  BY DEF StartStates
<1>3. startFile' \in [state : StartStates, attempts : 0..MaxStarts,
                     wait : 0..Delay[MaxStarts], fingerprint : Configs]
  <2>1. startFile' = [state |-> "running", attempts |-> 0, wait |-> 0,
                      fingerprint |-> startFile.fingerprint]
    BY <1>1, Delays DEF VMIInv, VMTypeOK
  <2>2. startFile.fingerprint \in Configs
    BY DEF VMIInv, VMTypeOK
  <2>3. QED  BY <1>2, <2>1, <2>2, Delays
<1>4. startFile'.attempts = 0
  BY <1>1 DEF VMIInv, VMTypeOK
<1>5. VMTypeOK'
  BY <1>1, <1>3, Delays DEF VMIInv, VMTypeOK
<1>6. QED  BY <1>1, <1>4, <1>5, Delays DEF VMIInv, StartBudget, OnFile, Spaced

(* The attempt is counted, and the delay before it has passed.             *)
LEMMA RecordStep == ASSUME VMIInv, RecordsAttempt PROVE VMIInv'
<1>1. /\ startFile.attempts \in 0..2 /\ startFile.wait = 0
      /\ starts \in 0..3 /\ starts <= startFile.attempts /\ pause \in 0..4
  BY FileType, Delays DEF RecordsAttempt, VMIInv, StartBudget
<1>2. startFile' = [startFile EXCEPT !.state = "starting",
                                     !.attempts = startFile.attempts + 1,
                                     !.wait = Delay[startFile.attempts + 1]]
  BY DEF RecordsAttempt
<1>3. startFile.attempts + 1 \in 1..3 /\ Delay[startFile.attempts + 1] \in 0..4
  BY <1>1, Delays
<1>4. startFile'.attempts = startFile.attempts + 1
      /\ startFile'.wait = Delay[startFile.attempts + 1]
  BY <1>2 DEF VMIInv, VMTypeOK
<1>5. service' = "spawn" /\ look' = Unseen /\ UNCHANGED <<vm, config, approver, starts, pause>>
  BY DEF RecordsAttempt
<1>6. VMTypeOK'
  <2>1. "starting" \in StartStates /\ startFile.attempts + 1 \in 0..3
    BY <1>3 DEF StartStates
  <2>2. startFile' \in [state : StartStates, attempts : 0..MaxStarts,
                       wait : 0..Delay[MaxStarts], fingerprint : Configs]
    BY <1>2, <1>3, <2>1, FileWrite DEF VMIInv
  <2>3. QED  BY <1>5, <2>2 DEF VMIInv, VMTypeOK, InStart
<1>7. (StartBudget /\ OnFile)'
  BY <1>1, <1>4, <1>5, Delays DEF StartBudget, OnFile
<1>8. starts > 0 => pause >= Delay[startFile.attempts]
  BY <1>1, Delays DEF VMIInv, Spaced
<1>9. Spaced'
  BY <1>1, <1>3, <1>4, <1>5, <1>8, Delays DEF Spaced
<1>10. QED  BY <1>6, <1>7, <1>9 DEF VMIInv

(* The spawn itself: the one step that counts a start.                     *)
LEMMA SpawnStep == ASSUME VMIInv, Spawns PROVE VMIInv'
<1>1. starts + 1 <= startFile.attempts /\ starts + 1 \in 0..3
      /\ startFile.attempts \in 1..3 /\ startFile.wait = Delay[startFile.attempts]
  BY FileType DEF Spawns, VMIInv, StartBudget, OnFile, Spaced
<1>2. Delay[startFile.attempts] \in 0..4
  BY <1>1, Delays
<1>3. QED
  BY <1>1, <1>2, Delays DEF Spawns, VMIInv, VMTypeOK, InStart, StartBudget, OnFile, Spaced

(* The end of a client restarts the delay of its attempt.                  *)
LEMMA EndStep == ASSUME VMIInv, ClientEnds \/ StoppedInClient PROVE VMIInv'
<1>1. PICK s \in Outcomes :
        startFile' = [startFile EXCEPT !.state = s, !.wait = Delay[startFile.attempts]]
  BY DEF ClientEnds, StoppedInClient, Outcomes
<1>2. startFile.attempts \in 1..3 /\ starts \in 0..3
  <2>1. service = "client"
    BY DEF ClientEnds, StoppedInClient
  <2>2. QED  BY <2>1, FileType DEF VMIInv, OnFile
<1>3. Delay[startFile.attempts] \in 0..4
  BY <1>2, Delays
<1>4. startFile'.attempts = startFile.attempts /\ startFile'.wait = Delay[startFile.attempts]
  BY <1>1 DEF VMIInv, VMTypeOK
<1>5. service' \in {"loop", "down"} /\ pause' = 0
      /\ UNCHANGED <<vm, config, look, approver, starts>>
  BY DEF ClientEnds, StoppedInClient
<1>6. VMTypeOK'
  <2>1. s \in StartStates
    BY DEF StartStates
  <2>2. startFile' \in [state : StartStates, attempts : 0..MaxStarts,
                       wait : 0..Delay[MaxStarts], fingerprint : Configs]
    BY <1>1, <1>3, <2>1, Delays DEF VMIInv, VMTypeOK
  <2>3. QED  BY <1>5, <2>2, Delays DEF VMIInv, VMTypeOK, InStart
<1>7. (StartBudget /\ OnFile /\ Spaced)'
  BY <1>2, <1>3, <1>4, <1>5 DEF VMIInv, StartBudget, OnFile, Spaced
<1>8. QED  BY <1>6, <1>7 DEF VMIInv

(* Time moves from what is left to what was waited.                        *)
LEMMA TimeStep == ASSUME VMIInv, TimePasses PROVE VMIInv'
<1>1. startFile' = [startFile EXCEPT !.wait = Dec(startFile.wait)]
  BY DEF TimePasses
<1>2. startFile.wait \in 0..4 /\ startFile.attempts \in 0..3 /\ pause \in 0..4 /\ starts \in 0..3
  BY FileType DEF VMIInv
<1>3. Dec(startFile.wait) \in 0..4 /\ Dec(startFile.wait) + 1 >= startFile.wait
  BY <1>2 DEF Dec
<1>4. pause' = IF pause = 4 THEN pause ELSE pause + 1
  BY Delays DEF TimePasses
<1>5. startFile'.attempts = startFile.attempts /\ startFile'.wait = Dec(startFile.wait)
  BY <1>1 DEF VMIInv, VMTypeOK
<1>6. service \notin {"decide", "spawn"} /\ UNCHANGED <<vm, config, service, look, approver, starts>>
  BY DEF TimePasses
<1>7. VMTypeOK'
  BY <1>1, <1>2, <1>3, <1>4, <1>6, Delays DEF VMIInv, VMTypeOK
<1>8. (StartBudget /\ OnFile)'
  BY <1>5, <1>6 DEF VMIInv, StartBudget, OnFile
<1>9. starts > 0 => startFile.attempts \in 1..3 /\ Delay[startFile.attempts] \in 0..4
                    /\ pause + startFile.wait >= Delay[startFile.attempts]
  BY <1>2, Delays DEF VMIInv, StartBudget, Spaced
<1>10. Spaced'
  BY <1>2, <1>3, <1>4, <1>5, <1>6, <1>9 DEF Spaced
<1>11. QED  BY <1>7, <1>8, <1>10 DEF VMIInv

(* Every step keeps the invariant.                                         *)
LEMMA VMInvStep == VMIInv /\ [VMNext]_vmVars => VMIInv'
<1> SUFFICES ASSUME VMIInv, [VMNext]_vmVars PROVE VMIInv'
  OBVIOUS
<1>1. CASE UNCHANGED vmVars
  BY <1>1 DEF vmVars, VMIInv, VMTypeOK, StartBudget, OnFile, Spaced
<1>2. CASE VMNext
  BY <1>2, ApproveStep, QuietStep, RunningStep, RecordStep, SpawnStep, EndStep, TimeStep
  DEF VMNext
<1>3. QED  BY <1>1, <1>2

-----------------------------------------------------------------------------
(* vm-start.json keeps its type, its attempts within the three of the     *)
(* budget and its wait within the longest delay.                          *)
THEOREM VMTypeCorrect == VMSpec => []VMTypeOK
<1>1. VMIInv => VMTypeOK
  BY DEF VMIInv
<1>2. QED  BY <1>1, VMInitInv, VMInvStep, PTL DEF VMSpec

(* However often the service dies, limactl start is spawned at most three *)
(* times between two sightings of a running VM or approvals, and every    *)
(* spawn is covered by an attempt on file.                                *)
THEOREM BudgetHolds == VMSpec => []StartBudget
<1>1. VMIInv => StartBudget
  BY DEF VMIInv
<1>2. QED  BY <1>1, VMInitInv, VMInvStep, PTL DEF VMSpec

(* Two spawns of one budget are at least the recorded delay apart.        *)
THEOREM DelaysHold == VMSpec => StartsSpaced
<1>1. VMIInv /\ [VMNext]_vmVars =>
        [starts' > starts /\ starts > 0 => pause >= Delay[startFile.attempts - 1]]_vmVars
  <2> SUFFICES ASSUME VMIInv, VMNext, starts' > starts, starts > 0
               PROVE  pause >= Delay[startFile.attempts - 1]
    OBVIOUS
  <2>1. starts \in 0..3
    BY FileType DEF VMIInv
  <2>2. CASE Spawns
    BY <2>2 DEF Spawns, VMIInv, Spaced
  <2>3. CASE ApproveWrites \/ SeesRunning
    BY <2>1, <2>3 DEF ApproveWrites, SeesRunning
  <2>4. CASE UNCHANGED starts
    BY <2>1, <2>4
  <2>5. Spawns \/ ApproveWrites \/ SeesRunning \/ UNCHANGED starts
    BY DEF VMNext, ApproveReads, ApproveGivesUp, Launch, Look, FingerprintDiffers,
       SeesTransition, BudgetSpent, Waits, RecordsAttempt, ClientEnds, StoppedInClient,
       Exit, VMMoves, ConfigEdited, TimePasses
  <2>6. QED  BY <2>2, <2>3, <2>4, <2>5
<1>2. QED  BY <1>1, VMInitInv, VMInvStep, PTL DEF VMSpec, StartsSpaced

-----------------------------------------------------------------------------
(* RouterMonitor: the observation of the node.                             *)

\* The node was ready no longer ago than the stamp of who calls it ready.
Backed(holder) == holder.code = "ready" => readyAge <= holder.checked

(* Every holder of a code on its way from the node to the file is backed.  *)
Chain ==
  /\ node = "ready" => readyAge = 0
  /\ probe.phase \in {"none", "begun"} => probe.code = "none"
  /\ Backed(probe) /\ Backed(seen) /\ Backed(monitorFile)

MonitorIInv == MonitorTypeOK /\ Chain

-----------------------------------------------------------------------------
(* Ages.                                                                   *)

(* The timeouts are positive.                                              *)
LEMMA Constants ==
  /\ HeartbeatMax \in Nat \ {0} /\ FreshMax \in Nat \ {0} /\ Threshold \in Nat \ {0}
  /\ ProbeTimeout \in Nat \ {0} /\ Interval \in Nat \ {0}
BY MonitorAssumption

(* Growing older keeps an age an age, and the order of two of them.        *)
LEMMA OlderAges ==
  ASSUME NEW a \in OldAge, NEW b \in OldAge
  PROVE  /\ Older(a) \in OldAge
         /\ a <= b => Older(a) <= Older(b)
         /\ 0 <= Older(b) /\ 0 <= b
BY Constants DEF OldAge, Older

(* The ages a stamp is given.                                              *)
LEMMA Stamps == 0 \in OldAge /\ Unstamped \in OldAge
BY Constants DEF OldAge, Unstamped

(* Counting up to a bound stays within it.                                 *)
LEMMA WaitBound ==
  ASSUME NEW top \in Nat, NEW n \in 0..top
  PROVE  Wait(n, top) \in 0..top
BY DEF Wait

(* What a monitor starts from is well typed.                               *)
LEMMA Blanks ==
  /\ NoProbe \in [phase : {"none", "begun", "reading", "done"}, age : 0..ProbeTimeout,
                  code : Codes, checked : OldAge]
  /\ Forgotten \in [code : Codes, checked : OldAge, condition : Codes,
                    since : 0..Never, alerted : BOOLEAN,
                    staleFor : 0..Never, staleAlerted : BOOLEAN]
BY Constants, Stamps DEF NoProbe, Forgotten, Codes, Never

(* The first state.                                                        *)
LEMMA MonitorInitInv == MonitorInit => MonitorIInv
<1> SUFFICES ASSUME MonitorInit PROVE MonitorIInv
  OBVIOUS
<1>1. MonitorTypeOK
  <2>1. monitorFile = [running |-> FALSE, heartbeat |-> HeartbeatMax + 1, code |-> "none",
                       checked |-> Unstamped, alert |-> FALSE, observationAlert |-> FALSE]
    BY DEF MonitorInit
  <2>2. HeartbeatMax + 1 \in 0..HeartbeatMax + 1 /\ 0 \in 0..Interval /\ "none" \in Codes
    BY Constants DEF Codes
  <2>3. readyAge \in OldAge
    BY Stamps DEF MonitorInit
  <2>4. monitorFile \in [running : BOOLEAN, heartbeat : 0..HeartbeatMax + 1, code : Codes,
                          checked : OldAge, alert : BOOLEAN, observationAlert : BOOLEAN]
    BY <2>1, <2>2, Stamps
  <2>5. /\ node \in {"ready"} \cup Outages /\ due = 0 /\ daemon = FALSE /\ looped = FALSE
        /\ probe = NoProbe /\ seen = Forgotten
    BY DEF MonitorInit
  <2>6. QED  BY <2>2, <2>3, <2>4, <2>5, Blanks DEF MonitorTypeOK
<1>2. Chain
  BY DEF MonitorInit, Chain, Backed, NoProbe, Forgotten
<1>3. QED  BY <1>1, <1>2 DEF MonitorIInv

-----------------------------------------------------------------------------
(* What the loop makes of a result.                                        *)

Observations == [code : Codes, checked : OldAge, condition : Codes,
                 since : 0..Never, alerted : BOOLEAN,
                 staleFor : 0..Never, staleAlerted : BOOLEAN]

(* Accept takes over code and stamp of its result.                         *)
LEMMA AcceptType ==
  ASSUME NEW s \in Observations, NEW r \in [code : Codes, checked : OldAge]
  PROVE  /\ Accept(s, r) \in Observations
         /\ Accept(s, r).code = r.code /\ Accept(s, r).checked = r.checked
<1> DEFINE condition == IF r.code = "ready" THEN "none" ELSE r.code
           changed   == condition # s.condition
           since     == IF changed \/ s.since = Never THEN 0 ELSE s.since
           old       == condition # "none" /\ since >= Threshold
           alerted   == old \/ (~changed /\ s.alerted)
<1>1. condition \in Codes
  BY DEF Codes
<1>2. (IF condition = "none" THEN Never ELSE since) \in 0..Never
  BY Constants DEF Observations, Never
<1>3. alerted \in BOOLEAN
  OBVIOUS
<1>4. Accept(s, r) = [s EXCEPT !.code = r.code, !.checked = r.checked, !.condition = condition,
                        !.since = IF condition = "none" THEN Never ELSE since,
                        !.alerted = alerted]
  BY DEF Accept
<1> HIDE DEF condition, since, alerted
<1>5. QED  BY <1>1, <1>2, <1>3, <1>4 DEF Observations

(* CheckFreshness touches neither.                                         *)
LEMMA FreshnessType ==
  ASSUME NEW s \in Observations
  PROVE  /\ CheckFreshness(s) \in Observations
         /\ CheckFreshness(s).code = s.code /\ CheckFreshness(s).checked = s.checked
<1>1. Never \in 0..Never /\ 0 \in 0..Never
  BY Constants DEF Never
<1>2. CASE s.checked <= FreshMax /\ s.code # "query_error"
  <2>1. CheckFreshness(s) = [s EXCEPT !.staleFor = Never, !.staleAlerted = FALSE]
    BY <1>2 DEF CheckFreshness
  <2>2. QED  BY <1>1, <2>1 DEF Observations
<1>3. CASE ~(s.checked <= FreshMax /\ s.code # "query_error") /\ s.staleFor = Never
  <2>1. CheckFreshness(s) = [s EXCEPT !.staleFor = 0]
    BY <1>3 DEF CheckFreshness
  <2>2. QED  BY <1>1, <2>1 DEF Observations
<1>4. CASE ~(s.checked <= FreshMax /\ s.code # "query_error") /\ s.staleFor # Never
  <2>1. CheckFreshness(s) =
          [s EXCEPT !.staleAlerted = (s.staleAlerted \/ s.staleFor >= Threshold)]
    BY <1>4 DEF CheckFreshness
  <2>2. (s.staleAlerted \/ s.staleFor >= Threshold) \in BOOLEAN
    OBVIOUS
  <2>3. QED  BY <2>1, <2>2 DEF Observations
<1>5. QED  BY <1>2, <1>3, <1>4

(* What is written is what was observed.                                   *)
LEMMA SavedType ==
  ASSUME NEW s \in Observations, NEW running \in BOOLEAN
  PROVE  /\ Saved(s, running) \in
              [running : BOOLEAN, heartbeat : 0..HeartbeatMax + 1, code : Codes,
               checked : OldAge, alert : BOOLEAN, observationAlert : BOOLEAN]
         /\ Saved(s, running).code = s.code /\ Saved(s, running).checked = s.checked
BY Constants DEF Saved, Observations

(* A result is the probe's own, or says nothing of the node.               *)
LEMMA ResultBacked ==
  ASSUME MonitorIInv
  PROVE  Result \in [code : Codes, checked : OldAge] /\ Backed(Result)
BY Stamps DEF MonitorIInv, MonitorTypeOK, Chain, Backed, Result, Codes

-----------------------------------------------------------------------------
(* Each step keeps the invariant.                                          *)

(* A probe reads after it was stamped.                                     *)
LEMMA ProbeStep ==
  ASSUME MonitorIInv, ProbeStamps \/ ProbeReads \/ ProbeEnds \/ ProbeFails
  PROVE  MonitorIInv'
<1>1. UNCHANGED <<node, readyAge, due, daemon, seen, monitorFile, looped>>
  BY DEF ProbeStamps, ProbeReads, ProbeEnds, ProbeFails
<1>2. CASE ProbeStamps
  BY <1>1, <1>2, Stamps DEF ProbeStamps, MonitorIInv, MonitorTypeOK, Chain, Backed
<1>3. CASE ProbeReads
  BY <1>1, <1>3, OlderAges DEF ProbeReads, MonitorIInv, MonitorTypeOK, Chain, Backed, Codes
<1>4. CASE ProbeEnds
  BY <1>1, <1>4 DEF ProbeEnds, MonitorIInv, MonitorTypeOK, Chain, Backed
<1>5. CASE ProbeFails
  BY <1>1, <1>5, Stamps DEF ProbeFails, MonitorIInv, MonitorTypeOK, Chain, Backed, Codes
<1>6. QED  BY <1>2, <1>3, <1>4, <1>5

(* Starting, stopping and dying leave no probe.                            *)
LEMMA ProcessStep ==
  ASSUME MonitorIInv, MonitorStarts \/ MonitorStops \/ MonitorKilled
  PROVE  MonitorIInv'
<1>1. probe' = NoProbe /\ UNCHANGED <<node, readyAge, looped>> /\ daemon' \in BOOLEAN
  BY DEF MonitorStarts, MonitorStops, MonitorKilled
<1>2. due' \in 0..Interval
  <2>1. due' = 0 \/ due' = due
    BY DEF MonitorStarts, MonitorStops, MonitorKilled
  <2>2. QED  BY <2>1, Constants DEF MonitorIInv, MonitorTypeOK
<1>3. Backed(probe)' /\ probe'.code = "none"
  BY <1>1 DEF Backed, NoProbe
<1>4. CASE MonitorStarts
  BY <1>1, <1>2, <1>3, <1>4, Blanks
  DEF MonitorStarts, MonitorIInv, MonitorTypeOK, Chain, Backed, Forgotten
<1>5. CASE MonitorStops
  <2>1. monitorFile' = Saved(seen, FALSE) /\ seen' = seen
    BY <1>5 DEF MonitorStops
  <2>2. seen \in Observations
    BY DEF MonitorIInv, MonitorTypeOK, Observations
  <2>3. QED
    BY <1>1, <1>2, <1>3, <2>1, <2>2, SavedType, Blanks DEF MonitorIInv, MonitorTypeOK, Chain, Backed
<1>6. CASE MonitorKilled
  BY <1>1, <1>2, <1>3, <1>6, Blanks DEF MonitorKilled, MonitorIInv, MonitorTypeOK, Chain, Backed
<1>7. QED  BY <1>4, <1>5, <1>6

(* One round of the loop hands on what it got, with its stamp.             *)
LEMMA LoopStep == ASSUME MonitorIInv, MonitorLoop PROVE MonitorIInv'
<1>1. UNCHANGED <<node, readyAge, daemon>> /\ looped' = TRUE /\ Tick
      /\ seen' = CheckFreshness(IF HasResult THEN Accept(seen, Result) ELSE seen)
      /\ monitorFile' = Saved(seen', TRUE)
  BY DEF MonitorLoop
<1>2. probe' \in [phase : {"none", "begun", "reading", "done"}, age : 0..ProbeTimeout,
                  code : Codes, checked : OldAge]
      /\ due' \in 0..Interval /\ Backed(probe)' /\ (probe'.phase \in {"none", "begun"} => probe'.code = "none")
  <2>1. \/ probe' = NoProbe /\ due' \in {0, Interval, due}
        \/ probe' = [NoProbe EXCEPT !.phase = "begun"] /\ due' = due
        \/ UNCHANGED <<probe, due>>
    BY <1>1 DEF Tick
  <2>2. [NoProbe EXCEPT !.phase = "begun"] \in
          [phase : {"none", "begun", "reading", "done"}, age : 0..ProbeTimeout,
           code : Codes, checked : OldAge]
        /\ [NoProbe EXCEPT !.phase = "begun"].code = "none" /\ NoProbe.code = "none"
    BY Blanks DEF NoProbe
  <2>3. QED
    BY <1>1, <2>1, <2>2, Blanks, Constants DEF MonitorIInv, MonitorTypeOK, Chain, Backed
<1>3. PICK s \in Observations : seen' = CheckFreshness(s) /\ Backed(s)
  <2>1. seen \in Observations /\ Backed(seen)
    BY DEF MonitorIInv, MonitorTypeOK, Chain, Observations
  <2>2. Accept(seen, Result) \in Observations /\ Backed(Accept(seen, Result))
    BY <2>1, ResultBacked, AcceptType DEF Backed
  <2>3. QED  BY <1>1, <2>1, <2>2
<1>4. seen' \in Observations /\ seen'.code = s.code /\ seen'.checked = s.checked
  BY <1>3, FreshnessType
<1>5. monitorFile' \in [running : BOOLEAN, heartbeat : 0..HeartbeatMax + 1, code : Codes,
                        checked : OldAge, alert : BOOLEAN, observationAlert : BOOLEAN]
      /\ monitorFile'.code = s.code /\ monitorFile'.checked = s.checked
  BY <1>1, <1>4, SavedType
<1>6. QED
  BY <1>1, <1>2, <1>3, <1>4, <1>5 DEF MonitorIInv, MonitorTypeOK, Chain, Backed, Observations

(* A node that changes was ready just now, or as long ago as before.       *)
LEMMA NodeStep == ASSUME MonitorIInv, NodeChanges PROVE MonitorIInv'
<1>1. node' \in {"ready"} \cup Outages
      /\ UNCHANGED <<probe, due, daemon, seen, monitorFile, looped>>
      /\ readyAge' = IF "ready" \in {node, node'} THEN 0 ELSE readyAge
  BY DEF NodeChanges
<1>2. readyAge' \in OldAge /\ (node' = "ready" => readyAge' = 0)
      /\ \A a \in OldAge : readyAge <= a => readyAge' <= a
  BY <1>1, Stamps, OlderAges DEF MonitorIInv, MonitorTypeOK
<1>3. /\ probe.checked \in OldAge /\ seen.checked \in OldAge
      /\ monitorFile.checked \in OldAge
  BY DEF MonitorIInv, MonitorTypeOK
<1>4. Chain'
  BY <1>1, <1>2, <1>3 DEF MonitorIInv, Chain, Backed
<1>5. QED  BY <1>1, <1>2, <1>4 DEF MonitorIInv, MonitorTypeOK

(* Time ages every stamp at least as much as the node's readiness.         *)
LEMMA ClockStep == ASSUME MonitorIInv, ClockTicks PROVE MonitorIInv'
<1>1. /\ readyAge \in OldAge /\ probe.checked \in OldAge /\ probe.age \in 0..ProbeTimeout
      /\ seen.checked \in OldAge /\ monitorFile.checked \in OldAge
      /\ seen.since \in 0..Never /\ seen.staleFor \in 0..Never
      /\ monitorFile.heartbeat \in 0..HeartbeatMax + 1
  BY DEF MonitorIInv, MonitorTypeOK
<1>2. readyAge' \in OldAge /\ (node = "ready" => readyAge' = 0)
      /\ \A a \in OldAge : readyAge <= a => readyAge' <= Older(a)
  BY <1>1, Stamps, OlderAges DEF ClockTicks
<1>3. UNCHANGED <<node, daemon>> /\ looped' = FALSE /\ due' \in 0..Interval
  BY Constants DEF ClockTicks, MonitorIInv, MonitorTypeOK
<1>4. probe' \in [phase : {"none", "begun", "reading", "done"}, age : 0..ProbeTimeout,
                  code : Codes, checked : OldAge]
      /\ Backed(probe)' /\ (probe'.phase \in {"none", "begun"} => probe'.code = "none")
  <2>1. CASE probe.phase = "none"
    BY <2>1 DEF ClockTicks, MonitorIInv, MonitorTypeOK, Chain, Backed
  <2>2. CASE probe.phase # "none"
    <3>1. Wait(probe.age, ProbeTimeout) \in 0..ProbeTimeout /\ Older(probe.checked) \in OldAge
      BY <1>1, Constants, WaitBound, OlderAges
    <3>2. probe' = [probe EXCEPT !.age = Wait(probe.age, ProbeTimeout),
                                 !.checked = Older(probe.checked)]
      BY <2>2 DEF ClockTicks
    <3>3. QED  BY <1>1, <1>2, <2>2, <3>1, <3>2 DEF MonitorIInv, MonitorTypeOK, Chain, Backed
  <2>3. QED  BY <2>1, <2>2
<1>5. seen' \in Observations /\ Backed(seen)'
  <2>1. /\ Wait(seen.since, Threshold) \in 0..Never
        /\ Wait(seen.staleFor, Threshold) \in 0..Never
        /\ Older(seen.checked) \in OldAge
    BY <1>1, Constants, OlderAges DEF Wait, Never
  <2>2. seen' = [seen EXCEPT !.checked = Older(seen.checked),
                             !.since = Wait(seen.since, Threshold),
                             !.staleFor = Wait(seen.staleFor, Threshold)]
    BY DEF ClockTicks
  <2>3. QED  BY <1>1, <1>2, <2>1, <2>2 DEF MonitorIInv, MonitorTypeOK, Chain, Backed, Observations
<1>6. monitorFile' \in [running : BOOLEAN, heartbeat : 0..HeartbeatMax + 1, code : Codes,
                        checked : OldAge, alert : BOOLEAN, observationAlert : BOOLEAN]
      /\ Backed(monitorFile)'
  <2>1. /\ Wait(monitorFile.heartbeat, HeartbeatMax + 1) \in 0..HeartbeatMax + 1
        /\ Older(monitorFile.checked) \in OldAge
    BY <1>1, Constants, WaitBound, OlderAges
  <2>2. monitorFile' = [monitorFile EXCEPT !.checked = Older(monitorFile.checked),
                          !.heartbeat = Wait(monitorFile.heartbeat, HeartbeatMax + 1)]
    BY DEF ClockTicks
  <2>3. QED  BY <1>1, <1>2, <2>1, <2>2 DEF MonitorIInv, MonitorTypeOK, Chain, Backed
<1>7. QED
  BY <1>2, <1>3, <1>4, <1>5, <1>6 DEF MonitorIInv, MonitorTypeOK, Chain, Observations

(* Every step keeps the invariant.                                         *)
LEMMA MonitorInvStep == MonitorIInv /\ [MonitorNext]_monVars => MonitorIInv'
<1> SUFFICES ASSUME MonitorIInv, [MonitorNext]_monVars PROVE MonitorIInv'
  OBVIOUS
<1>1. CASE UNCHANGED monVars
  BY <1>1 DEF monVars, MonitorIInv, MonitorTypeOK, Chain, Backed
<1>2. CASE MonitorNext
  BY <1>2, ProbeStep, ProcessStep, LoopStep, NodeStep, ClockStep DEF MonitorNext
<1>3. QED  BY <1>1, <1>2

-----------------------------------------------------------------------------
(* Ages, codes and the files of the monitor keep their types.              *)
THEOREM MonitorTypeCorrect == MonitorSpec => []MonitorTypeOK
<1>1. MonitorIInv => MonitorTypeOK
  BY DEF MonitorIInv
<1>2. QED  BY <1>1, MonitorInitInv, MonitorInvStep, PTL DEF MonitorSpec

(* Whoever is told "ready" by router-monitor --status or the UI is told of *)
(* a node that was ready no longer than FreshMax ago, for every choice of  *)
(* timeouts, whatever hangs, fails or is killed.                           *)
THEOREM ReadyHolds == MonitorSpec => []ReadyIsRecent
<1>1. MonitorIInv => ReadyIsRecent
  <2> SUFFICES ASSUME MonitorIInv, StatusReady PROVE readyAge <= FreshMax
    BY DEF ReadyIsRecent
  <2>1. readyAge \in OldAge /\ monitorFile.checked \in OldAge
    BY DEF MonitorIInv, MonitorTypeOK
  <2>2. readyAge <= monitorFile.checked /\ monitorFile.checked <= FreshMax
    BY DEF MonitorIInv, Chain, Backed, StatusReady
  <2>3. QED  BY <2>1, <2>2, Constants DEF OldAge
<1>2. QED  BY <1>1, MonitorInitInv, MonitorInvStep, PTL DEF MonitorSpec

-----------------------------------------------------------------------------
(* RouterEvidence: what a record of a recovery proves.                     *)

Request == [issued : Nat, wallet : Nat, endpoint : Nat]
Outside == [request : Request, made : Nat]
Capture == [parts : [Parts -> Nat], at : Nat, check : Outside \cup {None}]
Pair    == [before : Capture, after : Capture]
Task    == [kind : Kinds, op : {"prepare", "verify", "clear"}, wallet : Nat, channels : Nat]

Standing == {"host", "volume"}       \* of what is kept, read at the capture itself
Moving == {"address", "endpoint"}

WorldType ==
  /\ world \in [Parts \cup {"forwarded", "up"} -> Nat \cup BOOLEAN]
  /\ \A p \in Parts : world[p] \in Nat
  /\ \A p \in Moving : world[p] \in 0..1

FileTypes ==
  /\ request \in Request \cup {None}
  /\ checked \in Outside \cup {None} /\ receipt \in Outside \cup {None}
  /\ pending \in [Kinds -> Capture \cup {None}]
  /\ pass \in [Kinds -> Pair \cup {None}]
  /\ task \in Task \cup {None}

EvidenceTypes ==
  clock \in Nat /\ WorldType /\ changes \subseteq [part : Parts, at : 0..clock] /\ FileTypes

(* A capture against the world of now: what is kept only ever grows, by a  *)
(* change for each growth, and what differs has changed since.             *)
Behind(o) ==
  /\ o.at <= clock
  /\ \A p \in Kept : o.parts[p] <= world[p]
  /\ \A c \in changes : c.part \in Kept /\ o.at < c.at => o.parts[c.part] < world[c.part]
  /\ \A p \in Moving : o.parts[p] # world[p] => ChangedIn({p}, o.at, clock)

(* The two captures of a record, against the changes between them.         *)
Between(r) ==
  /\ r.after.at <= clock
  /\ \A c \in changes : c.part \in Standing /\ r.before.at < c.at /\ c.at < r.after.at =>
       r.before.parts[c.part] < r.after.parts[c.part]
  /\ \A p \in Moving : r.before.parts[p] # r.after.parts[p] =>
       ChangedIn({p}, r.before.at, r.after.at)
  /\ r.after.parts["boot"] # 0 =>
       [part |-> "boot", at |-> r.after.parts["boot"]] \in changes
  /\ r.after.parts["boot"] <= r.after.at

(* A boot is known by its time.                                            *)
BootInv ==
  /\ world["boot"] <= clock
  /\ world["boot"] # 0 => [part |-> "boot", at |-> world["boot"]] \in changes

(* What a task read of wallet and channels is as old as its snapshot, and  *)
(* a verification has a baseline.                                          *)
TaskInv ==
  task # None =>
    /\ task.wallet <= world["wallet"] /\ task.channels <= world["channels"]
    /\ task.op # "prepare" => pending[task.kind] # None

RecordsInv ==
  \A k \in Kinds :
    /\ pending[k] # None => Behind(pending[k])
    /\ pass[k] # None => Behind(pass[k].before) /\ Between(pass[k])

EvidenceInv == EvidenceTypes /\ BootInv /\ TaskInv /\ RecordsInv

(* The first state.                                                        *)
LEMMA EvidenceInitInv == EvidenceInit => EvidenceInv
<1> SUFFICES ASSUME EvidenceInit  PROVE EvidenceInv
  OBVIOUS
<1>1. world \in [Parts \cup {"forwarded", "up"} -> Nat \cup BOOLEAN]
  BY DEF EvidenceInit
<1>2. \A p \in Parts : world[p] = 0
  BY DEF EvidenceInit, Parts, Kept
<1>3. WorldType
  BY <1>1, <1>2 DEF WorldType, Moving, Parts
<1>4. FileTypes
  BY DEF EvidenceInit, FileTypes
<1>5. EvidenceTypes
  BY <1>3, <1>4 DEF EvidenceInit, EvidenceTypes
<1>6. BootInv /\ TaskInv /\ RecordsInv
  BY <1>2 DEF EvidenceInit, BootInv, TaskInv, RecordsInv, Parts
<1>7. QED  BY <1>5, <1>6 DEF EvidenceInv

(* How the world moves: time goes on, what is kept grows with its changes, *)
(* a new address is a change, and the boot is its time.                    *)
Later ==
  /\ clock <= clock' /\ changes \subseteq changes'
  /\ \A c \in changes' \ changes :
       /\ c.at = clock
       /\ c.part \in Kept => world[c.part] < world'[c.part]
  /\ \A p \in Kept : world[p] <= world'[p]
  /\ \A p \in Moving : world'[p] # world[p] => [part |-> p, at |-> clock] \in changes'

(* A capture stays behind the world.                                       *)
LEMMA StaysBehind ==
  ASSUME EvidenceTypes, EvidenceTypes', Later, NEW o \in Capture, Behind(o)
  PROVE  Behind(o)'
<1> USE DEF EvidenceTypes, WorldType
<1>1. o.at \in Nat /\ o.at <= clock' /\ \A p \in Parts : o.parts[p] \in Nat
  BY DEF Behind, Later, Capture
<1>2. Kept \subseteq Parts /\ Moving \subseteq Parts
  BY DEF Parts, Moving
<1>3. \A p \in Kept : o.parts[p] <= world'[p]
  BY <1>1, <1>2 DEF Behind, Later
<1>4. ASSUME NEW c \in changes', c.part \in Kept, o.at < c.at
      PROVE  o.parts[c.part] < world'[c.part]
  BY <1>1, <1>2, <1>4 DEF Behind, Later
<1>5. ASSUME NEW p \in Moving, o.parts[p] # world'[p]
      PROVE  \E c \in changes' : c.part \in {p} /\ o.at <= c.at /\ c.at <= clock'
  <2>1. CASE world'[p] = world[p]
    <3>1. PICK c \in changes : c.part \in {p} /\ o.at <= c.at /\ c.at <= clock
      BY <1>5, <2>1 DEF Behind, ChangedIn
    <3>2. c.at <= clock'
      BY <3>1 DEF Later
    <3>3. QED  BY <3>1, <3>2 DEF Later
  <2>2. CASE world'[p] # world[p]
    <3>1. [part |-> p, at |-> clock] \in changes'
      BY <2>2 DEF Later
    <3>2. QED  BY <3>1 DEF Behind, Later
  <2>3. QED  BY <2>1, <2>2
<1>6. QED  BY <1>1, <1>3, <1>4, <1>5 DEF Behind, ChangedIn

(* So does what is known between the captures of a record.                 *)
LEMMA StaysBetween ==
  ASSUME EvidenceTypes, EvidenceTypes', Later, NEW r \in Pair, Between(r)
  PROVE  Between(r)'
<1> USE DEF EvidenceTypes
<1>1. r.after.at \in Nat /\ r.after.at <= clock /\ clock <= clock' /\ changes \subseteq changes'
  BY DEF Between, Later, Pair, Capture
<1>2. ASSUME NEW c \in changes', c.part \in Standing, r.before.at < c.at, c.at < r.after.at
      PROVE  r.before.parts[c.part] < r.after.parts[c.part]
  <2>1. c \in changes
    BY <1>1, <1>2 DEF Later
  <2>2. QED  BY <1>2, <2>1 DEF Between
<1>3. ASSUME NEW p \in Moving, r.before.parts[p] # r.after.parts[p]
      PROVE  \E c \in changes' : c.part \in {p} /\ r.before.at <= c.at /\ c.at <= r.after.at
  BY <1>1, <1>3 DEF Between, ChangedIn
<1>4. r.after.parts["boot"] # 0 =>
        [part |-> "boot", at |-> r.after.parts["boot"]] \in changes'
  BY <1>1 DEF Between
<1>5. r.after.at <= clock'
  BY <1>1
<1>6. QED  BY <1>2, <1>3, <1>4, <1>5 DEF Between, ChangedIn

(* The capture that is being made.                                         *)
LEMMA ObservedIs ==
  ASSUME EvidenceTypes, task # None
  PROVE  /\ Observed \in Capture /\ Observed.at = clock
         /\ Observed.parts["wallet"] = task.wallet
         /\ Observed.parts["channels"] = task.channels
         /\ \A p \in Parts \ {"wallet", "channels"} : Observed.parts[p] = world[p]
<1> USE DEF EvidenceTypes, WorldType, FileTypes
<1>1. task \in Task
  OBVIOUS
<1>2. task.wallet = task["wallet"] /\ task.channels = task["channels"]
      /\ task.wallet \in Nat /\ task.channels \in Nat
  BY <1>1 DEF Task
<1> DEFINE parts == [p \in Parts |-> IF p \in {"wallet", "channels"} THEN task[p] ELSE world[p]]
           check == IF task.kind = "address" THEN receipt ELSE None
<1>3. "wallet" \in Parts /\ "channels" \in Parts
  BY DEF Parts, Kept
<1>4. /\ parts["wallet"] = task.wallet /\ parts["channels"] = task.channels
      /\ \A p \in Parts \ {"wallet", "channels"} : parts[p] = world[p]
  BY <1>2, <1>3
<1>5. parts \in [Parts -> Nat]
  BY <1>2, <1>4
<1>6. check \in Outside \cup {None}
  OBVIOUS
<1>7. Observed = [parts |-> parts, at |-> clock, check |-> check]
  BY DEF Observed
<1> HIDE DEF parts, check
<1>8. QED  BY <1>4, <1>5, <1>6, <1>7 DEF Capture

(* Records that a step leaves alone stay as good as they were.             *)
LEMMA OldRecords ==
  ASSUME EvidenceInv, EvidenceTypes', Later, NEW k \in Kinds
  PROVE  /\ pending'[k] = pending[k] /\ pending'[k] # None => Behind(pending[k])'
         /\ pass'[k] = pass[k] /\ pass'[k] # None =>
              Behind(pass[k].before)' /\ Between(pass[k])'
<1> USE DEF EvidenceInv, EvidenceTypes, FileTypes, RecordsInv
<1>1. ASSUME pending'[k] = pending[k], pending'[k] # None  PROVE Behind(pending[k])'
  <2>1. PICK o \in Capture : o = pending[k]
    BY <1>1
  <2>2. Behind(o)
    BY <1>1, <2>1
  <2>3. Behind(o)'
    BY <2>2, StaysBehind
  <2>4. QED  BY <1>1, <2>1, <2>3 DEF Behind
<1>2. ASSUME pass'[k] = pass[k], pass'[k] # None
      PROVE  Behind(pass[k].before)' /\ Between(pass[k])'
  <2>1. PICK r \in Pair : r = pass[k]
    BY <1>2
  <2>2. Behind(r.before) /\ Between(r) /\ r.before \in Capture
    BY <1>2, <2>1 DEF Pair
  <2>3. Behind(r.before)' /\ Between(r)'
    BY <2>2, StaysBehind, StaysBetween
  <2>4. QED  BY <1>2, <2>1, <2>3 DEF Behind, Between
<1>3. QED  BY <1>1, <1>2

(* Every move of the world is one forward, and its types last.             *)
LEMMA WorldMoves ==
  ASSUME EvidenceInv,
         \/ HostBoots \/ HostReplaced \/ GuestBoots \/ AddressChanges \/ KeptChanges
         \/ Restore \/ ClockAdvances
  PROVE  /\ clock' \in Nat /\ WorldType' /\ changes' \subseteq [part : Parts, at : 0..clock']
         /\ Later /\ BootInv'
<1> USE DEF EvidenceInv, EvidenceTypes, WorldType
<1>1. Kept \subseteq Parts /\ Moving \subseteq Parts /\ Kept \cap Moving = {}
      /\ "boot" \in Parts \ (Kept \cup Moving) /\ "guest" \in Parts \ (Kept \cup Moving)
  BY DEF Parts, Kept, Moving
<1>2. ASSUME NEW parts \in SUBSET Parts, NEW now, Change(parts, now), WorldType',
             \A p \in Kept : world[p] <= now[p] /\ (p \in parts => world[p] < now[p]),
             \A p \in Moving : now[p] # world[p] => p \in parts,
             IF "boot" \in parts THEN now["boot"] = clock ELSE now["boot"] = world["boot"]
      PROVE  /\ clock' \in Nat /\ changes' \subseteq [part : Parts, at : 0..clock']
             /\ Later /\ BootInv'
  <2>1. /\ changes' = changes \cup {[part |-> p, at |-> clock] : p \in parts}
        /\ world' = now /\ clock' = clock
    BY <1>2 DEF Change
  <2>2. changes' \subseteq [part : Parts, at : 0..clock']
    BY <1>2, <2>1
  <2>3. Later
    BY <1>1, <1>2, <2>1 DEF Later
  <2>4. BootInv'
    BY <1>2, <2>1 DEF BootInv
  <2>5. QED  BY <2>1, <2>2, <2>3, <2>4
<1>3. \A p \in Parts : world[p] + 1 \in Nat /\ world[p] < world[p] + 1
  OBVIOUS
<1>4. CASE HostBoots
  <2> DEFINE now == [world EXCEPT !.boot = clock, !.guest = @ + 1, !.up = FALSE]
  <2>1. Change({"boot", "guest"}, now) /\ {"boot", "guest"} \in SUBSET Parts
    BY <1>1, <1>4 DEF HostBoots
  <2>2. /\ now \in [Parts \cup {"forwarded", "up"} -> Nat \cup BOOLEAN]
        /\ now["boot"] = clock /\ now["guest"] = world["guest"] + 1
        /\ \A p \in Parts \ {"boot", "guest"} : now[p] = world[p]
    BY <1>1, <1>3 DEF Parts, Kept
  <2> HIDE DEF now
  <2>3. WorldType'
    BY <1>1, <1>3, <2>1, <2>2 DEF Change
  <2>4. QED  BY <1>1, <1>2, <2>1, <2>2, <2>3
<1>5. CASE HostReplaced
  <2> DEFINE now == [world EXCEPT !.host = @ + 1, !.boot = clock, !.guest = @ + 1, !.up = FALSE]
  <2>1. Change({"host", "boot", "guest"}, now) /\ {"host", "boot", "guest"} \in SUBSET Parts
        /\ "host" \in Kept
    BY <1>1, <1>5 DEF HostReplaced, Kept
  <2>2. /\ now \in [Parts \cup {"forwarded", "up"} -> Nat \cup BOOLEAN]
        /\ now["boot"] = clock /\ now["guest"] = world["guest"] + 1
        /\ now["host"] = world["host"] + 1
        /\ \A p \in Parts \ {"host", "boot", "guest"} : now[p] = world[p]
    BY <1>1, <1>3, <2>1 DEF Parts, Kept
  <2> HIDE DEF now
  <2>3. WorldType'
    BY <1>1, <1>3, <2>1, <2>2 DEF Change
  <2>4. QED  BY <1>1, <1>2, <1>3, <2>1, <2>2, <2>3
<1>6. CASE GuestBoots
  <2> DEFINE now == [world EXCEPT !.guest = @ + 1, !.up = FALSE]
  <2>1. Change({"guest"}, now) /\ {"guest"} \in SUBSET Parts
    BY <1>1, <1>6 DEF GuestBoots
  <2>2. /\ now \in [Parts \cup {"forwarded", "up"} -> Nat \cup BOOLEAN]
        /\ now["guest"] = world["guest"] + 1
        /\ \A p \in Parts \ {"guest"} : now[p] = world[p]
    BY <1>1, <1>3 DEF Parts, Kept
  <2> HIDE DEF now
  <2>3. WorldType'
    BY <1>1, <1>3, <2>1, <2>2 DEF Change
  <2>4. /\ \A p \in Kept : world[p] <= now[p] /\ p \notin {"guest"}
        /\ \A p \in Moving : now[p] = world[p]
        /\ now["boot"] = world["boot"] /\ "boot" \notin {"guest"}
    BY <1>1, <2>2
  <2>5. QED  BY <1>2, <2>1, <2>3, <2>4
<1>7. CASE AddressChanges
  <2>1. PICK q \in Moving : Change({q}, [world EXCEPT ![q] = 1 - @])
    BY <1>7 DEF AddressChanges, Moving
  <2> DEFINE now == [world EXCEPT ![q] = 1 - @]
  <2>2. /\ 1 - world[q] \in 0..1 /\ q \in Parts /\ q \notin Kept /\ q # "boot"
    BY <1>1
  <2>3. /\ now \in [Parts \cup {"forwarded", "up"} -> Nat \cup BOOLEAN]
        /\ now[q] = 1 - world[q] /\ \A p \in Parts \ {q} : now[p] = world[p]
    BY <2>2
  <2>4. Change({q}, now)
    BY <2>1
  <2> HIDE DEF now
  <2>5. WorldType'
    BY <1>1, <2>2, <2>3, <2>4 DEF Change
  <2>6. QED  BY <1>1, <1>2, <2>2, <2>3, <2>4, <2>5
<1>8. CASE KeptChanges
  <2>1. ASSUME NEW now, NEW parts \in SUBSET Kept, Change(parts, now),
               now \in [Parts \cup {"forwarded", "up"} -> Nat \cup BOOLEAN],
               \A p \in parts : now[p] = world[p] + 1,
               \A p \in Parts \ parts : now[p] = world[p]
        PROVE  /\ clock' \in Nat /\ WorldType' /\ Later /\ BootInv'
               /\ changes' \subseteq [part : Parts, at : 0..clock']
    <3>1. WorldType'
      BY <1>1, <1>3, <2>1 DEF Change
    <3>2. QED  BY <1>1, <1>2, <1>3, <2>1, <3>1
  <2>2. CASE Change({"wallet", "channels"},
                    [world EXCEPT !.wallet = @ + 1, !.channels = @ + 1])
    <3> DEFINE now   == [world EXCEPT !.wallet = @ + 1, !.channels = @ + 1]
               parts == {"wallet", "channels"}
    <3>1. parts \in SUBSET Kept
      BY DEF Kept
    <3>2. /\ now \in [Parts \cup {"forwarded", "up"} -> Nat \cup BOOLEAN]
          /\ \A p \in parts : now[p] = world[p] + 1
          /\ \A p \in Parts \ parts : now[p] = world[p]
      BY <1>1, <1>3, <3>1
    <3>3. Change(parts, now)
      BY <2>2
    <3> HIDE DEF now, parts
    <3>4. QED  BY <2>1, <3>1, <3>2, <3>3
  <2>3. ASSUME NEW q \in {"volume", "channels"}, Change({q}, [world EXCEPT ![q] = @ + 1])
        PROVE  /\ clock' \in Nat /\ WorldType' /\ Later /\ BootInv'
               /\ changes' \subseteq [part : Parts, at : 0..clock']
    <3> DEFINE now == [world EXCEPT ![q] = @ + 1]
    <3>1. {q} \in SUBSET Kept /\ q \in Parts
      BY <1>1 DEF Kept
    <3>2. /\ now \in [Parts \cup {"forwarded", "up"} -> Nat \cup BOOLEAN]
          /\ \A p \in {q} : now[p] = world[p] + 1
          /\ \A p \in Parts \ {q} : now[p] = world[p]
      BY <1>1, <1>3, <3>1
    <3>3. Change({q}, now)
      BY <2>3
    <3> HIDE DEF now
    <3>4. QED  BY <2>1, <3>1, <3>2, <3>3
  <2>4. QED  BY <1>8, <2>2, <2>3 DEF KeptChanges
<1>9. CASE Restore
  <2>1. /\ \A p \in Parts : world'[p] = world[p]
        /\ world' \in [Parts \cup {"forwarded", "up"} -> Nat \cup BOOLEAN]
        /\ clock' = clock /\ changes' = changes
    BY <1>9 DEF Restore, Parts, Kept
  <2>2. QED  BY <1>1, <2>1 DEF Later, BootInv
<1>10. CASE ClockAdvances
  <2>1. clock' = clock + 1 /\ world' = world /\ changes' = changes
    BY <1>10 DEF ClockAdvances
  <2>2. QED  BY <1>1, <2>1 DEF Later, BootInv
<1>11. QED  BY <1>4, <1>5, <1>6, <1>7, <1>8, <1>9, <1>10

(* Nothing moves while a file is written.                                  *)
LEMMA StandsStill ==
  ASSUME EvidenceInv, UNCHANGED <<clock, world, changes>>
  PROVE  Later /\ BootInv' /\ (FileTypes' => EvidenceTypes')
BY DEF EvidenceInv, EvidenceTypes, WorldType, BootInv, Later, Kept, Parts

(* The moves of the world leave the files alone, and a task at most dies.  *)
LEMMA WorldKeeps ==
  ASSUME EvidenceInv,
         \/ HostBoots \/ HostReplaced \/ GuestBoots \/ AddressChanges \/ KeptChanges
         \/ Restore \/ ClockAdvances
  PROVE  EvidenceInv'
<1>1. UNCHANGED <<request, checked, receipt, pending, pass>> /\ task' \in {task, None}
  BY DEF HostBoots, HostReplaced, GuestBoots, AddressChanges, KeptChanges, Restore,
         ClockAdvances, Change, evFiles
<1>2. FileTypes'
  BY <1>1 DEF EvidenceInv, EvidenceTypes, FileTypes
<1>3. EvidenceTypes' /\ Later /\ BootInv'
  BY <1>2, WorldMoves DEF EvidenceTypes
<1>4. TaskInv'
  <2> SUFFICES ASSUME task' # None
               PROVE  /\ task.wallet <= world'["wallet"] /\ task.channels <= world'["channels"]
                      /\ task.op # "prepare" => pending[task.kind] # None
    BY <1>1 DEF TaskInv
  <2>1. world["wallet"] <= world'["wallet"] /\ world["channels"] <= world'["channels"]
    BY <1>3 DEF Later, Kept
  <2>2. /\ task \in Task /\ world["wallet"] \in Nat /\ world["channels"] \in Nat
        /\ world'["wallet"] \in Nat /\ world'["channels"] \in Nat
    BY <1>1, <1>3 DEF EvidenceInv, EvidenceTypes, WorldType, FileTypes, Parts, Kept
  <2>3. QED  BY <1>1, <2>1, <2>2 DEF EvidenceInv, TaskInv, Task
<1>5. RecordsInv'
  BY <1>1, <1>3, OldRecords DEF RecordsInv
<1>6. QED  BY <1>3, <1>4, <1>5 DEF EvidenceInv

(* The outside check touches no record of a recovery.                      *)
LEMMA CheckKeeps == ASSUME EvidenceInv, CheckStep  PROVE EvidenceInv'
<1>1. UNCHANGED <<clock, world, changes, pending, pass, task>>
  BY DEF CheckStep, Issue, Check, Import
<1>2. FileTypes'
  <2>1. world["wallet"] \in Nat /\ world["endpoint"] \in Nat /\ clock \in Nat
    BY DEF EvidenceInv, EvidenceTypes, WorldType, Parts, Kept
  <2>2. CASE Issue
    BY <1>1, <2>1, <2>2 DEF Issue, Request, EvidenceInv, EvidenceTypes, FileTypes
  <2>3. CASE Check
    BY <1>1, <2>1, <2>3 DEF Check, Outside, EvidenceInv, EvidenceTypes, FileTypes
  <2>4. CASE Import
    BY <1>1, <2>4 DEF Import, EvidenceInv, EvidenceTypes, FileTypes
  <2>5. QED  BY <2>2, <2>3, <2>4 DEF CheckStep
<1>3. EvidenceTypes' /\ Later /\ BootInv'
  BY <1>1, <1>2, StandsStill
<1>4. TaskInv' /\ RecordsInv'
  BY <1>1, <1>3, OldRecords DEF EvidenceInv, TaskInv, RecordsInv
<1>5. QED  BY <1>3, <1>4 DEF EvidenceInv

(* Beginning, cancelling, clearing and giving up.                          *)
LEMMA TaskKeeps ==
  ASSUME EvidenceInv,
         \/ \E kind \in Kinds, o \in {"prepare", "verify"} : BeginTask(kind, o)
         \/ \E kind \in Kinds : Cancel(kind)
         \/ ClearPending \/ TaskEnds
  PROVE  EvidenceInv'
<1>1. UNCHANGED <<clock, world, changes, request, checked, receipt, pass>>
  BY DEF BeginTask, Cancel, ClearPending, TaskEnds, evFiles
<1>2. \A k \in Kinds : pending'[k] \in {pending[k], None}
  BY DEF BeginTask, Cancel, ClearPending, TaskEnds, evFiles, EvidenceInv, EvidenceTypes,
         FileTypes
<1>3. /\ task' \in Task \cup {None} /\ TaskInv'
      /\ pending' \in [Kinds -> Capture \cup {None}]
  <2>1. ASSUME NEW kind \in Kinds, NEW o \in {"prepare", "verify"}, BeginTask(kind, o)
        PROVE  task' \in Task \cup {None} /\ TaskInv' /\ pending' = pending
    <3>1. world["wallet"] \in Nat /\ world["channels"] \in Nat
      BY DEF EvidenceInv, EvidenceTypes, WorldType, Parts, Kept
    <3>2. /\ task' = [kind |-> kind, op |-> o, wallet |-> world["wallet"],
                      channels |-> world["channels"]]
          /\ world' = world /\ pending' = pending
          /\ o # "prepare" => pending[kind] # None
      BY <2>1 DEF BeginTask, evFiles
    <3>3. task' \in Task
      BY <3>1, <3>2 DEF Task
    <3>4. TaskInv'
      BY <3>1, <3>2 DEF TaskInv
    <3>5. QED  BY <3>2, <3>3, <3>4
  <2>2. ASSUME NEW kind \in Kinds, Cancel(kind)
        PROVE  /\ task' \in Task \cup {None} /\ TaskInv'
               /\ pending' \in [Kinds -> Capture \cup {None}]
    BY <2>2 DEF Cancel, TaskInv, EvidenceInv, EvidenceTypes, FileTypes
  <2>3. CASE ClearPending \/ TaskEnds
    BY <2>3 DEF ClearPending, TaskEnds, TaskInv, evFiles, EvidenceInv, EvidenceTypes, FileTypes
  <2>4. QED  BY <2>1, <2>2, <2>3 DEF EvidenceInv, EvidenceTypes, FileTypes
<1>4. FileTypes'
  BY <1>1, <1>3 DEF EvidenceInv, EvidenceTypes, FileTypes
<1>5. EvidenceTypes' /\ Later /\ BootInv'
  BY <1>1, <1>4, StandsStill
<1>6. RecordsInv'
  BY <1>1, <1>2, <1>5, OldRecords DEF RecordsInv
<1>7. QED  BY <1>3, <1>5, <1>6 DEF EvidenceInv

(* A capture is behind the world it was taken of.                          *)
LEMMA NewCapture == ASSUME EvidenceInv, task # None  PROVE Behind(Observed)
<1> USE DEF EvidenceInv, EvidenceTypes, WorldType
<1>1. Kept \subseteq Parts /\ Moving \subseteq Parts \ {"wallet", "channels"}
      /\ "wallet" \in Kept /\ "channels" \in Kept
  BY DEF Parts, Kept, Moving
<1>2. \A p \in Kept : Observed.parts[p] <= world[p]
  <2>1. \A p \in Kept : p = "wallet" \/ p = "channels" \/ Observed.parts[p] = world[p]
    BY <1>1, ObservedIs
  <2>2. QED  BY <1>1, <2>1, ObservedIs DEF TaskInv
<1>3. \A c \in changes : ~(Observed.at < c.at)
  BY ObservedIs
<1>4. \A p \in Moving : Observed.parts[p] = world[p]
  BY <1>1, ObservedIs
<1>5. QED  BY <1>2, <1>3, <1>4, ObservedIs DEF Behind

(* prepare saves one.                                                      *)
LEMMA PrepareKeeps == ASSUME EvidenceInv, Prepare  PROVE EvidenceInv'
<1> USE DEF EvidenceInv, EvidenceTypes, FileTypes
<1>1. /\ task # None /\ task' = None /\ pending' = [pending EXCEPT ![task.kind] = Observed]
      /\ UNCHANGED <<clock, world, changes, request, checked, receipt, pass>>
  BY DEF Prepare
<1>2. PICK k \in Kinds : k = task.kind
  BY <1>1 DEF Task
<1>3. PICK o \in Capture : o = Observed
  BY <1>1, ObservedIs
<1>4. pending'[k] = o /\ \A j \in Kinds : j # k => pending'[j] = pending[j]
  BY <1>1, <1>2, <1>3
<1>5. FileTypes'
  BY <1>1, <1>2, <1>3
<1>6. EvidenceTypes' /\ Later /\ BootInv'
  BY <1>1, <1>5, StandsStill
<1>7. Behind(o)'
  BY <1>1, <1>3, <1>6, NewCapture, StaysBehind
<1>8. RecordsInv'
  <2> SUFFICES ASSUME NEW j \in Kinds
               PROVE  /\ pending'[j] # None => Behind(pending[j])'
                      /\ pass'[j] # None => Behind(pass[j].before)' /\ Between(pass[j])'
    BY DEF RecordsInv
  <2>1. CASE j = k
    BY <1>1, <1>4, <1>6, <1>7, <2>1, OldRecords DEF Behind
  <2>2. CASE j # k
    BY <1>1, <1>4, <1>6, <2>2, OldRecords
  <2>3. QED  BY <2>1, <2>2
<1>9. QED  BY <1>1, <1>6, <1>8 DEF TaskInv

(* verify writes a record of two: what happened between them is known.     *)
LEMMA VerifyKeeps == ASSUME EvidenceInv, Verify  PROVE EvidenceInv'
<1> USE DEF EvidenceInv, EvidenceTypes, FileTypes
<1>1. /\ task # None /\ task.op = "verify" /\ task' = [task EXCEPT !.op = "clear"]
      /\ pass' = [pass EXCEPT ![task.kind] =
                    [before |-> pending[task.kind], after |-> Observed]]
      /\ UNCHANGED <<clock, world, changes, request, checked, receipt, pending>>
  BY DEF Verify
<1>2. PICK k \in Kinds : k = task.kind
  BY <1>1 DEF Task
<1>3. PICK b \in Capture : b = pending[k]
  BY <1>1, <1>2 DEF TaskInv
<1>4. PICK a \in Capture : a = Observed
  BY <1>1, ObservedIs
<1>5. PICK r \in Pair : r = [before |-> b, after |-> a]
  BY DEF Pair
<1>6. r.before = b /\ r.after = a /\ Behind(b)
  BY <1>1, <1>2, <1>3, <1>5 DEF TaskInv, RecordsInv
<1>7. Between(r)
  <2>1. /\ \A p \in {"host", "volume", "address", "endpoint", "boot"} : a.parts[p] = world[p]
        /\ a.at = clock /\ a.parts["boot"] \in Nat
    BY <1>1, <1>4, ObservedIs DEF Parts, Kept, Capture
  <2>2. \A c \in changes : c.part \in Standing /\ b.at < c.at => b.parts[c.part] < a.parts[c.part]
    BY <1>6, <2>1 DEF Behind, Standing, Kept
  <2>3. \A p \in Moving : b.parts[p] # a.parts[p] => ChangedIn({p}, b.at, a.at)
    BY <1>6, <2>1 DEF Behind, Moving
  <2>4. /\ a.parts["boot"] # 0 => [part |-> "boot", at |-> a.parts["boot"]] \in changes
        /\ a.parts["boot"] <= a.at
    BY <2>1 DEF BootInv
  <2>5. QED  BY <1>6, <2>1, <2>2, <2>3, <2>4 DEF Between
<1>8. pass'[k] = r /\ \A j \in Kinds : j # k => pass'[j] = pass[j]
  BY <1>1, <1>2, <1>3, <1>4, <1>5
<1>9. task' \in Task /\ task'.wallet = task.wallet /\ task'.channels = task.channels
      /\ task'.kind = task.kind
  BY <1>1 DEF Task
<1>10. FileTypes'
  BY <1>1, <1>2, <1>3, <1>4, <1>5, <1>9
<1>11. EvidenceTypes' /\ Later /\ BootInv'
  BY <1>1, <1>10, StandsStill
<1>12. Behind(r.before)' /\ Between(r)'
  BY <1>6, <1>7, <1>11, StaysBehind, StaysBetween
<1>13. RecordsInv'
  <2> SUFFICES ASSUME NEW j \in Kinds
               PROVE  /\ pending'[j] # None => Behind(pending[j])'
                      /\ pass'[j] # None => Behind(pass[j].before)' /\ Between(pass[j])'
    BY DEF RecordsInv
  <2>1. CASE j = k
    BY <1>1, <1>8, <1>11, <1>12, <2>1, OldRecords DEF Behind, Between
  <2>2. CASE j # k
    BY <1>1, <1>8, <1>11, <2>2, OldRecords
  <2>3. QED  BY <2>1, <2>2
<1>14. TaskInv'
  BY <1>1, <1>9 DEF TaskInv
<1>15. QED  BY <1>11, <1>13, <1>14

(* Every step keeps the invariant.                                         *)
LEMMA EvidenceInvStep == EvidenceInv /\ [EvidenceNext]_evVars => EvidenceInv'
<1> SUFFICES ASSUME EvidenceInv, [EvidenceNext]_evVars  PROVE EvidenceInv'
  OBVIOUS
<1>1. CASE UNCHANGED evVars
  <2>1. UNCHANGED <<clock, world, changes, request, checked, receipt, pending, pass, task>>
    BY <1>1 DEF evVars
  <2>2. FileTypes' /\ TaskInv'
    BY <2>1 DEF EvidenceInv, EvidenceTypes, FileTypes, TaskInv
  <2>3. EvidenceTypes' /\ Later /\ BootInv'
    BY <2>1, <2>2, StandsStill
  <2>4. RecordsInv'
    BY <2>1, <2>3, OldRecords DEF RecordsInv
  <2>5. QED  BY <2>2, <2>3, <2>4 DEF EvidenceInv
<1>2. CASE EvidenceNext
  BY <1>2, CheckKeeps, TaskKeeps, PrepareKeeps, VerifyKeeps, WorldKeeps
  DEF EvidenceNext, EvidenceStep
<1>3. QED  BY <1>1, <1>2

(* A verified reboot of the host is one: for any number of reboots,        *)
(* restarts of the VM, replacements and kills, the host booted between the *)
(* baseline and the verification, on the same machine, and the wallet and  *)
(* the channels of now are those of the baseline.                          *)
THEOREM RebootIsProved == EvidenceSpec => []RebootIsReal
<1>1. EvidenceInv => RebootIsReal
  <2> SUFFICES ASSUME EvidenceInv, VerifiedHistory("host")  PROVE RebootIsReal
    BY DEF RebootIsReal
  <2>1. PICK r \in Pair : r = pass["host"] /\ Behind(r.before) /\ Between(r)
    BY DEF VerifiedHistory, EvidenceInv, EvidenceTypes, FileTypes, RecordsInv, Kinds
  <2>2. /\ r.after.at > r.before.at /\ r.after.parts["boot"] > r.before.at
        /\ \A p \in Kept : r.before.parts[p] = r.after.parts[p]
        /\ world["wallet"] = r.after.parts["wallet"]
        /\ world["channels"] = r.after.parts["channels"]
    BY <2>1 DEF VerifiedHistory, Proves, HostRebooted, SameNode
  <2>3. /\ r.before.at \in Nat /\ r.after.at \in Nat /\ r.after.parts["boot"] \in Nat
        /\ \A p \in Kept : r.before.parts[p] \in Nat
        /\ clock \in Nat /\ r.after.at <= clock
    BY <2>1 DEF Pair, Capture, Parts, Kept, EvidenceInv, EvidenceTypes, Between
  <2>4. \A c \in changes : c.part \in Parts /\ c.at \in Nat
    BY DEF EvidenceInv, EvidenceTypes
  <2>5. ChangedIn({"boot"}, r.before.at + 1, r.after.at)
    <3>1. [part |-> "boot", at |-> r.after.parts["boot"]] \in changes
          /\ r.after.parts["boot"] <= r.after.at
      BY <2>1, <2>2, <2>3 DEF Between
    <3>2. r.before.at + 1 <= r.after.parts["boot"]
      BY <2>2, <2>3
    <3>3. QED  BY <3>1, <3>2 DEF ChangedIn
  <2>6. ~ChangedIn({"wallet", "channels"}, r.before.at + 1, clock - 1)
    <3> SUFFICES ASSUME NEW c \in changes, c.part \in {"wallet", "channels"},
                        r.before.at + 1 <= c.at
                 PROVE  FALSE
      BY DEF ChangedIn
    <3>1. r.before.parts[c.part] < world[c.part]
      BY <2>1, <2>3, <2>4 DEF Behind, Kept
    <3>2. world[c.part] = r.before.parts[c.part]
      BY <2>2 DEF Kept
    <3>3. QED  BY <2>3, <3>1, <3>2 DEF Kept
  <2>7. ~ChangedIn({"host", "wallet", "volume"}, r.before.at + 1, r.after.at - 1)
    <3> SUFFICES ASSUME NEW c \in changes, c.part \in {"host", "volume"},
                        r.before.at + 1 <= c.at, c.at <= r.after.at - 1
                 PROVE  FALSE
      BY <2>3, <2>4, <2>6 DEF ChangedIn
    <3>1. r.before.parts[c.part] < r.after.parts[c.part]
      BY <2>1, <2>3, <2>4 DEF Between, Standing
    <3>2. QED  BY <2>2, <2>3, <3>1 DEF Kept
  <2>8. QED  BY <2>1, <2>5, <2>6, <2>7 DEF RebootIsReal
<1>2. QED  BY <1>1, EvidenceInitInv, EvidenceInvStep, PTL DEF EvidenceSpec

(* A verified recovery from a change of address had the change, and an     *)
(* outside check asked for after its baseline, for the address and wallet  *)
(* it shows, whatever is imported, repeated, cancelled or killed.          *)
THEOREM AddressIsProved == EvidenceSpec => []AddressCheckIsNew
<1>1. EvidenceInv => AddressCheckIsNew
  <2> SUFFICES ASSUME EvidenceInv, VerifiedHistory("address")  PROVE AddressCheckIsNew
    BY DEF AddressCheckIsNew
  <2>1. PICK r \in Pair : r = pass["address"] /\ Between(r)
    BY DEF VerifiedHistory, EvidenceInv, EvidenceTypes, FileTypes, RecordsInv, Kinds
  <2>2. AddressRecovered(r.before, r.after) /\ world.wallet = r.after.parts.wallet
    BY <2>1 DEF VerifiedHistory, Proves
  <2>3. PICK c : /\ c = r.after.check
                 /\ CurrentReceipt(c, r.after.parts["wallet"], r.after.parts["endpoint"], r.after.at)
    BY <2>2 DEF AddressRecovered
  <2>4. /\ c.request.wallet = r.after.parts["wallet"]
        /\ c.request.endpoint = r.after.parts["endpoint"]
        /\ c.request.issued <= c.made /\ c.made <= r.after.at /\ c # None
    BY <2>3 DEF CurrentReceipt, ValidCheck
  <2>5. c.request.issued > r.before.at
    BY <2>2, <2>3 DEF AddressRecovered, NewCheck
  <2>6. c.made > r.before.at
    <3>1. c.request.issued \in Nat /\ c.made \in Nat /\ r.before.at \in Nat
      BY <2>1, <2>3, <2>4 DEF Pair, Capture, Outside, Request
    <3>2. QED  BY <2>4, <2>5, <3>1
  <2>7. ChangedIn({"address", "endpoint"}, r.before.at, r.after.at)
    <3>1. PICK p \in Moving : r.before.parts[p] # r.after.parts[p]
      BY <2>2 DEF AddressRecovered, Moving
    <3>2. ChangedIn({p}, r.before.at, r.after.at)
      BY <2>1, <3>1 DEF Between
    <3>3. QED  BY <3>2 DEF ChangedIn, Moving
  <2>8. QED  BY <2>1, <2>2, <2>3, <2>4, <2>6, <2>7 DEF AddressCheckIsNew
<1>2. QED  BY <1>1, EvidenceInitInv, EvidenceInvStep, PTL DEF EvidenceSpec

=============================================================================
