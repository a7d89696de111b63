# lnd-ops: models and proofs

lnd-ops operates one Lightning node (LND on K3s, on mutinynet and regtest) from
a laptop: a set of Python and shell commands under `src/ops`, an agent gateway
under `src/agent`, collectors, and Helm charts. Money moves through four of
them: the channel opener, the channel closer, the proof payment and Loop swaps.
All four follow one pattern, *journal, send once, reconcile, never resend*, and
each implements it differently. This project models those four, the agent
gateway, the reconnection of peers, and the machines around the Router that
supervise, judge and rehearse it: the VM start, the monitor, the evidence of
recoveries, the readiness verdict, the paid-scan diagnosis, the hand-over to
Flux and the recovery drill. TLC checks all of them. TLAPS proves, for every
value of the constants, every invariant and every action property that the
passing runs check, and that the channel opener, the proof payment and Loop
swaps implement one abstract specification of sending once. What remains with
TLC alone is liveness.

## 1. Inventory

| component | state | operations | interacts with |
|---|---|---|---|
| channel opener (`router_channels.py`, `router-channel`) | `open-request.json`, `open-<id>.json`, an approved preview in memory | reconcile, preview, submit, attest a rejection | LND RPC, the store |
| channel closer (`router_closing.py`, `router-close`) | `close-requests.json`, one record per channel point | status, preview, submit | LND RPC, the store |
| proof payment (`router_proof_run.py`, `router-proof`) | `proof-request.json`, `proof-endpoints.json`, `forwarding-proof.json` | start, reconcile, resume | payer and receiver over SSH, LND, readiness |
| record store and lock (`router_store.py`) | files, `operations.lock` (flock) | read, write (atomic replacement), `operation_lock` | all router commands |
| LND RPC wrapper (`router_rpc.py`) | none | call with a 30 s timeout, exact refusals | LND |
| Loop operations (`loop_ops.py`, `loop_ui.py`, `loop_api.py`) | ConfigMap `lnd-ops-loop-operations`: records and one automatic rule | reconcile, submit, arm, disarm, auto_tick | Kubernetes compare-and-swap, loopd, LND |
| Runbook gateway (`runbook_gateway.py`) | ConfigMap `runbook-action-state` (the epoch of the last restart), Events | execute_allowlisted_response and read-only tools | the Kubernetes API, an AI agent |
| readiness (`router_model.py`, `verify-router`, `router_policy.py`, `router_report.py`) | evidence records on disk | assess, funding progress, report | every record above |
| monitor and worker (`router-monitor`, `router_monitor.py`, `router_worker.py`, `router_service.py`) | heartbeat, last observation, alert counters | probe, accept, check_freshness | the helpers below |
| peer reconnection (`router_peers.py`) | `peers.json`: approved addresses, attempt counters and backoff | approve, reconnect | LND, the monitor's probe, the store |
| VM start (`router_vm.py`) | a persisted attempt counter and backoff | ensure_started | limactl |
| external observation (`router_observation.py`) | an issued challenge, an imported observation | issue, import, expire | an observer on another host |
| host and address recovery (`router_recovery.py`, `router_address_recovery.py`, `wallet_wait.py`) | one evidence record per reboot | begin, observe | the host, LND |
| channel backups (`backup-scb-encrypted`, `router_backup.py`) | encrypted copies and their digest | back up, verify | LND, the other disk |
| recovery drill (`prepare-`, `finish-`, `abort-`, `verify-regtest-recovery`, `reset-recovered-regtest`) | a namespace and its annotations, a label on the original | prepare, restore, verify, finish, abort, reset | kubectl, helm, `ops/deploy` |
| Flux transition (`flux_ops.py`) | namespace labels, `lnd.json`, commits | prepare, adopt, verify, guard | Git, Flux, helm |
| collectors, diagnostics, scripts, charts | none of their own | polls and menus | Prometheus, kubectl |

`PROJECT.json` lists every part with its status, and 40 hazards with their
lines.

### Which behaviours are hard

- *Several commands at once.* Nothing keeps an operator from opening two
  terminals. The router commands share an advisory lock that is *not* held
  while the operator reads a preview; Loop screens share a ConfigMap under
  compare-and-swap; the gateway runs each call on a thread of its own.
- *Dying anywhere.* Every command may be killed between any two steps (Ctrl-C,
  a closed lid, a Pod eviction). What it wrote stays, its lock goes, what it
  knew is lost.
- *Late answers.* `openchannel`, `closechannel`, `payinvoice` and a Loop post
  may time out and still take effect, after the caller has given up and while
  every list is still empty.
- *Two reads are two moments.* `listchannels` and `pendingchannels`,
  `pendingchannels` and `closedchannels`, loopd's swaps and LND's payments are
  separate calls; the channel or the swap moves between them.
- *Old news.* Observations, checks and baselines carry the time they were made,
  and are judged later by other processes, after the node, the host or the
  address has changed.
- *A person between the commands.* The hand-over to Flux is seven commands with
  Git commits between them, while Flux and a second terminal go on. The drill
  is four scripts of up to eight cluster changes, each of which may be the last.
- *Attempts, budgets, cooldowns* are counted in files and ConfigMaps by
  processes that may not finish.

### What makes the components correct

| component | properties |
|---|---|
| opener | one funding undecided at a time; a verdict needs evidence; nothing is sent unrecorded; the approved total holds; a verdict is never overwritten; a channel that stays open is recorded in the end |
| closer | one `closechannel` per channel; closed needs evidence; records only advance; a confirmed close is recorded in the end |
| proof payment | one payment on its way; evidence only of a payment that settled as approved; a lost answer is reconciled in the end |
| Loop | one swap per claim and per approval; a disarm wins over a racing tick; no claim beyond the 24-hour budget |
| gateway | the cooldown separates restarts; a restart without its Event was never reported as done |
| peer reconnection | three requests per incident whatever is killed; the approved address only; an absence is reviewed in the end |
| VM start | never more than three starts per budget, and a recorded delay between two, whatever is killed |
| monitor | a reader is told "ready" only of a node that was ready within 30 s; a lasting outage is reported in the end, even if every probe hangs |
| recovery evidence | what is shown as recovered from a reboot or a change of address was; the external check of an address recovery is newer than its baseline (a reboot record claims none) |
| readiness | ready only when the test payment can be forwarded with the tool's cushion to spare, and then always; missing data never asks for one more channel |
| paid-scan diagnosis | the stage named is the one the records prove; records that contradict each other are escalated |
| Flux | the release is reconciled only under its mark; a person who goes on completes the hand-over |
| drill | never two live copies of one wallet; an abort gives the original back |

## 2. The modules

| module | models | composed with |
|---|---|---|
| `SingleFlight` | the promise shared by three journals, abstractly: intend, send once, settle, learn | instantiated by the three below |
| `RouterChannels` | the channel opener, its wizard, its store and lock | refines `SingleFlight` |
| `RouterChannels_proofs` | the theorems about `RouterChannels` | |
| `RouterClosing` | the channel closer and its screen | |
| `RouterClosing_proofs` | the theorems about `RouterClosing` | |
| `RouterProofRun` | the proof payment and its command | refines `SingleFlight` |
| `RouterProofRun_proofs` | the theorems about `RouterProofRun` | |
| `LoopOps` | Loop operations, manual and automatic screens | refines `SingleFlight` |
| `LoopOps_proofs` | the theorems about `LoopOps` | |
| `RunbookGateway` | concurrent calls of the gateway's one mutation | |
| `RouterPeers` | passes over the approved peers, approvals, connections, time | |
| `RouterPeers_proofs` | the theorems about `RouterPeers` | |
| `RouterVM` | approvals, the start service, limactl and the VM around it | |
| `RouterMonitor` | the monitor loop, its probe, `monitor.json` and its reader | |
| `RouterEvidence` | external checks, and the evidence of reboots and address changes | |
| `RouterHost_proofs` | the theorems about `RouterVM`, `RouterMonitor` and `RouterEvidence` | |
| `RouterReadiness` | `assess` over what LND reports, and LND's channels | |
| `PaidScanDiagnosis` | where a paid order stopped, whether the gate sells | |
| `Verdicts_proofs` | the theorems about `RouterReadiness` and `PaidScanDiagnosis` | |
| `FluxHandover` | the commands of the hand-over, Git, Flux, a second terminal | |
| `RegtestDrill` | the drill's scripts, a deployment beside them, Pods and namespaces | |
| `Cluster_proofs` | the theorems about `FluxHandover`, `RegtestDrill` and `RunbookGateway` | |
| `MCHost` | `RunbookGateway` and the machines from `RouterVM` down in one run | all eight |
| other `MC*` | instances for TLC | |

Definitions written for comparison carry the comment `mutant`: each is a
plausible bug (a dropped check, a swapped order, an empty list taken for a
refusal) that breaks a property listed in `PROJECT.json`. No action uses them.

### State and actions against the code

**RouterChannels.** `journal` is `open-request.json`, `archive` the states in
`open-<id>.json`, `lock` the holders of `operations.lock`, `rec` the dictionary
a run holds, `plan` the preview its operator approved, `lnd[r]` what LND really
did with request r. `Begin` is `operation_lock` with the first read of the
journal. `ListChannels` and `Classify` are the two halves of `reconcile`: the
channel may move between them. Every save is two steps, `WriteJournal` and
`WriteArchive`, because `save` writes two files. `FinishLook`, `Approve` and
`Submit` are the wizard: look, let the lock go, preview and prompt, take the
lock, reconcile again, preview again, journal. `SendOpen`, `ReplyFunded`,
`ReplyRejected`, `ReplyLost` are the RPC with its three outcomes; `Attest` is
`acknowledge_minimum_rejection`, `Stop` everything that raises or kills. The
`Lnd...` actions and `RemoteOpens` are the environment.

**RouterClosing.** `records` is `close-requests.json`, rewritten whole from the
copy `mem` of the run. `ListPending` and `WriteStatus` are the two reads of
`status`; `Submit`, `SendClose`, `ReplyOk`, `ReplyLost` are `submit`. The
channel may close, be refused, or lose an HTLC (its balance moves) at any time,
also by its peer's decision.

**RouterProofRun.** `record`, `endpoints` and `evidence` are the three files.
`Resume` and `Prompt` are the two ways through the command's `main`;
`WriteEndpoints` is the write the command makes before `start` takes the lock.
`RequestInvoice`, `SavePaying`, `SendPay` and the replies are `start`;
`Reconcile`, `TrackFailed`, `TrackSettled`, `WriteProof` are `reconcile`, which
takes the lock a second time. `odd` is a payment that settled and that
`validate` refuses.

**LoopOps.** `doc` is the ConfigMap, `snap` a screen's copy, `stale` whether
its resourceVersion has been overtaken, `token` the approval a watching screen
runs under. `Begin`, `ReadSwaps`, `Reconcile` are `reconcile` (a
compare-and-swap of its own if anything changed), `Claim` and `Post` are
`submit`, `Arm`, `BeginDisarm`, `Disarm` the rule. A failed disarm leaves the
rule on with no screen behind it.

**RunbookGateway.** One action per request a call makes to the API server, and
`Fail` between any two.

**RouterPeers.** `file` is `peers.json`, `mem` the dictionary a pass read and
changes, `seen` what `listpeers` answered it, `due` which peers its `now` had
reached, `todo` the rest of its `for` loop (in the order of the file, whose keys
`write` sorts). A pass is a probe of `router-monitor`, `router-peers
--reconnect` or the end of the wizard. `Begin` is the lock with the reads up to
the loop: they come before anything is written, and nothing they read is
anybody else's to change but `listpeers`, of which one moment is as good as
another. One action per branch of the loop: `Connected`, `Exhausted`, `Wait`,
`Attempt` with its write, then `Send` and `Reply` with its write; `Finish` is
the last write. `Stop` is an exception or a kill (`StatusWorker.close`).
`asked` is a history variable: the `connect` requests LND was sent for a peer
that was away, since it was last connected or approved.

**RouterVM.** `startFile` is `vm-start.json`, `service` where the launchd service
is, `vm` and `config` the instance and the fingerprint of its configuration.
`Look` is the inventory call; `SeesRunning`, `SeesTransition`, `BudgetSpent`,
`Waits` and `RecordsAttempt` are the branches of `ensure_started`, `Spawns`,
`ClientEnds` and `StoppedInClient` the `limactl start` it waits for. `Exit` is
every end, `VMMoves` whatever the VM does, `Approve...` the operator, who
looks before he takes the lock. `starts` and `pause` are history.

**RouterMonitor.** `seen` is the object `Observations`, `monitorFile` is
`monitor.json`, `probe` the worker's subprocess. `MonitorLoop` is one round:
`Tick`, `Accept` if there is a result, `CheckFreshness`, `Saved`. A stamp is
its age. The node changes between any two steps, the probe may hang for ever,
and `readyAge` is how long ago the node was last ready.

**RouterEvidence.** `request`, `checked`, `receipt` are the request, the result
on the checker's machine and the imported result; `pending` and `pass` the
baseline and the passing record of each kind. `BeginTask` is the snapshot with
which a capture begins (wallet and channels), `Prepare` and `Verify` the rest of
it: the world may change between the two. `Verify` and `ClearPending` are two
writes. The world boots, moves, restarts its VM, changes addresses, wallet,
volume and channels, and each change is recorded in `changes`.

**RouterReadiness.** `Code` is `assess`: its early returns as a list of
conditions in their order, of which the first counts. `DirectionalCapacity`,
`OutBlockers`, `InBlockers` and `Routes` are the functions of the same names
and the loops over the channels. `Fits` and `CanForward` are what an HTLC and a
forwarding need, and are not used by `assess`: a slot, the in-flight limit, the
reserve, and `spare` satoshis that the funding side must keep. How much LND asks
to be spared depends on its fee estimates; the source calls its own figure
conservative and "not LND's exact live bandwidth" (`router_model.py:3, 46-47`).
`AssessIsRight` therefore says two different things: a ready node can forward
whatever LND asks to be spared up to one more commitment fee, the cushion of
line 57; and a node that can forward with that whole fee spared is called ready,
so that the estimate is too low by the tool's own cushion at most. A node in
between may be refused although LND would forward. Of the requests for one more
channel it says what the code ensures: no public channel is pending and every
public channel's peer is connected; an inactive channel with a connected peer
may be among them. A policy may be asked for while another channel is pending.

**PaidScanDiagnosis.** `Stages` is the chain of `diagnose`, `Signals`,
`Security` and `Verdict` are `funnel_status`. The records and counters move one
part at a time into any combination.

**FluxHandover.** `tree`, `head`, `source` and `applied` are the working tree,
the pushed commit, the fetched one and the applied one. `StageProbe`,
`RecordProbe`, `Export` and `ExportWrites`, `Adopt` and `AdoptWrites`,
`EditValues` and `AcceptHandover` are the commands of `flux-phase`, one action
per write; `Push` is the person; `Fetches`, `Applies` and the two `Attempts...`
are Flux's controllers. `DeployGuard` and `DeployUpgrades` are `ops/deploy` in
another terminal, `Killed` a command that stops between its writes.

**RegtestDrill.** `original` and `copy` are the two namespaces: the label, the
replicas of `lnd-0`, whether its Pod is there, whose wallet it holds. `script`
is the running script and its next command; one action per command that changes
the cluster, and `ScriptStops` between any two (a kill, an error, a timeout:
the scripts run under `set -e`). `StopFails` is the one failure that is certain:
`kubectl scale` of a StatefulSet that is not there. Replicas and deletions are
requests; `PodsFollow` and `NamespaceGoes` fulfil them later. `DeploymentGuard`
and `DeploymentUpgrades` are the two ends of `ops/deploy regtest`; `stale` is
history: the guard was read before the label that is set now.

**MCHost.** These machines share no variable, so a behaviour of `MCHost` chooses
one of them (`focus`) and the others stand still: a sum, not a product. The evidence
of reboots and of addresses, and the two halves of the diagnosis, share none
either and take turns the same way.

## 3. Runs

| run | instance | shows |
|---|---|---|
| `channels` | 2 runs, 2 requests to 2 peers, caps 1 and 2 (1.5 M states) | the opener's safety, and that it implements `SingleFlight` |
| `channels_live` | 1 run, a peer that opens channels itself | `OpenChannelIsRecorded` |
| `closing` | 2 runs, 2 channels, one balance that moves once | the closer's safety and that a confirmed close is recorded |
| `proof` | 2 runs, 2 payments, 2 pairs of wallets, a path replaced once | the proof payment's safety, refinement and `ResumeDecides` |
| `proof_lost` | the same without path changes | **violated**: a lost answer is not always reconciled (finding 1) |
| `loop` | 2 screens, 2 quotes, 2 approvals, no clock | single flight under races for the ConfigMap, `OneSwapPerApproval`, `DisarmWins` |
| `loop_budget` | 1 screen, costs up to 3, reservations of 2, a budget of 3, a clock | `BudgetAdmits` |
| `peers` | 1 process after the other, 2 peers, 2 approvals | the reconnection budget, addresses, and that an absence is reviewed |
| `host` | each of the eight machines on its own (553 K states): the gateway with 3 calls, a clock of 5 and a cooldown of 2; a regtest made anew once | all their properties; calls in turn respect the cooldown, and no restart is reported without its Event whatever overlaps or fails |
| `address_check` | an address recovery, 2 changes | **violated**: the external check may be older than the change (finding 3) |
| `gateway_race` | 3 calls, a clock of 7, a cooldown of 2 | **violated**: overlapping calls restart twice (finding 2) |
| `drill_abort` | a regtest made anew once | **violated**: an abort may leave the original stopped (finding 4) |

**Why the bounds are enough.** Two runs give every interleaving of two
processes on the shared files, and a killed run starts again with nothing in
memory, so one model value stands for any number of processes one after the
other. Two requests are what a violation needs: one that is undecided and one
that should not have been allowed. Two peers make the plan of an approval go
stale because of the *other* peer. The caps 1 and 2 are below and at what two
channels need. An old journal (with a sub-minimum request LND refused) is one
of the initial states, for either request. In `RouterClosing` the second
channel is there so that one run's rewriting of the whole file can undo what
another wrote about the other channel. `MaxRoute`, `MaxMoves`, `MaxFee`,
`MaxTime` bound counters the code does not bound; one change is enough to make
an approved value stale. In `loop_budget` a budget of 3 with reservations of 2
admits a second swap only if the first cost at most 1, and costs run up to 3.
In `peers` the passes follow one
another: the lock excludes two at a time for any number of them, by
`LockInv` of the proof. Two peers are needed because each write of one peer's
attempt also writes what the pass decided about the other; two approvals let
the operator approve a peer again while a pass has read the file.
The gateway's clock starts one cooldown after the epoch and runs for one and a
half more, so that a restart may be followed by a legal one, and that by an
illegal one. Symmetry is used only
where no liveness is checked.
In `host` the VM has two configurations, so that an approval may be of the one
that is no longer there, and a budget of three as in the code. The monitor's
times 15, 30, 120, 180 and 10 seconds become 1, 2, 2, 4 and 1 units: what counts is
`FreshMax + Threshold <= ProbeTimeout`, the assumption under which a hung probe
is reported before it is killed. Evidence has three changes of the world and a
clock of 3, where a request lives for 2: enough to expire one and to issue a
new one after a change. Two channels with two peers, one of them ours, and
balances around what the test payment needs (12 sat outgoing is enough without the cushion and not with it) reach every code of `assess` and
every blocker but the fee limit, which the target policy never meets. The diagnosis takes ages and counts below, at and above its thresholds.
`MaxDetours == 1` allows the hand-over one kill, edit, deployment or change of
LND; with 2 the run still passes (211 K states for that machine alone). The
drill needs no bound but the number of wallets, of which the second is the one
that a deployment makes after a reset; stops and deployments are not counted.

`CHECK_DEADLOCK FALSE` stands in `gateway_race` and `host`, where every call is
made once and the gateway stops when all are answered and the clock has run
out, where the bounded clock of the evidence runs out and a completed hand-over
has nothing left to do; in `address_check` for the same clock; and in
`drill_abort`, where scripts may refuse for good.

**Fairness.** A run takes its next step or ends (weak fairness): every RPC,
SSH call and kubectl call has a timeout, and a prompt is answered or
abandoned. The operator keeps looking (`router-channel --reconcile`,
`router-close --status`, `router-proof --resume`) and his look is not
overtaken for ever nor cut short at the same point every time (strong
fairness on taking the lock and on the steps of reconcile). Nothing is assumed
of LND, of peers or of time: the liveness properties are stated for channels
that stay open, closes that confirm and payments that settle.

For `peers`: the monitor probes again and again, a pass goes on or is killed
within the 180 s of its worker, though not at the same place every time, and a
`next_attempt_at` is reached in the end. Peers connect and disconnect as they
please: `AbsenceIsReviewed` speaks of those that stay away.

For the monitor: its loop comes back and time passes. Nothing is assumed of the
probe, and `OutageReported` speaks of outages that last and monitors that stay
alive, since a restart forgets how long an outage has lasted. For Flux: its
controllers reconcile again and again, and a person goes on with the next
command or commit of the runbook (`LeadsOn`); the detours owe nothing.

## 4. Theorems

Eight modules hold the theorems. Every invariant and every action property of
the passing runs is one of them: TLC shows it on the instance of the run, the
theorem for every value of the constants. Each proof names an inductive
invariant that TLC checked first; each action that can disturb a conjunct has a
lemma of its own.

### RouterChannels

In `RouterChannels_proofs`, for every `Procs`, `Requests`, `Peers`,
`Openers`, `PeerOf` and `Caps` that satisfy `ChannelsAssumption` (finite
requests and openers, natural caps).

| theorem | says |
|---|---|
| `TypeCorrect` | `Spec => []TypeOK` |
| `Invariance` | `Spec => []IInv` |
| `AtMostOneFunding` | `Spec => []OneFundingAtATime` |
| `VerdictsAreTrue` | `Spec => []VerdictHasEvidence` |
| `NothingSentUnrecorded` | `Spec => []SentIsAccountedFor` |
| `VerdictStays` | `Spec => VerdictIsFinal` |
| `CapHolds` | `Spec => []TotalCapHolds` |
| `Refinement` | `Spec => ImplementsSingleFlight` |

*The argument.* None of the properties is inductive: each speaks of the file
and of LND, but what happens next depends on the copy in the memory of the
process that holds the lock. `IInv` adds what is true of that copy.

- `LockInv`: a run holds the lock exactly at the program points between
  `Begin` and `Leave`; with `TypeOK` (at most one holder) two runs are never
  both inside.
- `Evidence(journal)`: the journal's verdict is supported by LND's state, and
  stays so, because what it rests on is stable (an opened channel was funded
  for ever).
- `CopyInv`: before a write the holder's record equals the journal; between
  the two writes it is a record with evidence, for the journal's own request
  or, from `Submit`, for one that was never sent, with the journal resolved.
  At `send` both files name the request and LND has not heard of it: this is
  what makes the openchannel the only one.
- `SentInv`: what was sent is archived, and a request other than the
  journal's is decided (or not yet sent). This gives `OneFundingAtATime`.

`BeginStep`, `ListStep`, `ClassifyStep`, `WriteJournalStep`, `WriteArchiveStep`,
`SubmitStep`, `SendStep`, `ReplyStep` and `LightningStep` keep it, over four
lemmas that say what a lock holder, a leaving run and the others keep
(`HolderStep`, `QuietStep`, `DropStep`, `VerdictStep`). `VerdictStays` follows
from `JournalWriter`: only the holder writes, and only over an unresolved
journal or with a new id.

`TotalCapHolds` compares LND with a total approved minutes before. `CapInv`
adds `Room`: from the submission to the openchannel there is room for one more
live channel under the total in the copy. It is won at the preview, because a
resolved journal leaves nothing in flight, so that the lists then show every
live channel (`PreviewCountsLive`), and kept because until then live channels
only become fewer.

### RouterClosing

In `RouterClosing_proofs`, for any number of runs and channels: `Typing`
(`TypeOK`), `AskedOnce` (`CloseAskedOnce`), `HasEvidence`
(`ClosedHasEvidence`), `Advance` (`RecordsAdvance`).

*The argument.* The lock again (`LockInv`), under which the holder's copy is the
file (`CopyInv`), so that rewriting the whole file loses nothing. A channel
`pending` showed between the two lists has begun to close and cannot go back;
that is why the second list may be read later. `AskedInv` and `SendInv`: a
channel without a record was never asked to close, and from the record on file
to the request it was not asked yet. `RecordsAdvance` compares the arms of
`Observed` one by one with the record they replace.

### RouterProofRun

In `RouterProofRun_proofs`, for any number of runs, requests, wallets and
replacements of the path (`ProofAssumption`): `Typing` (`TypeOK`),
`OneAtATime` (`OnePaymentAtATime`), `RealEvidence` (`EvidenceIsReal`),
`Refinement` (`ImplementsSingleFlight`).

*The argument.* The command lets the lock go between the answer and
`reconcile`; nothing it knew then may count afterwards. `Stage` says of each
point under the lock that the copy is the record, and how far its payment can
be: not sent before `send`, sent after it, settled before `proof`. The
endpoints are in no conjunct: safety does not depend on them, which is why
finding 1 is a loss of liveness only.

### LoopOps

In `LoopOps_proofs`, for any screens, approvals, finite set of quotes, and any
numbers for reservation, budget, fees and window (`LoopAssumption`).

| theorem | says |
|---|---|
| `Typing` | `Spec => []TypeOK` |
| `OnePerApproval` | `Spec => []OneSwapPerApproval` |
| `Disarmed` | `Spec => DisarmWins` |
| `Refinement` | `Spec => ImplementsSingleFlight` |
| `OneLiveSwap` | at most one swap may still take effect, and the journal's verdicts are loopd's |
| `BudgetHolds` | `Spec => BudgetAdmits` |

*The argument.* There is no lock. `SnapInv` stands for it: a copy whose
resourceVersion has not been overtaken is the ConfigMap, so a replace that
succeeds acts on what is there. `DocInv`: at most one record is open, and a
record that ended has its swap's end. `SeenInv`: what a screen was told of a
swap has happened, and of a swap that ended in the journal it was told the end;
so no write takes a verdict back. `PostInv`: one screen at most stands between
claim and post, in front of a swap never sent. `OneSwapPerApproval` is
inductive beside these.

*The budget.* `BudgetAdmits` compares two sums made from two sources at
different times: what the journal charges (`Used`) and what swaps cost as the
screen was told (`Exposure`). `CostInv` orders what is known of a swap: the
journal's cost is at most what a screen with a current copy was told, which is
at most the real one; and whoever has the whole cost has a time no earlier than
the last cost, which keeps it inside the 24 hours. What is settled has failed
and is not open, hence costs no more. So on a current copy every swap of the
exposure is charged, with as much or more (`CostIsCharged`). The rest is
arithmetic of finite sums: `MapThenSumSet` is unfolded into its recursive
function (`UsedIs`, `ExposureIs`), which exists and is natural (`SumExists`,
`SumIsNat`), does not depend on the order (`SumWith`) and grows with the set and
its terms (`SumGrows`). These are inductions over finite sets, done without an
induction theorem: of the counterexamples, one has no other inside it
(`SmallestSubset`, from the well-foundedness of strict inclusion).

### The three refinements

`ImplementsSingleFlight` is proved for the opener, the proof payment and Loop in
the same shape. First what the abstract state does not see (`Stutter`: equal
ledger, equal fate); then one lemma per abstract action: the write of a new
record is `Intend` (`NewJournalIntends`, `SavePayingIntends`, `ClaimIntends`),
the RPC is `Send`, the other side's decision `Settle`, the write of a verdict
`Learn` (`OldJournalLearns`, `TrackLearns`, `ReconcileLearns`); every other
action stutters. `Intend` needs that nothing else is open and `Send` that
nothing was sent, which is where each protocol's invariant comes in. In
`RouterChannels` a second write to the archive stutters because the ledger reads
the archive only of requests the journal no longer names.

### RouterPeers

In `RouterPeers_proofs`, for every set of passes, natural peers, addresses and
number of approvals (`PeersAssumption`).

| theorem | says |
|---|---|
| `TypeCorrect` | `Spec => []TypeOK` |
| `BudgetHolds` | `Spec => []ConnectBudget` |
| `AddressHolds` | `Spec => []ApprovedAddressOnly` |

*The argument.* `ConnectBudget` counts what LND was sent; the code counts in a
file, and a pass holds a third count in memory. `IInv` ties the three together.

- `Covered`: the requests sent since the last connection or approval are at
  most the attempts on file, and a connected peer was sent none.
- `Copy`: a pass knows the addresses on file, and its count of a peer is the
  file's, or zero for a peer that was not asked since it was connected. The
  second case is why the pass may write the count of every peer along with
  that of one: giving a budget back loses nothing. From `Attempt` to `Reply`
  the two counts of the current peer agree, and at `send` the file is ahead of
  the requests: this is the attempt persisted before the connect.
- `LockInv`: a pass runs exactly while it holds the lock, so that nobody else
  changes the file under its copy.

One lemma per action keeps the three conjuncts (`ApproveStep`, `BeginStep`,
`ConnectedStep`, `SkipStep`, `AttemptStep`, `SendStep`, `ReplyStep`,
`LeaveStep`, `OutsideStep`); `OwnCopy` says that a step of the holder concerns
its own copy only.

### RouterVM, RouterMonitor, RouterEvidence

In `RouterHost_proofs`: for any set of configurations (`ConfigsAssumption`), for
every choice of timeouts and outages that satisfies `MonitorAssumption`, and for
any number of changes of the world, lifetime of a request and clock.

| theorem | says |
|---|---|
| `VMTypeCorrect` | `VMSpec => []VMTypeOK` |
| `BudgetHolds` | `VMSpec => []StartBudget` |
| `DelaysHold` | `VMSpec => StartsSpaced` |
| `MonitorTypeCorrect` | `MonitorSpec => []MonitorTypeOK` |
| `ReadyHolds` | `MonitorSpec => []ReadyIsRecent` |
| `RebootIsProved` | `EvidenceSpec => []RebootIsReal` |
| `AddressIsProved` | `EvidenceSpec => []AddressCheckIsNew` |

*VM start.* The delay is kept in a file as the time left, and a kill leaves
it as it was. `Spaced` ties it to what really passed: the time since the last
start (or its end) and the time left on file make up at least the delay of the
attempt on file. Time moves one unit from the second to the first; a client
that ends begins both anew. While a spawn is about to happen the next delay is
on file whole and the one before has passed (`RecordStep`), which is
`StartsSpaced`. `OnFile` keeps an approval, which resets the file, out of the
steps that need an attempt on it: they hold the lock.

*Monitor.* `Chain`: whoever holds the code "ready" (the probe, the
observations in memory, the file) holds a stamp at least as old as the node's
last readiness. The probe is stamped before it reads; `AcceptType`,
`FreshnessType` and `SavedType` show that the loop hands code and stamp on
together; time ages all of them alike (`OlderAges`).

*Evidence.* A record is two captures, each of an earlier moment, and the
properties speak of what happened between them and since. `Behind` ties a
capture to the world of now: what the code compares only grows, each growth is a
recorded change, and an address that differs has changed since. `Between` is the
same of the two captures of one record; it is established when the second is
taken, from `Behind` of the first. `BootInv`: a boot is known by its time, so
that the boot a capture names is a recorded change. `TaskInv` lets what a task
read of wallet and channels be older than its capture, since the world moves
between the two.

### RouterReadiness and PaidScanDiagnosis

In `Verdicts_proofs`, for any channels, peers and balances
(`ReadinessAssumption`, `UnknownAssumption`: an unread policy is not one the
node has), with the amounts of the module; and for any values of the
diagnosis's parts that satisfy `DiagnosisAssumption` (Python's `None` is not one
of the strings).

| theorem | says |
|---|---|
| `CapacityIsConservative` | an amount within `DirectionalCapacity` `Fits` whatever up to `CommitFee` must be spared; an amount beyond it does not with `CommitFee` spared, the tool's own bound |
| `RoutesAreConservative` | each of `Routes` `CanForward` whatever up to `CommitFee` must be spared; each pair that can with `CommitFee` spared is one of them |
| `ChansTyped` | the channels keep the type both rest on, in every state of `ReadinessSpec` |
| `Assessment` | `ReadinessSpec => []AssessIsRight` |
| `Diagnosis` | `DiagnosisSpec => []DiagnosisIsRight` |

*The argument.* A chain of early returns is a list of conditions of which the
first that holds counts, by a `CHOOSE` of the least index. `FirstBranch` turns
that into what a proof can use: its condition holds and none before it does.
`ReturnsHold` and `StagesHold` spell the conditions out, `OneReturn` and
`StageNames` say which branches carry a name. What is left is what each
name needs: "ready" means that every earlier condition is false, which leaves
a route, of which `RoutesAreConservative` says what it can carry; `PeersCount` and `TooFewIs` relate a
number of peers to there being two different ones; `Contradictions` shows that
contradicting records are the first branch.

### FluxHandover, RegtestDrill, RunbookGateway

In `Cluster_proofs`: for any number of detours (`FluxAssumption`), any number of
wallets (`DrillAssumption`), any calls and any cooldown (`GatewayAssumption`).

| theorem | says |
|---|---|
| `HandoverHolds` | `FluxSpec => []HandoverSafe` |
| `DrillHolds` | `DrillSpec => []OneLiveCopy` |
| `CooldownInTurn` | `GatewaySpec => []CooldownHoldsInTurn` |
| `RestartsAudited` | `Cooldown # 0 => (GatewaySpec => []RestartsAreAudited)` |

*Hand-over.* The mark is set on the cluster while the release is released in
Git, and reaches Flux two copies later. `MarkInv` says of each copy (tree,
pushed, fetched, applied) that if it holds an unsuspended release, the
namespace is marked; `AdoptStep` sets the mark first. `FileInv` says that what
was committed is still in the working tree, so that export knows of the
take-over and never replaces the baseline of an accepted one. `OrderInv` needs
that a stage is recorded on a fetched commit, and that fetched commits only
grow.

*Drill.* `RaisedInv`: while the copy has a StatefulSet or a Pod, the
original is labelled, scaled to zero and without a Pod, unless the label is
younger than the guard of a running deployment. `PrepareInv` says what each
command of prepare has established for the next, `PutAwayInv` that the label
goes, and the original starts or is deleted, only after the copy's namespace
has gone, and `GuardInv` that such a deployment is remembered.

*Gateway.* `AccountInv` holds of any calls, overlapping or failing: each rollout
has a call, known by its clock reading, that has its Event, is unanswered or
failed. The rest is about calls in turn (`undisturbed`), and so is its
invariant: `EpochInv` says that the epoch is the latest restart but for the one
being recorded, so that a call that decides compares with all of them;
`AuditInv` that there are as many restarts as Events, but for the call that
still owes one. With a cooldown of 0 the number of Events is another, and the proof fails
where it should: two restarts in one second write the same annotation, which is
one rollout with two Events. `charts/agent/values.yaml` sets 300 s.

### What the proofs changed in the models

- The arms of `Observed` in `RouterClosing` overlapped; a `CASE` then chooses
  any of them, in TLA+, and TLC the first. They are now exclusive, as the
  `if`/`elif` of the code is.
- `LoopAssumption` did not say that the quotes are finitely many (without it a
  sum is nothing), `ReadinessAssumption` not that `Unknown` is no policy,
  `DiagnosisAssumption` not that `Absent` is none of the outcomes.

### What is only model-checked

All liveness properties: `OpenChannelIsRecorded`, `CloseIsRecorded`,
`ResumeDecides`, `AbsenceIsReviewed`, `MonitorReports`, `HandoverEnds`
(liveness under fairness, and ENABLED, are beyond the prover). The four
violations are TLC's as well.

## 5. Findings

1. **A refused second run of `router-proof` loses the first payment**
   (`src/ops/router-proof:52`, run `proof_lost`). The command writes
   `proof-endpoints.json` before `start` takes the lock and refuses because a
   payment is pending. Two prompts open at once are enough: the first pays and
   loses the answer, the second is refused but has already replaced the
   wallets; every later resume fails the wallet check and the record blocks
   new payments. `ResumeDecides` shows that this is the only way: with its
   endpoints and path in place, a settled payment is reconciled.
2. **Overlapping gateway calls bypass the cooldown**
   (`src/agent/runbook_gateway.py:241`, run `gateway_race`). The epoch is read,
   the Deployment patched and the epoch written with nothing held, on one
   thread per request. `CooldownHoldsInTurn` shows that calls in turn are
   safe.

3. **The external check may be older than the change of address it proves**
   (`src/ops/router_address_recovery.py:54`, run `address_check`).
   `docs/router-host-recovery.md:73-75` asks for the preserved node "followed
   by a fresh successful external observation", and
   `src/ops/router-address-recovery:21` reports that the external connection was
   checked after the change. The code compares the request's time with the
   baseline's only: baseline, request, check, import, and only then the guest
   address changes; verify passes while nobody has connected to the new
   address. `AddressCheckIsNew` shows what does hold: the check is of this
   wallet and endpoint and was made after the baseline.

4. **An abort may leave the original stopped**
   (`src/ops/abort-regtest-recovery:31`, run `drill_abort`). prepare labels the
   original and scales it to zero, then waits up to three minutes for its Pod,
   and only then installs the copy. If it stops in between, abort passes its
   checks and ends at its first command, `kubectl scale` of a StatefulSet that
   was never created, every time it is run; finish fails its verification,
   prepare refuses because the namespace exists, `ops/deploy` because of the
   label. `docs/regtest-runbook.md:132-133` says that abort deletes the
   recovery namespace and resumes the original. `OneLiveCopy` shows that
   nothing worse than that happens.

Four limits of the code were met and are stated in the properties rather than
reported, because the code documents them or has no remedy: a peer that opens
a channel itself between preview and openchannel can exceed the approved
total; a channel that opened and closed before anybody looked stays uncertain;
a refused close stays uncertain; a claimed swap that loopd never shows blocks
the next until a person decides.

The hand-over has three states that neither adopt nor accept nor
`export-lnd --refresh` takes further, and `HandoverEnds` excludes them by name
(`disturbed`): LND's wallet, storage or channels change after adopt; values
edited, or deployed by the other terminal, between adopt and its commit, which
`docs/flux-gitops-transition.md:8` forbids in words and the commands do not; and
a kill between `lnd.json` and the kustomization that lists it
(`flux_ops.py:436`), after which export finds the file there and `--refresh` no
HelmRelease.

The drill has more states that its scripts do not lead out of, and says so when
they refuse: killed before the label, the recovery namespace is there and
prepare and abort both refuse, while the original runs on; killed after the
namespace has gone and before the label has, abort refuses "to infer cleanup
state". And `ops/deploy` reads the label (43) long before it upgrades (129): a
deployment that began before prepare set the label starts the original next to
the copy. `OneLiveCopy` excludes that one way by name (`stale`); the runbook
forbids it (`docs/regtest-runbook.md:113`), and verify refuses afterwards.

Two observations on the monitor and the readiness check are not properties of
any run. An outage whose code keeps changing never lasts 120 s under one code
and is not alerted, as `docs/router-always-on-plan.md:264-267` says it should
not be; `OutageReported` speaks of one outage that stays. And `verify-router:38-40`
reads `listchannels` before `pendingchannels`: a channel that confirms in
between is in neither list, so that one probe may ask for a channel that is
there. `RouterReadiness` takes one snapshot for one moment and does not show it.

Two differences from `docs/router-always-on-plan.md:249-250` are matters of
seconds, which `RouterPeers` does not count, and no run refutes them: a backoff
counts from the start of the pass (`router_peers.py:73`), not from the failure,
so that a slow pass shortens it; and a third request that fails asks for review
at once, not 40 s later (`router_peers.py:80`).

## 6. Assumptions and what is left out

- `flock` belongs to the process and goes with it; `os.replace` of one file is
  atomic; Kubernetes refuses a replace with an old resourceVersion.
- An operator attests only the rejection he really saw. The code cannot check
  it; a wrong attestation would let a second request through.
- The several RPCs of one preview are one step, and amounts, fee rates,
  reserves, UTXOs and wallet identity appear only as the freedom to refuse.
- Request ids and quote labels are drawn once (`uuid4`).
- File ownership, permissions, JSON parsing, prompts and wording are left out.
- Swaps started outside the tool are left out; the runbook excludes them.
- A check from outside succeeds only against the node it asks for; its request
  is unique by its time. Clocks agree, as the runbook demands.
- `verify-router`'s reads see one moment; texts, counters and ids on screens are
  left out. Of `flux_ops`, what only refuses for good (another cluster, no
  backup, a changed chart) and the commands before and after the hand-over.
- The drill's scripts are run one at a time, by one person; in the drill,
  backups, the peer and the channel appear as the freedom to refuse, and a Helm
  upgrade restores the replicas that a scale had changed.
- Not modelled: shell menus, deployment, collectors, charts, the rehearsal lab
  (I/O in a fixed order, no state of their own), and the parts planned below.

## 7. Plan

1. *Channel backups*: encrypt, verify and rename, against a stop and a channel
   that opens meanwhile.
2. *Readiness in two reads*: `verify-router` with the channels moving between
   its calls, feeding the monitor.
3. *Proofs*: the safe half of the liveness properties, which TLAPS can reach: a
   verdict that is due stays due until a look records it (`OpenChannelIsRecorded`,
   `CloseIsRecorded`, `ResumeDecides`), and an absent peer's attempts only grow
   (`AbsenceIsReviewed`). What `funding_progress` asks for, against the routes
   that exist. The readings of item 2 against the theorems of
   `RouterReadiness`, which speak of one moment.
