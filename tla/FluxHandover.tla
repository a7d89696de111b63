------------------------------ MODULE FluxHandover ------------------------------
(***************************************************************************)
(* Handing the testnet Helm release to Flux: ops/flux_ops.py, run by a     *)
(* person step by step, with Git commits in between, while Flux fetches,   *)
(* applies and reconciles on its own and ops/deploy may run in another     *)
(* terminal.  A command may be killed between its writes.                  *)
(*                                                                         *)
(* Abstractions.  prepare, install and connect are done.  A commit is its  *)
(* number; what it contains of gitops/clusters/<host> is the probe's       *)
(* values, lnd.json and whether kustomization.json lists it.  Helm values  *)
(* are a version, as are LND's storage and identity, and its channels.     *)
(* What only refuses and never changes is left out: the cluster's UID,     *)
(* the backup evidence, the chart comparison, credentials in values, the   *)
(* policy fields of the HelmRelease.                                       *)
(***************************************************************************)
EXTENDS Naturals

CONSTANTS
  MaxDetours,  \* bound: kills, deployments, edits and changes of LND
  Nothing

ASSUME FluxAssumption ==
  MaxDetours \in Nat /\ Nothing \notin [suspend : BOOLEAN, values : Nat]

ExerciseStages == {"baseline", "failure", "recovery"}
Before(stage) == IF stage = "failure" THEN "baseline" ELSE "failure"
NothingRecorded == [s \in ExerciseStages |-> 0]

VARIABLES
  tree,      \* the working tree: probe values, lnd.json, listed
  head,      \* the pushed commit: its number and contents
  source,    \* the commit source-controller fetched
  applied,   \* the commit whose HelmReleases kustomize-controller applied
  testRelease, \* commit and values last attempted, and its ConfigMap
  release,   \* the LND release: Helm revision, values, flux: the commit
             \* helm-controller last attempted (0: none)
  lnd,       \* storage and identity, and channels
  exercise, baseline, accepted,  \* the record ConfigMaps
  owner,     \* is namespace lnd-testnet annotated as Flux's?
  command,   \* what the running command has yet to write
  deploy,    \* ops/deploy, between its guard and its helm upgrade
  detours,   \* counter of MaxDetours
  disturbed  \* history: the hand-over was disturbed when nothing goes back

fxVars == <<tree, head, source, applied, testRelease, release, lnd, exercise, baseline,
            accepted, owner, command, deploy, detours, disturbed>>
fluxSide == <<source, applied, testRelease>>
records  == <<exercise, baseline, accepted>>

FluxInit ==
  /\ tree = [probe |-> "baseline", lnd |-> Nothing, listed |-> FALSE]
  /\ head = [rev |-> 1, tree |-> tree] /\ source = head /\ applied = head
  /\ testRelease = [rev |-> 0, values |-> Nothing, marker |-> Nothing]
  /\ release = [rev |-> 1, values |-> 0, flux |-> 0]
  /\ lnd = [wallet |-> 0, channels |-> 0]
  /\ exercise = NothingRecorded /\ baseline = Nothing /\ accepted = Nothing
  /\ owner = FALSE /\ command = "none" /\ deploy = "none"
  /\ detours = 0 /\ disturbed = FALSE

-----------------------------------------------------------------------------
(* What the commands require. *)

\* The LND HelmRelease in the cluster.
HelmRelease == IF applied.tree.listed THEN applied.tree.lnd ELSE Nothing

SourceState == applied.rev = source.rev

\* The newest attempt was made on the newest commit.
ProbeState(marker) ==
  /\ SourceState /\ testRelease.rev = source.rev
  /\ applied.tree.probe = marker /\ testRelease.values = marker
  /\ marker # "failure" => testRelease.marker = marker

RequireExercise ==
  /\ \A s \in ExerciseStages : exercise[s] # 0
  /\ \A s, t \in ExerciseStages : s # t => exercise[s] # exercise[t]
  /\ ProbeState("recovery")

RequirePublished == SourceState /\ source.rev = head.rev /\ head.tree = tree

Idle == command = "none"

\* The next stage not recorded yet.
NextStage ==
  IF exercise["baseline"] = 0 THEN "baseline"
  ELSE IF exercise["failure"] = 0 THEN "failure" ELSE "recovery"

\* A step that does not lead on.
Detour(disturbs) ==
  /\ detours < MaxDetours /\ detours' = detours + 1
  /\ disturbed' = (disturbed \/ disturbs)

Forward(leadsOn) ==
  IF leadsOn THEN UNCHANGED <<detours, disturbed>> ELSE Detour(FALSE)

-----------------------------------------------------------------------------
(* The commands. *)

StageProbe(stage) ==
  /\ Idle /\ tree.probe # stage
  /\ stage # "baseline" => exercise[Before(stage)] # 0
  /\ tree' = [tree EXCEPT !.probe = stage]
  /\ Forward(stage = NextStage)
  /\ UNCHANGED <<head, fluxSide, release, lnd, records, owner, command, deploy>>

\* record-probe: recording a stage again forgets the ones after it.
RecordProbe(stage) ==
  /\ Idle /\ ProbeState(stage)
  /\ stage # "baseline" =>
       exercise[Before(stage)] # 0 /\ exercise[Before(stage)] # source.rev
  /\ exercise' = [s \in ExerciseStages |->
       IF s = stage THEN source.rev
       ELSE IF stage = "baseline" \/ (stage = "failure" /\ s = "recovery") THEN 0
       ELSE exercise[s]]
  /\ Forward(stage = NextStage)
  /\ UNCHANGED <<tree, head, fluxSide, release, lnd, baseline, accepted, owner, command, deploy>>

\* export-lnd, or --refresh where the file exists: only before the take-over.
CanExport ==
  tree.lnd # Nothing =>
    /\ tree.lnd.suspend /\ HelmRelease # Nothing /\ HelmRelease.suspend
    /\ release.flux = 0 /\ ~owner

LndState == [rev |-> release.rev, values |-> release.values, lnd |-> lnd]

\* The record and the file agree with the release.
ReadyToAdopt ==
  /\ baseline = LndState /\ tree.lnd # Nothing
  /\ tree.lnd.values = release.values

Export ==
  /\ Idle /\ RequireExercise /\ RequirePublished /\ CanExport
  /\ baseline' = LndState
  /\ command' = "lnd.json"
  /\ Forward(~ReadyToAdopt)
  /\ UNCHANGED <<tree, head, fluxSide, release, lnd, exercise, accepted, owner, deploy>>

ExportWrites ==
  /\ \/ /\ command = "lnd.json" /\ command' = "kustomization.json"
        /\ tree' = [tree EXCEPT !.lnd = [suspend |-> TRUE, values |-> baseline.values]]
     \/ /\ command = "kustomization.json" /\ command' = "none"
        /\ tree' = [tree EXCEPT !.listed = TRUE]
  /\ UNCHANGED <<head, fluxSide, release, lnd, records, owner, deploy, detours, disturbed>>

\* Mutant: the mark is forgotten.
AdoptUnmarked ==
  /\ Idle /\ RequireExercise /\ RequirePublished
  /\ ReadyToAdopt
  /\ HelmRelease # Nothing /\ HelmRelease.suspend /\ HelmRelease.values = release.values
  /\ tree.lnd = HelmRelease
  /\ command' = "unsuspend"
  /\ UNCHANGED <<tree, head, fluxSide, release, lnd, records, owner, deploy, detours, disturbed>>

\* Mutant: a release that is marked already is not adopted again.
AdoptOnce ==
  /\ Idle /\ RequireExercise /\ RequirePublished
  /\ ReadyToAdopt /\ ~owner
  /\ HelmRelease # Nothing /\ HelmRelease.suspend /\ HelmRelease.values = release.values
  /\ tree.lnd = HelmRelease
  /\ owner' = TRUE /\ command' = "unsuspend"
  /\ UNCHANGED <<tree, head, fluxSide, release, lnd, records, deploy, detours, disturbed>>

\* adopt: the namespace is marked before the release may be reconciled.
Adopt ==
  /\ Idle /\ RequireExercise /\ RequirePublished
  /\ ReadyToAdopt
  /\ HelmRelease # Nothing /\ HelmRelease.suspend /\ HelmRelease.values = release.values
  /\ tree.lnd = HelmRelease
  /\ owner' = TRUE /\ command' = "unsuspend"
  /\ UNCHANGED <<tree, head, fluxSide, release, lnd, records, deploy, detours, disturbed>>

AdoptWrites ==
  /\ command = "unsuspend" /\ command' = "none"
  /\ tree' = [tree EXCEPT !.lnd.suspend = FALSE]
  /\ UNCHANGED <<head, fluxSide, release, lnd, records, owner, deploy, detours, disturbed>>

\* verify --initial, and the record it saves.
AcceptHandover ==
  /\ Idle /\ RequireExercise
  /\ HelmRelease # Nothing /\ ~HelmRelease.suspend
  /\ release.flux = source.rev
  /\ baseline # Nothing /\ baseline.lnd = lnd
  /\ HelmRelease.values = release.values /\ owner
  /\ accepted' = baseline
  /\ UNCHANGED <<tree, head, fluxSide, release, lnd, exercise, baseline, owner, command, deploy, detours, disturbed>>

\* A person commits and pushes what the commands wrote.
Push ==
  /\ tree # head.tree
  /\ head' = [rev |-> head.rev + 1, tree |-> tree]
  /\ UNCHANGED <<tree, fluxSide, release, lnd, records, owner, command, deploy, detours, disturbed>>

-----------------------------------------------------------------------------
(* Flux. *)

Fetches ==
  /\ source # head /\ source' = head
  /\ UNCHANGED <<tree, head, applied, testRelease, release, lnd, records, owner, command, deploy, detours, disturbed>>

Applies ==
  /\ applied # source /\ applied' = source
  /\ UNCHANGED <<tree, head, source, testRelease, release, lnd, records, owner, command, deploy, detours, disturbed>>

\* The chart of the "failure" values does not render.
AttemptsProbe ==
  /\ testRelease.rev # source.rev \/ testRelease.values # applied.tree.probe
  /\ testRelease' = [rev |-> source.rev, values |-> applied.tree.probe,
                     marker |-> IF applied.tree.probe = "failure" THEN testRelease.marker
                                ELSE applied.tree.probe]
  /\ UNCHANGED <<tree, head, source, applied, release, lnd, records, owner, command, deploy, detours, disturbed>>

AttemptsLnd ==
  /\ HelmRelease # Nothing /\ ~HelmRelease.suspend
  /\ release.flux # source.rev \/ release.values # HelmRelease.values
  /\ release' = [rev |-> release.rev + 1, values |-> HelmRelease.values, flux |-> source.rev]
  /\ UNCHANGED <<tree, head, fluxSide, lnd, records, owner, command, deploy, detours, disturbed>>

-----------------------------------------------------------------------------
(* Detours. *)

\* Neither adopt nor export-lnd --refresh takes it from here.
Committed == owner /\ accepted = Nothing
HalfAdopted == owner /\ tree.lnd.suspend

Killed ==
  /\ command # "none" /\ command' = "none"
  /\ Detour(command = "kustomization.json" /\ ~tree.listed)
  /\ UNCHANGED <<tree, head, fluxSide, release, lnd, records, owner, deploy>>

LndChanges ==
  /\ \E part \in {"wallet", "channels"} : lnd' = [lnd EXCEPT ![part] = @ + 1]
  /\ Detour(Committed)
  /\ UNCHANGED <<tree, head, fluxSide, release, records, owner, command, deploy>>

\* edit-values asks for lnd.json only.
EditValues ==
  /\ Idle /\ tree.lnd # Nothing
  /\ tree' = [tree EXCEPT !.lnd.values = @ + 1]
  /\ Detour(HalfAdopted)
  /\ UNCHANGED <<head, fluxSide, release, lnd, records, owner, command, deploy>>

\* guard: no mark, and no HelmRelease, suspended or not.
DeployGuard ==
  /\ deploy = "none" /\ ~owner /\ HelmRelease = Nothing
  /\ deploy' = "guarded"
  /\ Detour(FALSE)
  /\ UNCHANGED <<tree, head, fluxSide, release, lnd, records, owner, command>>

DeployUpgrades ==
  /\ deploy = "guarded" /\ deploy' = "none"
  /\ release' = [release EXCEPT !.rev = @ + 1, !.values = @ + 1]
  /\ disturbed' = (disturbed \/ HalfAdopted)
  /\ UNCHANGED <<tree, head, fluxSide, lnd, records, owner, command, detours>>

FluxNext ==
  \/ \E s \in ExerciseStages : StageProbe(s) \/ RecordProbe(s)
  \/ Export \/ ExportWrites \/ Adopt \/ AdoptWrites \/ AcceptHandover \/ Push
  \/ Fetches \/ Applies \/ AttemptsProbe \/ AttemptsLnd
  \/ Killed \/ LndChanges \/ EditValues \/ DeployGuard \/ DeployUpgrades

\* A person who follows the runbook, and Flux's reconcilers.
LeadsOn ==
  \/ StageProbe(NextStage) \/ RecordProbe(NextStage)
  \/ ~ReadyToAdopt /\ Export
  \/ ExportWrites \/ Adopt \/ AdoptWrites \/ AcceptHandover \/ Push

FluxFairness ==
  /\ WF_fxVars(LeadsOn)
  /\ WF_fxVars(Fetches) /\ WF_fxVars(Applies)
  /\ WF_fxVars(AttemptsProbe) /\ WF_fxVars(AttemptsLnd)

FluxSpec == FluxInit /\ [][FluxNext]_fxVars /\ FluxFairness

-----------------------------------------------------------------------------
(* Properties. *)

\* Flux reconciles the LND release only under the mark that blocks direct
\* deployments, the three stages were recorded on commits in this order, and
\* an acceptance is always of the baseline still on record (verify compares
\* their digests), whatever commands are killed or repeated in between.
HandoverSafe ==
  /\ release.flux # 0 => owner
  /\ accepted # Nothing => accepted = baseline /\ release.flux # 0
  /\ exercise["failure"] # 0 =>
       0 < exercise["baseline"] /\ exercise["baseline"] < exercise["failure"]
  /\ exercise["recovery"] # 0 =>
       0 < exercise["failure"] /\ exercise["failure"] < exercise["recovery"]

\* A person who goes on with the runbook completes the hand-over, whatever
\* was killed, repeated, edited or deployed in between, except where a
\* disturbance leaves a state that adopt, accept and --refresh all refuse.
AdoptionCompletes == <>(accepted # Nothing \/ disturbed)

=============================================================================
