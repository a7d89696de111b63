--------------------------- MODULE Cluster_proofs ---------------------------
(***************************************************************************)
(* Proofs about the operations on the Kubernetes cluster: the hand-over to *)
(* Flux (FluxHandover), the recovery drill (RegtestDrill) and the restarts *)
(* an agent may ask for (RunbookGateway), for any number of kills,         *)
(* commands, deployments, drills and calls.                                *)
(***************************************************************************)
EXTENDS FluxHandover, RegtestDrill, RunbookGateway, FiniteSetTheorems, TLAPS

-----------------------------------------------------------------------------
(* FluxHandover: the chart of lnd.                                         *)

LndFile == [suspend : BOOLEAN, values : Nat]
Tree    == [probe : ExerciseStages, lnd : LndFile \cup {Nothing}, listed : BOOLEAN]
Commit  == [rev : Nat \ {0}, tree : Tree]

FluxTypeInv ==
  /\ tree \in Tree /\ head \in Commit /\ source \in Commit /\ applied \in Commit
  /\ release \in [rev : Nat, values : Nat, flux : Nat]
  /\ exercise \in [ExerciseStages -> Nat]
  /\ owner \in BOOLEAN
  /\ command = "lnd.json" => baseline.values \in Nat

(* A release that may be reconciled is marked, wherever its file has got   *)
(* to; adopt sets the mark before the file changes.                        *)
Marked(t) == t.lnd # Nothing /\ ~t.lnd.suspend => owner
MarkInv ==
  /\ Marked(tree) /\ Marked(head.tree) /\ Marked(source.tree) /\ Marked(applied.tree)
  /\ command = "unsuspend" => owner /\ tree.lnd # Nothing
  /\ release.flux # 0 => owner

(* A file that was committed is in the working tree, so that export knows  *)
(* of the take-over.                                                       *)
FileInv ==
  /\ \A t \in {head.tree, source.tree, applied.tree} : t.lnd # Nothing => tree.lnd # Nothing
  /\ release.flux # 0 => tree.lnd # Nothing

AcceptInv == accepted # Nothing => accepted = baseline /\ release.flux # 0

(* Stages are recorded on commits that were fetched, one after the other.  *)
OrderInv ==
  /\ source.rev <= head.rev
  /\ \A s \in ExerciseStages : exercise[s] <= source.rev
  /\ exercise["failure"] # 0 =>
       0 < exercise["baseline"] /\ exercise["baseline"] < exercise["failure"]
  /\ exercise["recovery"] # 0 =>
       0 < exercise["failure"] /\ exercise["failure"] < exercise["recovery"]

FluxIInv == FluxTypeInv /\ MarkInv /\ FileInv /\ AcceptInv /\ OrderInv

(* The first state: nothing is exported, recorded or marked.               *)
LEMMA FluxInitInv == FluxInit => FluxIInv
<1> SUFFICES ASSUME FluxInit PROVE FluxIInv
  OBVIOUS
<1>1. tree \in Tree /\ tree.lnd = Nothing
  BY DEF FluxInit, Tree, ExerciseStages
<1>2. head = [rev |-> 1, tree |-> tree] /\ source = head /\ applied = head
  BY DEF FluxInit
<1>3. head \in Commit /\ head.tree = tree /\ head.rev = 1
  BY <1>1, <1>2 DEF Commit
<1>4. exercise \in [ExerciseStages -> Nat] /\ \A s \in ExerciseStages : exercise[s] = 0
  BY DEF FluxInit, NothingRecorded
<1>5. FluxTypeInv
  BY <1>1, <1>2, <1>3, <1>4 DEF FluxInit, FluxTypeInv
<1>6. MarkInv /\ FileInv /\ AcceptInv
  BY <1>1, <1>2, <1>3 DEF FluxInit, MarkInv, Marked, FileInv, AcceptInv
<1>7. OrderInv
  BY <1>2, <1>3, <1>4 DEF OrderInv, ExerciseStages
<1>8. QED  BY <1>5, <1>6, <1>7 DEF FluxIInv

-----------------------------------------------------------------------------
(* The commands.                                                           *)

(* What the invariant reads, where a step leaves most of it alone.         *)
kept == <<head, source, applied, owner, release>>

(* stage-probe changes the probe's values only.                            *)
LEMMA StageStep ==
  ASSUME FluxIInv, NEW s \in ExerciseStages, StageProbe(s)
  PROVE  FluxIInv'
<1>1. tree' = [tree EXCEPT !.probe = s] /\ UNCHANGED <<kept, exercise, baseline, accepted, command>>
  BY DEF StageProbe, fluxSide, records, kept
<1>2. tree' \in Tree /\ tree'.lnd = tree.lnd
  BY <1>1 DEF FluxIInv, FluxTypeInv, Tree
<1>3. QED
  BY <1>1, <1>2 DEF kept, FluxIInv, FluxTypeInv, MarkInv, Marked, FileInv, AcceptInv, OrderInv

(* Recording a stage keeps the order: later stages are forgotten, and the  *)
(* stage before it is on an older commit.                                  *)
LEMMA RecordStep ==
  ASSUME FluxIInv, NEW s \in ExerciseStages, RecordProbe(s)
  PROVE  FluxIInv'
<1>1. /\ exercise' = [t \in ExerciseStages |->
           IF t = s THEN source.rev
           ELSE IF s = "baseline" \/ (s = "failure" /\ t = "recovery") THEN 0
           ELSE exercise[t]]
      /\ s # "baseline" => exercise[Before(s)] # 0 /\ exercise[Before(s)] # source.rev
      /\ UNCHANGED <<kept, tree, baseline, accepted, command>>
  BY DEF RecordProbe, fluxSide, kept
<1>2. source.rev \in Nat \ {0} /\ source.rev <= head.rev /\ exercise \in [ExerciseStages -> Nat]
      /\ \A t \in ExerciseStages : exercise[t] \in Nat /\ exercise[t] <= source.rev
  BY DEF FluxIInv, FluxTypeInv, OrderInv, Commit
<1>3. exercise' \in [ExerciseStages -> Nat]
  BY <1>1, <1>2
<1>4. \A t \in ExerciseStages : exercise'[t] <= source.rev
  BY <1>1, <1>2
<1>5. (OrderInv)'
  <2>1. CASE s = "baseline"
    BY <1>1, <1>2, <1>4, <2>1 DEF kept, OrderInv, ExerciseStages
  <2>2. CASE s = "failure"
    BY <1>1, <1>2, <1>4, <2>2 DEF kept, OrderInv, ExerciseStages, Before
  <2>3. CASE s = "recovery"
    BY <1>1, <1>2, <1>4, <2>3 DEF kept, FluxIInv, OrderInv, ExerciseStages, Before
  <2>4. QED  BY <2>1, <2>2, <2>3 DEF ExerciseStages
<1>6. QED
  BY <1>1, <1>3, <1>5 DEF kept, FluxIInv, FluxTypeInv, MarkInv, Marked, FileInv, AcceptInv

(* export-lnd never replaces the baseline of a release that was taken over. *)
LEMMA ExportStep == ASSUME FluxIInv, Export PROVE FluxIInv'
<1>1. /\ CanExport /\ baseline' = LndState /\ command' = "lnd.json"
      /\ UNCHANGED <<kept, tree, exercise, accepted>>
  BY DEF Export, fluxSide, kept
<1>2. accepted = Nothing
  BY <1>1 DEF CanExport, FluxIInv, AcceptInv, FileInv
<1>3. baseline'.values \in Nat
  BY <1>1 DEF LndState, FluxIInv, FluxTypeInv
<1>4. QED
  BY <1>1, <1>2, <1>3 DEF kept, FluxIInv, FluxTypeInv, MarkInv, Marked, FileInv, AcceptInv, OrderInv

(* What export writes is suspended.                                        *)
LEMMA ExportWritesStep == ASSUME FluxIInv, ExportWrites PROVE FluxIInv'
<1>1. UNCHANGED <<kept, exercise, baseline, accepted>>
  BY DEF ExportWrites, fluxSide, records, kept
<1>2. CASE command = "lnd.json"
  <2>1. command' = "kustomization.json"
        /\ tree' = [tree EXCEPT !.lnd = [suspend |-> TRUE, values |-> baseline.values]]
    BY <1>2 DEF ExportWrites
  <2>2. [suspend |-> TRUE, values |-> baseline.values] \in LndFile
    BY <1>2 DEF FluxIInv, FluxTypeInv, LndFile
  <2>3. tree' \in Tree /\ tree'.lnd.suspend /\ tree'.lnd # Nothing
    BY <2>1, <2>2, FluxAssumption DEF FluxIInv, FluxTypeInv, Tree, LndFile
  <2>4. QED
    BY <1>1, <2>1, <2>3 DEF kept, FluxIInv, FluxTypeInv, MarkInv, Marked, FileInv, AcceptInv, OrderInv
<1>3. CASE command = "kustomization.json"
  <2>1. command' = "none" /\ tree' = [tree EXCEPT !.listed = TRUE]
    BY <1>3 DEF ExportWrites
  <2>2. tree' \in Tree /\ tree'.lnd = tree.lnd
    BY <2>1 DEF FluxIInv, FluxTypeInv, Tree
  <2>3. QED
    BY <1>1, <2>1, <2>2 DEF kept, FluxIInv, FluxTypeInv, MarkInv, Marked, FileInv, AcceptInv, OrderInv
<1>4. QED  BY <1>2, <1>3 DEF ExportWrites

(* The mark comes first.                                                   *)
LEMMA AdoptStep == ASSUME FluxIInv, Adopt PROVE FluxIInv'
<1>1. /\ owner' = TRUE /\ command' = "unsuspend" /\ tree.lnd # Nothing
      /\ UNCHANGED <<head, source, applied, release, tree, exercise, baseline, accepted>>
  BY DEF Adopt, ReadyToAdopt, fluxSide, records
<1>2. QED  BY <1>1 DEF FluxIInv, FluxTypeInv, MarkInv, Marked, FileInv, AcceptInv, OrderInv

(* The file is released under the mark that adopt set.                     *)
LEMMA AdoptWritesStep == ASSUME FluxIInv, AdoptWrites PROVE FluxIInv'
<1>1. /\ command = "unsuspend" /\ command' = "none"
      /\ tree' = [tree EXCEPT !.lnd.suspend = FALSE]
      /\ UNCHANGED <<kept, exercise, baseline, accepted>>
  BY DEF AdoptWrites, fluxSide, records, kept
<1>2. owner /\ tree.lnd \in LndFile
  BY <1>1 DEF FluxIInv, FluxTypeInv, MarkInv, Tree
<1>3. tree' = [tree EXCEPT !.lnd = [tree.lnd EXCEPT !.suspend = FALSE]]
  BY <1>1
<1>4. [tree.lnd EXCEPT !.suspend = FALSE] \in LndFile
  BY <1>2 DEF LndFile
<1>5. tree' \in Tree /\ tree'.lnd # Nothing
  BY <1>3, <1>4, FluxAssumption DEF FluxIInv, FluxTypeInv, Tree, LndFile
<1>6. QED
  BY <1>1, <1>2, <1>5 DEF kept, FluxIInv, FluxTypeInv, MarkInv, Marked, FileInv, AcceptInv, OrderInv

(* What is accepted is the baseline on record, of a reconciled release.    *)
LEMMA AcceptStep == ASSUME FluxIInv, AcceptHandover PROVE FluxIInv'
<1>1. /\ release.flux = source.rev /\ accepted' = baseline
      /\ UNCHANGED <<kept, tree, exercise, baseline, command>>
  BY DEF AcceptHandover, fluxSide, kept
<1>2. release.flux # 0
  BY <1>1 DEF FluxIInv, FluxTypeInv, Commit
<1>3. QED
  BY <1>1, <1>2 DEF kept, FluxIInv, FluxTypeInv, MarkInv, Marked, FileInv, AcceptInv, OrderInv

-----------------------------------------------------------------------------
(* Git, Flux and the detours.                                              *)

(* A commit carries what the working tree holds.                           *)
LEMMA PushStep == ASSUME FluxIInv, Push PROVE FluxIInv'
<1>1. /\ head' = [rev |-> head.rev + 1, tree |-> tree]
      /\ UNCHANGED <<source, applied, owner, release, tree, exercise, baseline, accepted, command>>
  BY DEF Push, fluxSide, records
<1>2. head'.rev = head.rev + 1 /\ head'.tree = tree
  BY <1>1
<1>3. head' \in Commit /\ source.rev <= head'.rev
  BY <1>1, <1>2 DEF FluxIInv, FluxTypeInv, OrderInv, Commit
<1>4. QED
  BY <1>1, <1>2, <1>3 DEF FluxIInv, FluxTypeInv, MarkInv, Marked, FileInv, AcceptInv, OrderInv

(* What Flux fetches and applies was committed.                            *)
LEMMA FluxStep == ASSUME FluxIInv, Fetches \/ Applies \/ AttemptsProbe PROVE FluxIInv'
<1>1. UNCHANGED <<head, owner, release, tree, exercise, baseline, accepted, command>>
  BY DEF Fetches, Applies, AttemptsProbe, records
<1>2. CASE Fetches
  <2>1. source' = head /\ applied' = applied
    BY <1>2 DEF Fetches
  <2>2. source.rev \in Nat /\ head.rev \in Nat /\ source.rev <= head.rev
        /\ \A s \in ExerciseStages : exercise[s] \in Nat /\ exercise[s] <= head.rev
    BY DEF FluxIInv, FluxTypeInv, OrderInv, Commit
  <2>3. QED
    BY <1>1, <2>1, <2>2 DEF FluxIInv, FluxTypeInv, MarkInv, Marked, FileInv, AcceptInv, OrderInv
<1>3. CASE Applies
  BY <1>1, <1>3 DEF Applies, FluxIInv, FluxTypeInv, MarkInv, Marked, FileInv, AcceptInv, OrderInv
<1>4. CASE AttemptsProbe
  BY <1>1, <1>4 DEF AttemptsProbe, FluxIInv, FluxTypeInv, MarkInv, Marked, FileInv, AcceptInv, OrderInv
<1>5. QED  BY <1>2, <1>3, <1>4

(* helm-controller reconciles only what is not suspended, and so marked.   *)
LEMMA ReconcileStep == ASSUME FluxIInv, AttemptsLnd PROVE FluxIInv'
<1>1. /\ HelmRelease # Nothing /\ ~HelmRelease.suspend
      /\ release' = [rev |-> release.rev + 1, values |-> HelmRelease.values, flux |-> source.rev]
      /\ UNCHANGED <<head, source, applied, owner, tree, exercise, baseline, accepted, command>>
  BY DEF AttemptsLnd, fluxSide, records
<1>2. HelmRelease = applied.tree.lnd /\ HelmRelease \in LndFile
  BY <1>1 DEF HelmRelease, FluxIInv, FluxTypeInv, Commit, Tree
<1>3. owner /\ tree.lnd # Nothing
  BY <1>1, <1>2 DEF FluxIInv, MarkInv, Marked, FileInv
<1>4. release' \in [rev : Nat, values : Nat, flux : Nat] /\ release'.flux = source.rev
      /\ source.rev # 0
  BY <1>1, <1>2 DEF FluxIInv, FluxTypeInv, Commit, LndFile
<1>5. QED
  BY <1>1, <1>3, <1>4 DEF FluxIInv, FluxTypeInv, MarkInv, Marked, FileInv, AcceptInv, OrderInv

(* Neither kills nor edits nor deployments touch mark or suspension.       *)
LEMMA DetourStep ==
  ASSUME FluxIInv, Killed \/ LndChanges \/ EditValues \/ DeployGuard \/ DeployUpgrades
  PROVE  FluxIInv'
<1>1. UNCHANGED <<head, source, applied, owner, exercise, baseline, accepted>>
  BY DEF Killed, LndChanges, EditValues, DeployGuard, DeployUpgrades, fluxSide, records
<1>2. CASE Killed \/ LndChanges \/ DeployGuard
  <2>1. UNCHANGED <<tree, release>> /\ command' \in {"none", command}
    BY <1>2 DEF Killed, LndChanges, DeployGuard
  <2>2. QED
    BY <1>1, <2>1 DEF FluxIInv, FluxTypeInv, MarkInv, Marked, FileInv, AcceptInv, OrderInv
<1>3. CASE EditValues
  <2>1. tree.lnd # Nothing /\ tree' = [tree EXCEPT !.lnd.values = tree.lnd.values + 1]
        /\ UNCHANGED <<release, command>>
    BY <1>3 DEF EditValues
  <2>2. tree.lnd \in LndFile
    BY <2>1 DEF FluxIInv, FluxTypeInv, Tree
  <2>3. tree' = [tree EXCEPT !.lnd = [tree.lnd EXCEPT !.values = tree.lnd.values + 1]]
    BY <2>1
  <2>4. [tree.lnd EXCEPT !.values = tree.lnd.values + 1] \in LndFile
        /\ [tree.lnd EXCEPT !.values = tree.lnd.values + 1].suspend = tree.lnd.suspend
    BY <2>2 DEF LndFile
  <2>5. tree' \in Tree /\ tree'.lnd # Nothing /\ tree'.lnd.suspend = tree.lnd.suspend
    BY <2>3, <2>4, FluxAssumption DEF FluxIInv, FluxTypeInv, Tree, LndFile
  <2>6. QED
    BY <1>1, <2>1, <2>5 DEF FluxIInv, FluxTypeInv, MarkInv, Marked, FileInv, AcceptInv, OrderInv
<1>4. CASE DeployUpgrades
  <2>1. UNCHANGED <<tree, command>> /\ release' = [release EXCEPT
          !.rev = release.rev + 1, !.values = release.values + 1]
    BY <1>4 DEF DeployUpgrades
  <2>2. release' \in [rev : Nat, values : Nat, flux : Nat] /\ release'.flux = release.flux
    <3>1. release \in [rev : Nat, values : Nat, flux : Nat]
      BY DEF FluxIInv, FluxTypeInv
    <3>2. release.rev + 1 \in Nat /\ release.values + 1 \in Nat
      BY <3>1
    <3>3. QED  BY <2>1, <3>1, <3>2
  <2>3. QED
    BY <1>1, <2>1, <2>2 DEF FluxIInv, FluxTypeInv, MarkInv, Marked, FileInv, AcceptInv, OrderInv
<1>5. QED  BY <1>2, <1>3, <1>4

(* Every step keeps the invariant.                                         *)
LEMMA FluxInvStep == FluxIInv /\ [FluxNext]_fxVars => FluxIInv'
<1> SUFFICES ASSUME FluxIInv, [FluxNext]_fxVars PROVE FluxIInv'
  OBVIOUS
<1>1. CASE UNCHANGED fxVars
  BY <1>1 DEF fxVars, FluxIInv, FluxTypeInv, MarkInv, Marked, FileInv, AcceptInv, OrderInv
<1>2. CASE FluxNext
  BY <1>2, StageStep, RecordStep, ExportStep, ExportWritesStep, AdoptStep, AdoptWritesStep,
     AcceptStep, PushStep, FluxStep, ReconcileStep, DetourStep DEF FluxNext
<1>3. QED  BY <1>1, <1>2

-----------------------------------------------------------------------------
(* Flux reconciles the LND release only under the mark that blocks direct  *)
(* deployments, an acceptance is of the baseline on record, and the probe  *)
(* stages are recorded in order, however often commands are killed and     *)
(* repeated.                                                               *)
THEOREM HandoverHolds == FluxSpec => []HandoverSafe
<1>1. FluxIInv => HandoverSafe
  BY DEF FluxIInv, MarkInv, AcceptInv, OrderInv, HandoverSafe
<1>2. QED  BY <1>1, FluxInitInv, FluxInvStep, PTL DEF FluxSpec

-----------------------------------------------------------------------------
(* RegtestDrill: one wallet in one Pod.                                    *)

DrillTypeInv ==
  /\ original \in [ns : {"present", "terminating", "absent"}, marked : BOOLEAN,
                   replicas : {0, 1}, pod : BOOLEAN, wallet : Nat]
  /\ copy \in [ns : {"present", "terminating", "absent"}, record : Nat \cup {Missing},
               replicas : {0, 1, Missing}, pod : BOOLEAN, backup : BOOLEAN,
               identity : Nat \cup {Missing}, settled : BOOLEAN]
  /\ deployment \in {"none", "guarded"}
  /\ stale \in BOOLEAN

\* There is, or will be, a Pod of the copy.
Raised == copy.pod \/ copy.replicas # Missing

\* The original is down and stays down: no deployment passes the label.
Held == original.marked /\ original.ns = "present" /\ original.replicas = 0
Down == Held /\ ~original.pod

\* A raised copy has a namespace, and an original that is down.
RaisedInv ==
  Raised => copy.ns # "absent" /\ (stale \/ Down)

\* What prepare has done when it reaches a step.
PrepareInv ==
  script[1] = "prepare" =>
    /\ original.ns = "present"
    /\ script[2] # "backup" => ~Raised
    /\ script[2] # "create" => copy.ns = "present"
    /\ script[2] \in {"stop", "wait", "install"} => original.marked
    /\ script[2] = "wait" => stale \/ Held
    /\ script[2] = "install" => stale \/ Down

\* The label goes, the original starts or goes, when no copy is left.
PutAwayInv ==
  /\ script[2] \in {"unlabel", "start", "discard"} => copy.ns = "absent"
  /\ original.ns # "present" => copy.ns = "absent"

\* A guard read before the label is remembered.
GuardInv == deployment = "guarded" /\ original.marked => stale

DrillIInv == DrillTypeInv /\ RaisedInv /\ PrepareInv /\ PutAwayInv /\ GuardInv

(* Nothing is raised in the first state.                                   *)
LEMMA DrillInitInv == DrillInit => DrillIInv
<1> SUFFICES ASSUME DrillInit PROVE DrillIInv
  OBVIOUS
<1>1. DrillTypeInv
  BY DrillAssumption DEF DrillInit, NoCopy, DrillTypeInv
<1>2. ~Raised /\ original.ns = "present"
  BY DEF DrillInit, NoCopy, Raised
<1>3. script[1] = "none" /\ script[2] = "none" /\ deployment = "none"
  BY DEF DrillInit, NoScript
<1>4. RaisedInv /\ PrepareInv /\ PutAwayInv /\ GuardInv
  BY <1>2, <1>3 DEF RaisedInv, PrepareInv, PutAwayInv, GuardInv
<1>5. QED  BY <1>1, <1>4 DEF DrillIInv

(* The steps of prepare: the copy is raised last, over an original that    *)
(* was labelled, stopped and seen to go.                                   *)
LEMMA PrepareStep ==
  ASSUME DrillIInv,
         PrepareStarts \/ CreateNamespace \/ Annotate \/ Label \/ StopOriginal
           \/ OriginalIsGone \/ InstallCopy \/ CopyBackup
  PROVE  DrillIInv'
<1> USE DrillAssumption
    DEF DrillIInv, DrillTypeInv, RaisedInv, PrepareInv, PutAwayInv, GuardInv, Raised, Held, Down
<1>1. CASE PrepareStarts    BY <1>1 DEF PrepareStarts, Starts, NoScript
<1>2. CASE CreateNamespace  BY <1>2 DEF CreateNamespace, At, Then
<1>3. CASE Annotate         BY <1>3 DEF Annotate, At, Then
<1>4. CASE Label            BY <1>4 DEF Label, At, Then
<1>5. CASE StopOriginal     BY <1>5 DEF StopOriginal, At, Then
<1>6. CASE OriginalIsGone   BY <1>6 DEF OriginalIsGone, At, Then
<1>7. CASE InstallCopy      BY <1>7 DEF InstallCopy, At, Then
<1>8. CASE CopyBackup       BY <1>8 DEF CopyBackup, At, EndsAs, NoScript
<1>9. QED  BY <1>1, <1>2, <1>3, <1>4, <1>5, <1>6, <1>7, <1>8

(* The copy is put away: its namespace is gone before the label is.        *)
LEMMA PutAwayStep ==
  ASSUME DrillIInv, NEW name \in {"finish", "abort", "reset"},
         FinishStarts \/ AbortStarts \/ ResetStarts
           \/ StopCopy(name) \/ StopFails(name) \/ CopyIsGone(name) \/ DeleteCopy(name)
           \/ CopyIsDeleted(name) \/ Unlabel(name) \/ StartOriginal(name)
           \/ DeleteOriginal \/ ScriptStops
  PROVE  DrillIInv'
<1> USE DrillAssumption
    DEF DrillIInv, DrillTypeInv, RaisedInv, PrepareInv, PutAwayInv, GuardInv, Raised, Held, Down
<1>1. CASE FinishStarts \/ AbortStarts \/ ResetStarts
  BY <1>1 DEF FinishStarts, AbortStarts, ResetStarts, Starts
<1>2. CASE StopCopy(name)       BY <1>2 DEF StopCopy, At, Then
<1>3. CASE StopFails(name)      BY <1>3 DEF StopFails, EndsAs, NoScript
<1>4. CASE CopyIsGone(name)     BY <1>4 DEF CopyIsGone, Then
<1>5. CASE DeleteCopy(name)     BY <1>5 DEF DeleteCopy, Then
<1>6. CASE CopyIsDeleted(name)  BY <1>6 DEF CopyIsDeleted, Then
<1>7. CASE Unlabel(name)        BY <1>7 DEF Unlabel, At, Then
<1>8. CASE StartOriginal(name)  BY <1>8 DEF StartOriginal, At, EndsAs, NoScript
<1>9. CASE DeleteOriginal       BY <1>9 DEF DeleteOriginal, At, EndsAs, NoScript
<1>10. CASE ScriptStops         BY <1>10 DEF ScriptStops, EndsAs, NoScript
<1>11. QED  BY <1>1, <1>2, <1>3, <1>4, <1>5, <1>6, <1>7, <1>8, <1>9, <1>10

(* The other terminal starts the original only over a label that it does   *)
(* not see, or a namespace that is gone.                                   *)
LEMMA DeploymentStep == DrillIInv /\ (DeploymentGuard \/ DeploymentUpgrades) => DrillIInv'
<1> SUFFICES ASSUME DrillIInv, DeploymentGuard \/ DeploymentUpgrades PROVE DrillIInv'
  OBVIOUS
<1> USE DrillAssumption
    DEF DrillIInv, DrillTypeInv, RaisedInv, PrepareInv, PutAwayInv, GuardInv, Raised, Held, Down
<1>1. CASE DeploymentGuard  BY <1>1 DEF DeploymentGuard
<1>2. CASE DeploymentUpgrades
  <2>1. CASE original.ns = "present" /\ original' = [original EXCEPT !.replicas = 1]
    BY <1>2, <2>1 DEF DeploymentUpgrades
  <2>2. CASE /\ original.ns = "absent"
             /\ original' = [ns |-> "present", marked |-> FALSE, replicas |-> 1, pod |-> FALSE,
                             wallet |-> original.wallet + 1]
    <3>1. copy.ns = "absent" /\ ~Raised /\ script[1] # "prepare"
      BY <2>2
    <3>2. PICK n \in Nat : original.wallet + 1 = n
      <4>1. original.wallet \in Nat
        OBVIOUS
      <4>2. QED  BY <4>1
    <3>3. original'.ns = "present" /\ original'.marked = FALSE
      BY <2>2
    <3>4. DrillTypeInv'
      BY <1>2, <2>2, <3>2 DEF DeploymentUpgrades
    <3>5. QED  BY <1>2, <2>2, <3>1, <3>3, <3>4 DEF DeploymentUpgrades
  <2>3. CASE UNCHANGED original
    BY <1>2, <2>3 DEF DeploymentUpgrades
  <2>4. QED  BY <1>2, <2>1, <2>2, <2>3 DEF DeploymentUpgrades
<1>3. QED  BY <1>1, <1>2

(* Pods follow their StatefulSet, which of a raised copy's original asks   *)
(* for none, and a namespace goes with its Pods.                           *)
LEMMA ClusterStep ==
  DrillIInv /\ (RestoreWallet \/ ChannelSettles \/ PodsFollow \/ NamespaceGoes) => DrillIInv'
<1> SUFFICES ASSUME DrillIInv, RestoreWallet \/ ChannelSettles \/ PodsFollow \/ NamespaceGoes
             PROVE DrillIInv'
  OBVIOUS
<1> USE DrillAssumption
    DEF DrillIInv, DrillTypeInv, RaisedInv, PrepareInv, PutAwayInv, GuardInv, Raised, Held, Down
<1>1. CASE RestoreWallet   BY <1>1 DEF RestoreWallet, Other
<1>2. CASE ChannelSettles  BY <1>2 DEF ChannelSettles
<1>3. CASE PodsFollow
  <2>1. CASE UNCHANGED copy
    <3>1. Down => Down'
      BY <1>3, <2>1 DEF PodsFollow
    <3>2. PICK b \in BOOLEAN : original' = [original EXCEPT !.pod = b]
      BY <1>3, <2>1 DEF PodsFollow
    <3>3. QED  BY <1>3, <2>1, <3>1, <3>2 DEF PodsFollow
  <2>2. CASE UNCHANGED original
    <3>1. 1 # Missing
      OBVIOUS
    <3>2. copy.pod \/ copy.replicas = 1
      BY <1>3, <2>2 DEF PodsFollow
    <3>3. PICK b \in BOOLEAN : copy' = [copy EXCEPT !.pod = b]
      BY <1>3, <2>2 DEF PodsFollow
    <3>4. UNCHANGED <<original, script, exit, deployment, stale>>
      BY <1>3, <2>2 DEF PodsFollow
    <3>5. QED  BY <2>2, <3>1, <3>2, <3>3, <3>4
  <2>3. QED  BY <1>3, <2>1, <2>2 DEF PodsFollow
<1>4. CASE NamespaceGoes
  <2>1. CASE /\ copy.ns = "terminating" /\ UNCHANGED <<original, stale>>
             /\ copy' = [copy EXCEPT !.replicas = Missing, !.pod = FALSE]
    BY <1>4, <2>1 DEF NamespaceGoes
  <2>2. CASE copy.ns = "terminating" /\ UNCHANGED <<original, stale>> /\ copy' = NoCopy
    <3>1. DrillTypeInv' /\ ~Raised' /\ copy'.ns = "absent"
      BY <1>4, <2>2 DEF NamespaceGoes, NoCopy
    <3>2. script[1] = "prepare" => script[2] = "create"
      BY <2>2
    <3>3. QED  BY <1>4, <2>2, <3>1, <3>2 DEF NamespaceGoes
  <2>3. CASE original.ns = "terminating" /\ UNCHANGED copy
    BY <1>4, <2>3 DEF NamespaceGoes
  <2>4. QED  BY <1>4, <2>1, <2>2, <2>3 DEF NamespaceGoes
<1>5. QED  BY <1>1, <1>2, <1>3, <1>4

(* A step in which the drill stands still.                                 *)
LEMMA StutterStep == DrillIInv /\ UNCHANGED drillVars => DrillIInv'
  BY DEF drillVars, DrillIInv, DrillTypeInv, RaisedInv, PrepareInv, PutAwayInv, GuardInv, Raised, Held, Down

(* Wherever scripts stop and whatever runs next, one wallet runs in one    *)
(* Pod, unless a deployment read the label before it was set.              *)
THEOREM DrillHolds == DrillSpec => []OneLiveCopy
<1>1. DrillIInv /\ [DrillNext]_drillVars => DrillIInv'
  <2> SUFFICES ASSUME DrillIInv, [DrillNext]_drillVars PROVE DrillIInv'
    OBVIOUS
  <2>1. QED  BY PrepareStep, PutAwayStep, DeploymentStep, ClusterStep, StutterStep DEF DrillNext
<1>2. DrillIInv => OneLiveCopy
  BY DEF DrillIInv, RaisedInv, Raised, Down, OneLiveCopy
<1>3. QED  BY DrillInitInv, <1>1, <1>2, PTL DEF DrillSpec

-----------------------------------------------------------------------------
(* RunbookGateway: calls one after the other, and what holds of any.       *)

GatewayPcs == {"new", "read", "decide", "restart", "record", "auditAllowed", "auditCooldown",
               "auditDenied"} \cup Answers

GatewayTypes ==
  /\ seconds \in Nat /\ annotation \in Nat /\ epoch \in Nat
  /\ events \in [AuditOutcomes -> SUBSET Calls]
  /\ rollouts \subseteq Nat
  /\ pc \in [Calls -> GatewayPcs]
  /\ last \in [Calls -> Nat] /\ now \in [Calls -> Nat]
  /\ undisturbed \in BOOLEAN

(* No call is in progress beside another, and none has failed.             *)
InTurn ==
  /\ \A c, d \in Calls : InProgress(c) /\ InProgress(d) => c = d
  /\ \A c \in Calls : pc[c] # "error"

(* The epoch is the latest rollout, but for the one whose time is not      *)
(* recorded yet; the annotation is the time of the latest rollout.         *)
Recording(c) == pc[c] = "record"
EpochInv ==
  /\ \A s \in rollouts : s <= epoch \/ \E c \in Calls : Recording(c) /\ s = now[c]
  /\ (\A c \in Calls : ~Recording(c)) => annotation = epoch
  /\ \A c \in Calls : Recording(c) => annotation = now[c]
  /\ \A c \in Calls : pc[c] = "decide" => last[c] = epoch
  /\ \A c \in Calls : pc[c] \in {"restart", "record"} => epoch + Cooldown <= now[c]

AllApart == \A s, t \in rollouts : Apart(s, t)

(* One Event per answer, and one per rollout once its call has ended.      *)
Owing == \E c \in Calls : pc[c] \in {"record", "auditAllowed"}
AuditInv ==
  /\ \A o \in AuditOutcomes, c \in Calls : c \in events[o] <=> pc[c] = o
  /\ IsFiniteSet(rollouts) /\ IsFiniteSet(events["allowed"])
  /\ Cardinality(rollouts) = Cardinality(events["allowed"]) + (IF Owing THEN 1 ELSE 0)

(* Without a cooldown a second restart in one second patches what is there *)
(* already, so that its Event is of no rollout.                            *)
CallsInv == InTurn /\ EpochInv /\ AllApart /\ (Cooldown # 0 => AuditInv)

GatewayInv == GatewayTypes /\ (undisturbed => CallsInv)

(* The cooldown is a number of seconds.                                    *)
LEMMA CooldownIsNat == Cooldown \in Nat
BY GatewayAssumption

(* The first state.                                                        *)
LEMMA GatewayInitInv == GatewayInit => GatewayInv
<1> SUFFICES ASSUME GatewayInit  PROVE GatewayInv
  OBVIOUS
<1> USE DEF GatewayInit
<1>1. GatewayTypes
  BY CooldownIsNat DEF GatewayTypes, GatewayPcs
<1>2. InTurn /\ EpochInv /\ AllApart
  BY DEF InTurn, InProgress, EpochInv, AllApart
<1>3. AuditInv
  <2>1. ~Owing /\ rollouts = {} /\ events["allowed"] = {}
    BY DEF Owing, AuditOutcomes
  <2>2. \A o \in AuditOutcomes, c \in Calls : c \notin events[o] /\ pc[c] # o
    BY DEF AuditOutcomes
  <2>3. IsFiniteSet({}) /\ Cardinality({}) = 0
    BY FS_EmptySet
  <2>4. IsFiniteSet(rollouts) /\ IsFiniteSet(events["allowed"])
    BY <2>1, <2>3
  <2>5. Cardinality(rollouts) = Cardinality(events["allowed"]) + (IF Owing THEN 1 ELSE 0)
    <3>1. Cardinality(rollouts) = 0 /\ Cardinality(events["allowed"]) = 0
      BY <2>1, <2>3, Zenon
    <3>2. QED  BY <2>1, <3>1
  <2>6. QED  BY <2>2, <2>4, <2>5 DEF AuditInv
<1>4. QED  BY <1>1, <1>2, <1>3 DEF GatewayInv, CallsInv

(* The variables keep their types.                                         *)
LEMMA GatewayTypeStep == GatewayTypes /\ [GatewayNext]_gwVars => GatewayTypes'
<1> SUFFICES ASSUME GatewayTypes, [GatewayNext]_gwVars  PROVE GatewayTypes'
  OBVIOUS
<1> USE DEF GatewayTypes, GatewayPcs, Answers, AuditOutcomes, Goto, cluster
<1>1. CASE UNCHANGED gwVars
  BY <1>1 DEF gwVars
<1>2. ASSUME NEW c \in Calls, NEW action, Call(c, action)  PROVE GatewayTypes'
  BY <1>2 DEF Call
<1>3. ASSUME NEW c \in Calls, ReadState(c) \/ Decide(c)  PROVE GatewayTypes'
  <2>1. CASE ReadState(c)
    BY <2>1 DEF ReadState
  <2>2. CASE Decide(c)
    <3>1. (IF TooSoon(c) THEN "auditCooldown" ELSE "restart") \in GatewayPcs
      OBVIOUS
    <3>2. QED  BY <2>2, <3>1 DEF Decide
  <2>3. QED  BY <1>3, <2>1, <2>2
<1>4. ASSUME NEW c \in Calls, PatchDeployment(c) \/ PatchState(c) \/ Fail(c)
      PROVE  GatewayTypes'
  <2>1. CASE PatchDeployment(c)
    BY <2>1 DEF PatchDeployment
  <2>2. CASE PatchState(c)
    BY <2>2 DEF PatchState
  <2>3. CASE Fail(c)
    BY <2>3 DEF Fail
  <2>4. QED  BY <1>4, <2>1, <2>2, <2>3
<1>5. ASSUME NEW c \in Calls, NEW o \in AuditOutcomes, Audit(c, o)  PROVE GatewayTypes'
  BY <1>5 DEF Audit
<1>6. CASE SecondPasses
  BY <1>6 DEF SecondPasses
<1>7. QED  BY <1>1, <1>2, <1>3, <1>4, <1>5, <1>6 DEF GatewayNext

-----------------------------------------------------------------------------
(* Each step of a call that is alone keeps the invariant.                  *)

(* Beside a call in progress the others have not begun or have ended.      *)
LEMMA Alone ==
  ASSUME GatewayTypes, InTurn, NEW c \in Calls, InProgress(c), NEW l \in GatewayPcs \ {"error"},
         pc' = [pc EXCEPT ![c] = l]
  PROVE  /\ pc'[c] = l /\ InTurn'
         /\ \A d \in Calls \ {c} : pc'[d] = pc[d] /\ pc[d] \in {"new"} \cup AuditOutcomes
<1>1. pc'[c] = l /\ \A d \in Calls \ {c} : pc'[d] = pc[d]
  BY DEF GatewayTypes
<1>2. \A d \in Calls \ {c} : ~InProgress(d) /\ pc[d] # "error" /\ pc[d] \in GatewayPcs
  BY DEF InTurn, GatewayTypes
<1>3. \A d \in Calls \ {c} : pc[d] \in {"new"} \cup AuditOutcomes
  BY <1>2 DEF InProgress, Answers
<1>4. InTurn'
  BY <1>1, <1>2 DEF InTurn, InProgress
<1>5. QED  BY <1>1, <1>3, <1>4

(* The owing of the audit where one call alone may owe.                    *)
LEMMA OwingIs ==
  ASSUME NEW c \in Calls, \A d \in Calls \ {c} : pc[d] \in {"new"} \cup AuditOutcomes
  PROVE  Owing <=> pc[c] \in {"record", "auditAllowed"}
BY DEF Owing, AuditOutcomes

(* Events and rollouts stay when a call neither begins nor ceases to owe,  *)
(* nor is answered.                                                        *)
LEMMA AuditKept ==
  ASSUME AuditInv, NEW c \in Calls, UNCHANGED <<rollouts, events>>,
         \A d \in Calls \ {c} : pc'[d] = pc[d],
         pc[c] \notin AuditOutcomes, pc'[c] \notin AuditOutcomes,
         pc'[c] \in {"record", "auditAllowed"} <=> pc[c] \in {"record", "auditAllowed"}
  PROVE  AuditInv'
<1>1. Owing' <=> Owing
  BY DEF Owing
<1>2. \A o \in AuditOutcomes, d \in Calls : d \in events[o]' <=> pc'[d] = o
  BY DEF AuditInv
<1>3. QED  BY <1>1, <1>2 DEF AuditInv

(* A call that arrives while nothing is in progress.                       *)
LEMMA CallStep ==
  ASSUME GatewayInv, NEW c \in Calls, NEW action, Call(c, action), undisturbed'
  PROVE  CallsInv'
<1>1. /\ undisturbed /\ CallsInv /\ \A d \in Calls : ~InProgress(d)
      /\ UNCHANGED <<annotation, epoch, events, rollouts, last, now>>
      /\ pc[c] = "new"
  BY DEF Call, GatewayInv, cluster
<1>2. pc' = [pc EXCEPT ![c] = "read"] \/ pc' = [pc EXCEPT ![c] = "auditDenied"]
  BY DEF Call, Goto
<1>3. pc'[c] \in {"read", "auditDenied"} /\ \A d \in Calls \ {c} : pc'[d] = pc[d]
  BY <1>2 DEF GatewayInv, GatewayTypes
<1>4. InTurn'
  BY <1>1, <1>3 DEF CallsInv, InTurn, InProgress
<1>5. EpochInv'
  <2>1. \A d \in Calls : ~Recording(d) /\ pc[d] \notin {"decide", "restart", "record"}
    BY <1>1 DEF InProgress, Recording, Answers, AuditOutcomes
  <2>2. QED  BY <1>1, <1>3, <2>1 DEF CallsInv, EpochInv, Recording
<1>6. Cooldown # 0 => AuditInv'
  BY <1>1, <1>3, AuditKept DEF CallsInv, AuditOutcomes
<1>7. QED  BY <1>1, <1>4, <1>5, <1>6 DEF CallsInv, AllApart, Apart

(* The state is read, and the decision taken on it, with no other call     *)
(* that could change it in between.                                        *)
LEMMA ReadDecideStep ==
  ASSUME GatewayInv, NEW c \in Calls, ReadState(c) \/ Decide(c), undisturbed'
  PROVE  CallsInv'
<1>1. /\ undisturbed /\ CallsInv /\ GatewayTypes
      /\ UNCHANGED <<annotation, epoch, events, rollouts>>
      /\ pc[c] \in {"read", "decide"} /\ InProgress(c)
  BY DEF ReadState, Decide, GatewayInv, cluster, InProgress, Answers, AuditOutcomes
<1>2. PICK l \in {"decide", "auditCooldown", "restart"} : pc' = [pc EXCEPT ![c] = l]
  BY DEF ReadState, Decide, Goto
<1>3. l \in GatewayPcs \ {"error"}
  BY DEF GatewayPcs, Answers
<1>4. /\ pc'[c] = l /\ InTurn'
      /\ \A d \in Calls \ {c} : pc'[d] = pc[d] /\ pc[d] \in {"new"} \cup AuditOutcomes
  BY <1>1, <1>2, <1>3, Alone DEF CallsInv
<1>5. EpochInv'
  <2>1. \A d \in Calls : ~Recording(d)
    BY <1>1, <1>4 DEF Recording, AuditOutcomes
  <2>2. annotation = epoch /\ \A s \in rollouts : s <= epoch
    BY <1>1, <2>1 DEF CallsInv, EpochInv
  <2>3. l = "decide" => last'[c] = epoch
    BY <1>1, <1>2, <1>4 DEF ReadState, Decide, Goto, GatewayTypes
  <2>4. l = "restart" => epoch + Cooldown <= now'[c]
    <3> SUFFICES ASSUME l = "restart"  PROVE epoch + Cooldown <= now'[c]
      OBVIOUS
    <3>1. Decide(c)
      BY <1>4 DEF ReadState, Goto, GatewayInv, GatewayTypes
    <3>2. ~TooSoon(c) /\ now'[c] = seconds
      BY <1>1, <1>4, <3>1 DEF Decide, Goto, GatewayTypes
    <3>3. last[c] = epoch
      BY <1>1, <3>1 DEF CallsInv, EpochInv, Decide
    <3>4. QED  BY <1>1, <3>2, <3>3, CooldownIsNat DEF TooSoon, GatewayTypes
  <2>5. \A d \in Calls : /\ pc'[d] # "record"
                         /\ pc'[d] \in {"decide", "restart"} => d = c /\ pc'[d] = l
    BY <1>4 DEF AuditOutcomes
  <2>6. QED  BY <1>1, <1>4, <2>2, <2>3, <2>4, <2>5 DEF EpochInv, Recording
<1>6. Cooldown # 0 => AuditInv'
  BY <1>1, <1>4, AuditKept DEF CallsInv, AuditOutcomes
<1>7. QED  BY <1>1, <1>4, <1>5, <1>6 DEF CallsInv, AllApart, Apart

(* A restart is a cooldown after the latest rollout, and with a cooldown   *)
(* it rolls.                                                               *)
LEMMA PatchDeploymentStep ==
  ASSUME GatewayInv, NEW c \in Calls, PatchDeployment(c), undisturbed'
  PROVE  CallsInv'
<1> USE CooldownIsNat
<1>1. /\ undisturbed /\ CallsInv /\ GatewayTypes /\ InProgress(c) /\ pc[c] = "restart"
      /\ annotation' = now[c] /\ pc' = [pc EXCEPT ![c] = "record"]
      /\ UNCHANGED <<epoch, events, last, now>>
      /\ rollouts' = IF now[c] = annotation THEN rollouts ELSE rollouts \cup {now[c]}
  BY DEF PatchDeployment, Goto, GatewayInv, InProgress, Answers, AuditOutcomes
<1>2. /\ pc'[c] = "record" /\ InTurn'
      /\ \A d \in Calls \ {c} : pc'[d] = pc[d] /\ pc[d] \in {"new"} \cup AuditOutcomes
  BY <1>1, Alone DEF CallsInv, GatewayPcs, Answers
<1>3. \A d \in Calls : ~Recording(d)
  BY <1>1, <1>2 DEF Recording, AuditOutcomes
<1>4. annotation = epoch /\ (\A s \in rollouts : s <= epoch) /\ epoch + Cooldown <= now[c]
  BY <1>1, <1>3 DEF CallsInv, EpochInv
<1>5. now[c] \in Nat /\ epoch \in Nat /\ rollouts \subseteq Nat
  BY <1>1 DEF GatewayTypes
<1>6. EpochInv'
  <2>1. \A s \in rollouts' : s <= epoch \/ s = now[c]
    BY <1>1, <1>4
  <2>2. \A d \in Calls : pc'[d] # "decide" /\ (pc'[d] \in {"restart", "record"} => d = c)
    BY <1>2 DEF AuditOutcomes
  <2>3. QED  BY <1>1, <1>2, <1>4, <2>1, <2>2 DEF EpochInv, Recording
<1>7. AllApart'
  <2>1. \A s \in rollouts : now[c] >= s + Cooldown
    BY <1>4, <1>5
  <2>2. QED  BY <1>1, <2>1 DEF CallsInv, AllApart, Apart
<1>8. ASSUME Cooldown # 0  PROVE AuditInv'
  <2>1. now[c] # annotation /\ now[c] \notin rollouts
    BY <1>4, <1>5, <1>8
  <2>2. rollouts' = rollouts \cup {now[c]} /\ AuditInv
    BY <1>1, <1>8, <2>1 DEF CallsInv
  <2>3. IsFiniteSet(rollouts') /\ Cardinality(rollouts') = Cardinality(rollouts) + 1
    BY <2>1, <2>2, FS_AddElement DEF AuditInv
  <2>4. ~Owing /\ Owing'
    BY <1>1, <1>2 DEF Owing, AuditOutcomes
  <2>5. Cardinality(events["allowed"]) \in Nat
    BY <2>2, FS_CardinalityType DEF AuditInv
  <2>6. \A o \in AuditOutcomes, d \in Calls : d \in events[o]' <=> pc'[d] = o
    BY <1>1, <1>2, <2>2 DEF AuditInv, AuditOutcomes
  <2>7. QED  BY <1>1, <2>2, <2>3, <2>4, <2>5, <2>6 DEF AuditInv
<1>9. QED  BY <1>2, <1>6, <1>7, <1>8 DEF CallsInv

(* The epoch catches up with the rollout.                                  *)
LEMMA PatchStateStep ==
  ASSUME GatewayInv, NEW c \in Calls, PatchState(c), undisturbed'
  PROVE  CallsInv'
<1> USE CooldownIsNat
<1>1. /\ undisturbed /\ CallsInv /\ GatewayTypes /\ InProgress(c) /\ pc[c] = "record"
      /\ epoch' = now[c] /\ pc' = [pc EXCEPT ![c] = "auditAllowed"]
      /\ UNCHANGED <<annotation, events, rollouts, last, now>>
  BY DEF PatchState, Goto, GatewayInv, InProgress, Answers, AuditOutcomes
<1>2. /\ pc'[c] = "auditAllowed" /\ InTurn'
      /\ \A d \in Calls \ {c} : pc'[d] = pc[d] /\ pc[d] \in {"new"} \cup AuditOutcomes
  BY <1>1, Alone DEF CallsInv, GatewayPcs, Answers
<1>3. \A d \in Calls : Recording(d) => d = c
  BY <1>2 DEF Recording, AuditOutcomes
<1>4. /\ epoch + Cooldown <= now[c] /\ now[c] \in Nat /\ epoch \in Nat
      /\ rollouts \subseteq Nat
  BY <1>1 DEF CallsInv, EpochInv, GatewayTypes
<1>5. annotation = now[c] /\ (\A s \in rollouts : s <= now[c])
  <2>1. \A s \in rollouts : s <= now[c]
    BY <1>1, <1>3, <1>4 DEF CallsInv, EpochInv
  <2>2. annotation = now[c]
    BY <1>1 DEF CallsInv, EpochInv, Recording
  <2>3. QED  BY <2>1, <2>2
<1>6. EpochInv'
  <2>1. \A d \in Calls : pc'[d] \notin {"decide", "restart", "record"}
    BY <1>2 DEF AuditOutcomes
  <2>2. QED  BY <1>1, <1>5, <2>1 DEF EpochInv, Recording
<1>7. Cooldown # 0 => AuditInv'
  BY <1>1, <1>2, AuditKept DEF CallsInv, AuditOutcomes
<1>8. QED  BY <1>1, <1>2, <1>6, <1>7 DEF CallsInv, AllApart, Apart

(* One Event, for the call's own answer.                                   *)
LEMMA AuditStep ==
  ASSUME GatewayInv, NEW c \in Calls, NEW o \in AuditOutcomes, Audit(c, o), undisturbed'
  PROVE  CallsInv'
<1>1. /\ undisturbed /\ CallsInv /\ GatewayTypes /\ pc' = [pc EXCEPT ![c] = o]
      /\ events' = [events EXCEPT ![o] = @ \cup {c}]
      /\ UNCHANGED <<annotation, epoch, rollouts, last, now>>
      /\ pc[c] = AuditPc[o]
  BY DEF Audit, Goto, GatewayInv
<1>2. /\ pc[c] \in {"auditAllowed", "auditCooldown", "auditDenied"}
      /\ pc[c] = "auditAllowed" <=> o = "allowed"
  BY <1>1 DEF AuditPc, AuditOutcomes
<1>3. InProgress(c) /\ o \in GatewayPcs \ {"error"}
  BY <1>2 DEF InProgress, GatewayPcs, Answers, AuditOutcomes
<1>4. /\ pc'[c] = o /\ InTurn'
      /\ \A d \in Calls \ {c} : pc'[d] = pc[d] /\ pc[d] \in {"new"} \cup AuditOutcomes
  BY <1>1, <1>3, Alone DEF CallsInv
<1>5. EpochInv'
  <2>1. /\ \A d \in Calls : pc[d] # "record"
        /\ \A d \in Calls : pc'[d] \notin {"decide", "restart", "record"}
    BY <1>2, <1>4 DEF AuditOutcomes
  <2>2. QED  BY <1>1, <2>1 DEF CallsInv, EpochInv, Recording
<1>6. ASSUME Cooldown # 0  PROVE AuditInv'
  <2>1. AuditInv /\ c \notin events[o]
    BY <1>1, <1>2, <1>6 DEF CallsInv, AuditInv, AuditOutcomes
  <2>2. events'[o] = events[o] \cup {c}
        /\ \A q \in AuditOutcomes : q # o => events'[q] = events[q]
    BY <1>1 DEF GatewayTypes
  <2>3. \A q \in AuditOutcomes, d \in Calls : d \in events'[q] <=> pc'[d] = q
    BY <1>2, <1>4, <2>1, <2>2 DEF AuditInv, AuditOutcomes
  <2>4. Owing <=> o = "allowed"
    BY <1>2, <1>4, OwingIs
  <2>5. ~Owing'
    BY <1>4 DEF Owing, AuditOutcomes
  <2>6. Cardinality(events["allowed"]) \in Nat
    BY <2>1, FS_CardinalityType DEF AuditInv
  <2>7. CASE o = "allowed"
    <3>1. /\ events'["allowed"] = events["allowed"] \cup {c}
          /\ c \notin events["allowed"] /\ IsFiniteSet(events["allowed"])
      BY <2>1, <2>2, <2>7 DEF AuditInv
    <3>2. IsFiniteSet(events["allowed"] \cup {c})
          /\ Cardinality(events["allowed"] \cup {c}) = Cardinality(events["allowed"]) + 1
      BY <3>1, FS_AddElement
    <3>3. IsFiniteSet(rollouts') /\ IsFiniteSet(events'["allowed"])
      BY <1>1, <2>1, <3>1, <3>2 DEF AuditInv
    <3>4. Cardinality(rollouts')
            = Cardinality(events'["allowed"]) + (IF Owing' THEN 1 ELSE 0)
      <4>1. Cardinality(rollouts') = Cardinality(events["allowed"]) + 1
        BY <1>1, <2>1, <2>4, <2>7 DEF AuditInv
      <4>2. Cardinality(events'["allowed"]) = Cardinality(events["allowed"]) + 1
        BY <3>1, <3>2, Zenon
      <4>3. QED  BY <2>5, <2>6, <4>1, <4>2
    <3>5. QED  BY <2>3, <3>3, <3>4 DEF AuditInv
  <2>8. CASE o # "allowed"
    <3>1. events'["allowed"] = events["allowed"]
      BY <2>2, <2>8 DEF AuditOutcomes
    <3>2. QED  BY <1>1, <2>1, <2>3, <2>4, <2>5, <2>6, <2>8, <3>1 DEF AuditInv
  <2>9. QED  BY <2>7, <2>8
<1>7. QED  BY <1>1, <1>4, <1>5, <1>6 DEF CallsInv, AllApart, Apart

(* Every step keeps the invariant; a failure ends what it speaks of.       *)
LEMMA GatewayInvStep == GatewayInv /\ [GatewayNext]_gwVars => GatewayInv'
<1> SUFFICES ASSUME GatewayInv, [GatewayNext]_gwVars, undisturbed'  PROVE CallsInv'
  BY GatewayTypeStep DEF GatewayInv
<1>1. CASE UNCHANGED gwVars \/ SecondPasses
  <2>1. UNCHANGED <<annotation, epoch, events, rollouts, pc, last, now, undisturbed>>
    BY <1>1 DEF gwVars, SecondPasses, cluster
  <2>2. CallsInv
    BY <2>1 DEF GatewayInv
  <2>3. (InTurn /\ EpochInv /\ AllApart)'
    BY <2>1, <2>2 DEF CallsInv, InTurn, InProgress, EpochInv, Recording, AllApart, Apart
  <2>4. Cooldown # 0 => AuditInv'
    BY <2>1, <2>2 DEF CallsInv, AuditInv, Owing
  <2>5. QED  BY <2>3, <2>4 DEF CallsInv
<1>2. ASSUME NEW c \in Calls, Fail(c)  PROVE FALSE
  BY <1>2 DEF Fail
<1>3. QED
  BY <1>1, <1>2, CallStep, ReadDecideStep, PatchDeploymentStep, PatchStateStep, AuditStep
  DEF GatewayNext

(* docs/phase7-runbook.md:26 for any number of calls and any cooldown: one *)
(* after the other and with no request failing, they roll the probe at     *)
(* most once per cooldown.                                                 *)
THEOREM CooldownInTurn == GatewaySpec => []CooldownHoldsInTurn
<1>1. GatewayInv => CooldownHoldsInTurn
  BY DEF GatewayInv, CallsInv, AllApart, CooldownHoldsInTurn
<1>2. QED  BY <1>1, GatewayInitInv, GatewayInvStep, PTL DEF GatewaySpec

(* Whatever calls overlap or fail: an Event of a restart is of an answered *)
(* call, and each rollout has a call that accounts for it.                 *)
AccountInv ==
  /\ \A c \in events["allowed"] : pc[c] = "allowed"
  /\ \A t \in rollouts : \E c \in Calls : AccountsFor(c, t)

(* What accounted for a rollout goes on to, where its rollouts stay.       *)
LEMMA StillAccounted ==
  ASSUME AccountInv, rollouts' = rollouts, \A c \in events'["allowed"] : pc'[c] = "allowed",
         \A c \in Calls, t \in rollouts : AccountsFor(c, t) => AccountsFor(c, t)'
  PROVE  AccountInv'
BY DEF AccountInv

(* Every step keeps the accounts, a failure too.                           *)
LEMMA AccountStep == GatewayTypes /\ AccountInv /\ [GatewayNext]_gwVars => AccountInv'
<1> SUFFICES ASSUME GatewayTypes, AccountInv, [GatewayNext]_gwVars  PROVE AccountInv'
  OBVIOUS
<1>1. CASE UNCHANGED gwVars \/ SecondPasses
  BY <1>1 DEF gwVars, SecondPasses, cluster, AccountInv, AccountsFor
<1>2. ASSUME NEW c \in Calls, pc[c] # "allowed", NEW l, pc' = [pc EXCEPT ![c] = l],
             UNCHANGED <<events, rollouts>>,
             UNCHANGED now \/ (pc[c] = "decide" /\ \E n : now' = [now EXCEPT ![c] = n]),
             pc[c] \in {"record", "auditAllowed", "error"}
               => l \in {"record", "auditAllowed", "error"}
      PROVE  AccountInv'
  <2>1. \A d \in Calls : d # c => pc'[d] = pc[d] /\ now'[d] = now[d]
    BY <1>2 DEF GatewayTypes
  <2>2. pc'[c] = l /\ c \notin events["allowed"] /\ events["allowed"] \subseteq Calls
    BY <1>2 DEF GatewayTypes, AccountInv, AuditOutcomes
  <2>3. pc[c] \in {"record", "auditAllowed", "error"} => now'[c] = now[c]
    BY <1>2
  <2>4. \A d \in Calls, t \in rollouts : AccountsFor(d, t) => AccountsFor(d, t)'
    BY <1>2, <2>1, <2>2, <2>3 DEF AccountsFor
  <2>5. \A d \in events'["allowed"] : pc'[d] = "allowed"
    BY <1>2, <2>1, <2>2 DEF AccountInv
  <2>6. QED  BY <1>2, <2>4, <2>5, StillAccounted
<1>3. ASSUME NEW c \in Calls, NEW action, Call(c, action)  PROVE AccountInv'
  BY <1>2, <1>3 DEF Call, Goto, cluster
<1>4. ASSUME NEW c \in Calls, ReadState(c)  PROVE AccountInv'
  BY <1>2, <1>4 DEF ReadState, Goto, cluster
<1>5. ASSUME NEW c \in Calls, Decide(c)  PROVE AccountInv'
  BY <1>2, <1>5 DEF Decide, Goto, cluster
<1>6. ASSUME NEW c \in Calls, PatchState(c)  PROVE AccountInv'
  BY <1>2, <1>6 DEF PatchState, Goto
<1>7. ASSUME NEW c \in Calls, Fail(c)  PROVE AccountInv'
  BY <1>2, <1>7 DEF Fail, Goto, cluster, InProgress, Answers, AuditOutcomes
<1>8. ASSUME NEW c \in Calls, PatchDeployment(c)  PROVE AccountInv'
  <2>1. /\ pc'[c] = "record" /\ \A d \in Calls : d # c => pc'[d] = pc[d]
        /\ UNCHANGED <<events, now>> /\ rollouts' \subseteq rollouts \cup {now[c]}
        /\ pc[c] = "restart"
    BY <1>8 DEF PatchDeployment, Goto, GatewayTypes
  <2>2. c \notin events["allowed"] /\ events["allowed"] \subseteq Calls
    BY <2>1 DEF AccountInv, GatewayTypes, AuditOutcomes
  <2>3. AccountsFor(c, now[c])'
    BY <2>1 DEF AccountsFor
  <2>4. \A d \in Calls, t \in rollouts : AccountsFor(d, t) => AccountsFor(d, t)'
    BY <2>1, <2>2 DEF AccountsFor
  <2>5. QED  BY <2>1, <2>2, <2>3, <2>4 DEF AccountInv
<1>9. ASSUME NEW c \in Calls, NEW o \in AuditOutcomes, Audit(c, o)  PROVE AccountInv'
  <2>1. /\ pc'[c] = o /\ \A d \in Calls : d # c => pc'[d] = pc[d]
        /\ UNCHANGED <<now, rollouts>> /\ pc[c] = AuditPc[o]
        /\ events' = [events EXCEPT ![o] = events[o] \cup {c}]
    BY <1>9 DEF Audit, Goto, GatewayTypes
  <2>2. /\ pc[c] \in {"auditAllowed", "auditCooldown", "auditDenied"}
        /\ pc[c] = "auditAllowed" => o = "allowed"
    BY <2>1 DEF AuditPc, AuditOutcomes
  <2>3. /\ events'["allowed"] = IF o = "allowed" THEN events["allowed"] \cup {c}
                                                ELSE events["allowed"]
        /\ c \notin events["allowed"] /\ events["allowed"] \subseteq Calls
    BY <2>1, <2>2 DEF AccountInv, GatewayTypes, AuditOutcomes
  <2>4. \A d \in Calls, t \in rollouts : AccountsFor(d, t) => AccountsFor(d, t)'
    BY <2>1, <2>2, <2>3 DEF AccountsFor
  <2>5. \A d \in events'["allowed"] : pc'[d] = "allowed"
    BY <2>1, <2>3 DEF AccountInv
  <2>6. QED  BY <2>1, <2>4, <2>5, StillAccounted
<1>10. QED
  BY <1>1, <1>3, <1>4, <1>5, <1>6, <1>7, <1>8, <1>9 DEF GatewayNext

(* No restart goes without an Event unnoticed, whatever overlaps or fails; *)
(* calls in turn leave one Event per rollout, where there is a cooldown at *)
(* all: values.yaml sets 300 s, and with 0 two restarts in one second are  *)
(* one rollout and two Events.                                             *)
THEOREM RestartsAudited == Cooldown # 0 => (GatewaySpec => []RestartsAreAudited)
<1>1. Cooldown # 0 /\ GatewayInv /\ AccountInv => RestartsAreAudited
  <2> SUFFICES ASSUME Cooldown # 0, GatewayInv, AccountInv,
                      undisturbed, \A c \in Calls : ~InProgress(c)
               PROVE  /\ Cardinality(rollouts) = Cardinality(events["allowed"])
                      /\ \A c \in Calls : pc[c] \in AuditOutcomes =>
                           \A o \in AuditOutcomes : c \in events[o] <=> pc[c] = o
    BY DEF RestartsAreAudited, AccountInv
  <2>1. AuditInv
    BY DEF GatewayInv, CallsInv
  <2>2. ~Owing
    BY DEF Owing, InProgress, Answers, AuditOutcomes
  <2>3. Cardinality(events["allowed"]) \in Nat
    BY <2>1, FS_CardinalityType DEF AuditInv
  <2>4. QED  BY <2>1, <2>2, <2>3 DEF AuditInv
<1> SUFFICES ASSUME Cooldown # 0  PROVE GatewaySpec => []RestartsAreAudited
  OBVIOUS
<1>2. GatewayInv /\ AccountInv => RestartsAreAudited
  BY <1>1
<1>3. GatewayInit => AccountInv
  BY DEF GatewayInit, AccountInv, AuditOutcomes
<1>4. GatewayInv /\ AccountInv /\ [GatewayNext]_gwVars => (GatewayInv /\ AccountInv)'
  BY GatewayInvStep, AccountStep DEF GatewayInv
<1>5. QED  BY <1>2, <1>3, <1>4, GatewayInitInv, PTL DEF GatewaySpec

=============================================================================
