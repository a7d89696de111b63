------------------------------ MODULE RegtestDrill ------------------------------
(***************************************************************************)
(* The regtest recovery drill: ops/prepare-, finish- and abort-regtest-    *)
(* recovery and ops/reset-recovered-regtest stop lnd-0, raise a copy of it *)
(* from its seed in a namespace of its own, and put it away again.  Each   *)
(* is a shell script (set -e) that may be killed, or fail, between two     *)
(* commands.  A person runs them one at a time; ops/deploy may run in      *)
(* another terminal.                                                       *)
(*                                                                         *)
(* Abstractions.  A wallet is a number and stands for the PVC and the      *)
(* identity in it.  The backups, the peer, the channel and the network     *)
(* policies are the freedom to refuse.  No script reads the evidence       *)
(* verify writes: it is left out.                                          *)
(***************************************************************************)
EXTENDS Naturals

CONSTANTS
  MaxWallets,  \* bound: times the regtest namespace is made from nothing
  Missing

ASSUME DrillAssumption == MaxWallets \in Nat \ {0} /\ Missing \notin 0..MaxWallets

Other == 0  \* the identity of a seed that was not this wallet's

VARIABLES
  original,   \* lnd-regtest: ns, the label lnd-ops-recovery=started, lnd-0's
              \* replicas, is its Pod there, its wallet
  copy,       \* lnd-regtest-recovery: ns, the wallet in its annotations,
              \* replicas (Missing: no StatefulSet), Pod, is the backup in it,
              \* the identity restored, is that identity's channel settled
  script,     \* the running script and what it does next
  exit,       \* the last script that ended, and how
  deployment, \* ops/deploy: none or guarded
  stale       \* history: a deployment's guard was read before the label
              \* that is set now

drillVars == <<original, copy, script, exit, deployment, stale>>

NoCopy == [ns |-> "absent", record |-> Missing, replicas |-> Missing, pod |-> FALSE,
           backup |-> FALSE, identity |-> Missing, settled |-> FALSE]

NoScript == <<"none", "none">>

DrillInit ==
  /\ original = [ns |-> "present", marked |-> FALSE, replicas |-> 1, pod |-> TRUE, wallet |-> 1]
  /\ copy = NoCopy
  /\ script = NoScript /\ exit = NoScript
  /\ deployment = "none" /\ stale = FALSE

-----------------------------------------------------------------------------
(* A script starts, goes on, and ends. *)

Starts(name, first) ==
  /\ script = NoScript /\ script' = <<name, first>>
  /\ UNCHANGED <<original, copy, exit, deployment, stale>>

\* A step that is one kubectl or helm command.
At(name, step)   == script = <<name, step>>
Then(name, step) == script' = <<name, step>> /\ UNCHANGED exit
EndsAs(name, e)  == script' = NoScript /\ exit' = <<name, e>>

-----------------------------------------------------------------------------
(* prepare-regtest-recovery. *)

PrepareStarts ==
  /\ copy.ns = "absent" /\ ~original.marked
  /\ original.ns = "present" /\ original.pod
  /\ Starts("prepare", "create")

CreateNamespace ==
  /\ At("prepare", "create")
  /\ copy.ns = "absent" /\ copy' = [copy EXCEPT !.ns = "present"]
  /\ Then("prepare", "annotate")
  /\ UNCHANGED <<original, deployment, stale>>

Annotate ==
  /\ At("prepare", "annotate")
  /\ copy' = [copy EXCEPT !.record = original.wallet]
  /\ Then("prepare", "label")
  /\ UNCHANGED <<original, deployment, stale>>

Label ==
  /\ At("prepare", "label")
  /\ original' = [original EXCEPT !.marked = TRUE]
  /\ stale' = (deployment = "guarded")
  /\ Then("prepare", "stop")
  /\ UNCHANGED <<copy, deployment>>

StopOriginal ==
  /\ At("prepare", "stop")
  /\ original' = [original EXCEPT !.replicas = 0]
  /\ Then("prepare", "wait")
  /\ UNCHANGED <<copy, deployment, stale>>

OriginalIsGone ==
  /\ At("prepare", "wait") /\ ~original.pod
  /\ Then("prepare", "install")
  /\ UNCHANGED <<original, copy, deployment, stale>>

InstallCopy ==
  /\ At("prepare", "install")
  /\ copy' = [copy EXCEPT !.replicas = 1]
  /\ Then("prepare", "backup")
  /\ UNCHANGED <<original, deployment, stale>>

CopyBackup ==
  /\ At("prepare", "backup") /\ copy.pod
  /\ copy' = [copy EXCEPT !.backup = TRUE]
  /\ EndsAs("prepare", "ok")
  /\ UNCHANGED <<original, deployment, stale>>

-----------------------------------------------------------------------------
(* The copy is put away: finish, abort and reset. *)

\* verify-regtest-recovery: no replica of the original is ready; its Pod may
\* still be there.
Verified ==
  /\ copy.ns # "absent" /\ original.ns = "present"
  /\ original.replicas = 0
  /\ copy.record = original.wallet
  /\ copy.pod /\ copy.backup
  /\ copy.identity = copy.record /\ copy.settled

FinishStarts ==
  /\ Verified /\ original.marked
  /\ Starts("finish", "stop")

AbortStarts ==
  /\ original.ns = "present" /\ original.marked
  /\ copy.ns # "absent" /\ copy.record = original.wallet
  /\ Starts("abort", "stop")

ResetStarts ==
  /\ Verified /\ original.marked
  /\ Starts("reset", "delete")

\* kubectl scale finds the StatefulSet.
StopCopy(name) ==
  /\ At(name, "stop") /\ copy.replicas # Missing
  /\ copy' = [copy EXCEPT !.replicas = 0]
  /\ Then(name, "wait")
  /\ UNCHANGED <<original, deployment, stale>>

\* It does not, and the script ends.
StopFails(name) ==
  /\ At(name, "stop") /\ copy.replicas = Missing
  /\ EndsAs(name, "failed")
  /\ UNCHANGED <<original, copy, deployment, stale>>

\* abort goes on where the Pod does not go (|| true).
CopyIsGone(name) ==
  /\ At(name, "wait")
  /\ name = "finish" => ~copy.pod
  /\ Then(name, "delete")
  /\ UNCHANGED <<original, copy, deployment, stale>>

DeleteCopy(name) ==
  /\ At(name, "delete")
  /\ copy' = IF copy.ns = "absent" THEN copy ELSE [copy EXCEPT !.ns = "terminating"]
  /\ Then(name, "drain")
  /\ UNCHANGED <<original, deployment, stale>>

\* Mutant: kubectl delete --wait=false.
CopyIsDeletedSoon(name) ==
  /\ At(name, "drain")
  /\ Then(name, IF name = "reset" THEN "discard" ELSE "unlabel")
  /\ UNCHANGED <<original, copy, deployment, stale>>

CopyIsDeleted(name) ==
  /\ At(name, "drain") /\ copy.ns = "absent"
  /\ Then(name, IF name = "reset" THEN "discard" ELSE "unlabel")
  /\ UNCHANGED <<original, copy, deployment, stale>>

Unlabel(name) ==
  /\ At(name, "unlabel")
  /\ original' = [original EXCEPT !.marked = FALSE]
  /\ stale' = FALSE
  /\ Then(name, "start")
  /\ UNCHANGED <<copy, deployment>>

StartOriginal(name) ==
  /\ At(name, "start")
  /\ original' = [original EXCEPT !.replicas = 1]
  /\ EndsAs(name, "ok")
  /\ UNCHANGED <<copy, deployment, stale>>

DeleteOriginal ==
  /\ At("reset", "discard")
  /\ original' = [original EXCEPT !.ns = "terminating"]
  /\ EndsAs("reset", "ok")
  /\ UNCHANGED <<copy, deployment, stale>>

\* Killed between two commands, or a command failed or timed out.
ScriptStops ==
  /\ script # NoScript /\ EndsAs(script[1], "stopped")
  /\ UNCHANGED <<original, copy, deployment, stale>>

-----------------------------------------------------------------------------
(* The other terminal, the person and the cluster. *)

\* ops/deploy regtest reads the label, and much later upgrades the release,
\* which sets the replicas that a scale had changed.
DeploymentGuard ==
  /\ deployment = "none"
  /\ ~original.marked
  /\ deployment' = "guarded"
  /\ UNCHANGED <<original, copy, script, exit, stale>>

DeploymentUpgrades ==
  /\ deployment = "guarded" /\ deployment' = "none"
  /\ \/ /\ original.ns = "present"
        /\ original' = [original EXCEPT !.replicas = 1]
     \/ /\ original.ns = "absent" /\ original.wallet < MaxWallets
        /\ original' = [ns |-> "present", marked |-> FALSE, replicas |-> 1, pod |-> FALSE,
                        wallet |-> original.wallet + 1]
     \/ UNCHANGED original  \* it is stopped, or the namespace is going
  /\ UNCHANGED <<copy, script, exit, stale>>

\* restore-regtest-recovery-wallet, with this wallet's seed or another.
RestoreWallet ==
  /\ copy.pod /\ copy.identity = Missing
  /\ \E seed \in {copy.record, Other} : copy' = [copy EXCEPT !.identity = seed]
  /\ UNCHANGED <<original, script, exit, deployment, stale>>

\* The peer closes the channel and the funds are swept.
ChannelSettles ==
  /\ copy.pod /\ copy.identity = copy.record /\ ~copy.settled
  /\ copy' = [copy EXCEPT !.settled = TRUE]
  /\ UNCHANGED <<original, script, exit, deployment, stale>>

PodsFollow ==
  /\ \/ /\ original.ns = "present" /\ original.pod # (original.replicas = 1)
        /\ original' = [original EXCEPT !.pod = ~@]
        /\ UNCHANGED copy
     \/ /\ copy.ns = "present" /\ copy.pod # (copy.replicas = 1)
        /\ copy' = [copy EXCEPT !.pod = ~@]
        /\ UNCHANGED original
  /\ UNCHANGED <<script, exit, deployment, stale>>

\* A namespace goes when everything in it has gone.
NamespaceGoes ==
  /\ \/ /\ copy.ns = "terminating"
        /\ copy' = IF copy.replicas # Missing
                     THEN [copy EXCEPT !.replicas = Missing, !.pod = FALSE] ELSE NoCopy
        /\ UNCHANGED <<original, stale>>
     \/ /\ original.ns = "terminating"
        /\ original' = [original EXCEPT !.ns = "absent", !.marked = FALSE,
                                        !.replicas = 0, !.pod = FALSE]
        /\ stale' = FALSE
        /\ UNCHANGED copy
  /\ UNCHANGED <<script, exit, deployment>>

DrillNext ==
  \/ PrepareStarts \/ CreateNamespace \/ Annotate \/ Label \/ StopOriginal
  \/ OriginalIsGone \/ InstallCopy \/ CopyBackup
  \/ FinishStarts \/ AbortStarts \/ ResetStarts
  \/ \E name \in {"finish", "abort"} :
       StopCopy(name) \/ StopFails(name) \/ CopyIsGone(name) \/ Unlabel(name) \/ StartOriginal(name)
  \/ \E name \in {"finish", "abort", "reset"} : DeleteCopy(name) \/ CopyIsDeleted(name)
  \/ DeleteOriginal \/ ScriptStops
  \/ DeploymentGuard \/ DeploymentUpgrades
  \/ RestoreWallet \/ ChannelSettles \/ PodsFollow \/ NamespaceGoes

DrillSpec == DrillInit /\ [][DrillNext]_drillVars

-----------------------------------------------------------------------------
(* Properties. *)

\* "Never restart the original and recovered copies of the same identity
\* concurrently" (docs/regtest-runbook.md:113): wherever the scripts stopped,
\* whatever is run next and however long Pods and namespaces take to go, one
\* wallet runs in one Pod, except through a deployment that read the label
\* before it was set.
OneLiveCopy ==
  original.pod /\ copy.pod /\ copy.identity = original.wallet => stale

\* The abort command "deletes only the disposable recovery namespace, and
\* resumes the preserved original StatefulSet" (docs/regtest-runbook.md:132-133):
\* past its checks, and not stopped from outside, it does not end and leave the
\* original stopped.
AbortResumes == exit = <<"abort", "failed">> => original.replicas = 1

=============================================================================
