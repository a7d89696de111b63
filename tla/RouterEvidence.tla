----------------------------- MODULE RouterEvidence -----------------------------
(***************************************************************************)
(* Evidence that the Router survived a host reboot or a change of address: *)
(* the external check a person runs from another network                   *)
(* (ops/router_observation.py), and the baseline, the change and the       *)
(* verification of ops/router_recovery.py and                              *)
(* ops/router_address_recovery.py, judged again later by the report.       *)
(*                                                                         *)
(* Abstractions.  A request is its issue time, wallet and endpoint: the    *)
(* nonce is as new as the time, for no request is issued before the last   *)
(* one expired.  A boot is its time.  The result of a check is its request *)
(* and the time it was made.  A capture reads LND first and everything     *)
(* else at one later moment.  Clocks agree; formats are left out.          *)
(***************************************************************************)
EXTENDS FiniteSets, Naturals

CONSTANTS
  MaxAge,     \* 600 s: a request and what was checked with it
  MaxClock,   \* bound
  MaxChanges, \* bound: how often the world changes
  None

ASSUME EvidenceAssumption == {MaxAge, MaxClock, MaxChanges} \subseteq Nat \ {0}

Kinds == {"host", "address"}

\* What a pass says is the same after as before, and all that is recorded.
Kept  == {"host", "wallet", "volume", "channels"}
Parts == Kept \cup {"boot", "guest", "address", "endpoint"}

VARIABLES
  clock,
  world,    \* each part as it is; forwarded: the guest address the public
            \* endpoint leads to; up: is LND unlocked and ready?
  changes,  \* history: which part changed when
  request,  \* p2p-request.json
  checked,  \* the result on the checker's machine
  receipt,  \* p2p-observation.json
  pending,  \* the baseline of each kind
  pass,     \* the latest passing record of each kind
  task      \* the prepare or verify that runs under recovery.lock

evVars == <<clock, world, changes, request, checked, receipt, pending, pass, task>>
evFiles == <<request, checked, receipt, pending, pass>>

EvidenceInit ==
  /\ clock = 1
  /\ world = [p \in Parts \cup {"forwarded", "up"} |-> IF p = "up" THEN TRUE ELSE 0]
  /\ changes = {}
  /\ request = None /\ checked = None /\ receipt = None
  /\ pending = [k \in Kinds |-> None] /\ pass = [k \in Kinds |-> None]
  /\ task = None

-----------------------------------------------------------------------------
(* The external check: issue a request, check from outside, import. *)

Issue ==
  /\ world.up
  /\ request # None => request.issued + MaxAge <= clock
  /\ request' = [issued |-> clock, wallet |-> world.wallet, endpoint |-> world.endpoint]
  /\ UNCHANGED <<clock, world, changes, checked, receipt, pending, pass, task>>

\* The checker meets the node it asks for, or no result comes of it.
Check ==
  /\ request # None /\ world.up
  /\ request.wallet = world.wallet /\ request.endpoint = world.endpoint
  /\ world.forwarded = world.address
  /\ checked' = [request |-> request, made |-> clock]
  /\ UNCHANGED <<clock, world, changes, request, receipt, pending, pass, task>>

\* router_observation.validate, for the node's wallet and endpoint.
ValidCheck(c, wallet, endpoint, now) ==
  /\ c.request.wallet = wallet /\ c.request.endpoint = endpoint
  /\ c.request.issued <= c.made /\ c.made <= now
  /\ now < c.request.issued + MaxAge

Import ==
  /\ checked # None /\ checked.request = request /\ world.up
  /\ ValidCheck(checked, world.wallet, world.endpoint, clock)
  /\ receipt' = checked
  /\ UNCHANGED <<clock, world, changes, request, checked, pending, pass, task>>

\* The receipt holds the result as it was imported, and is judged again.
CurrentReceipt(r, wallet, endpoint, now) ==
  r # None /\ ValidCheck(r, wallet, endpoint, now)

-----------------------------------------------------------------------------
(* Prepare and verify, each under recovery.lock. *)

\* The snapshot of verify-router, which begins a capture.
BeginTask(kind, op) ==
  /\ task = None /\ world.up
  /\ op = "prepare" <=> pending[kind] = None
  /\ task' = [kind |-> kind, op |-> op, wallet |-> world.wallet,
              channels |-> world.channels]
  /\ UNCHANGED <<clock, world, changes, evFiles>>

Observed ==
  [parts |-> [p \in Parts |-> IF p \in {"wallet", "channels"} THEN task[p] ELSE world[p]],
   at    |-> clock,
   check |-> IF task.kind = "address" THEN receipt ELSE None]

\* The rest of the capture: for an address, the receipt must be current.
Captures ==
  task.kind = "address" =>
    /\ world.up /\ world.wallet = task.wallet
    /\ CurrentReceipt(receipt, world.wallet, world.endpoint, clock)

Prepare ==
  /\ task # None /\ task.op = "prepare" /\ Captures
  /\ pending' = [pending EXCEPT ![task.kind] = Observed]
  /\ task' = None
  /\ UNCHANGED <<clock, world, changes, request, checked, receipt, pass>>

SameNode(before, after) ==
  /\ after.at > before.at
  /\ \A p \in Kept : before.parts[p] = after.parts[p]

\* Mutant: a new boot of the guest is taken for one of its host.
GuestRebooted(before, after) ==
  SameNode(before, after) /\ before.parts.guest # after.parts.guest

\* router_recovery.verify_pair.
HostRebooted(before, after) ==
  /\ SameNode(before, after)
  /\ after.parts.boot > before.at
  /\ before.parts.guest # after.parts.guest

\* Mutant: any check that is still current will do.
AnyCheck(before, after) == TRUE

\* The check of after was asked for once the baseline was saved.
NewCheck(before, after) ==
  /\ after.check.request.issued > before.at
  /\ after.check.request # before.check.request

\* router_address_recovery.verify_pair.
AddressRecovered(before, after) ==
  /\ \A o \in {before, after} :
       CurrentReceipt(o.check, o.parts.wallet, o.parts.endpoint, o.at)
  /\ SameNode(before, after)
  /\ \/ before.parts.endpoint # after.parts.endpoint
     \/ before.parts.address # after.parts.address
  /\ NewCheck(before, after)

Proves(kind, before, after) ==
  IF kind = "host" THEN HostRebooted(before, after) ELSE AddressRecovered(before, after)

\* The result is written first; the baseline is cleared by a second write.
Verify ==
  /\ task # None /\ task.op = "verify" /\ Captures
  /\ LET before == pending[task.kind] IN
       /\ Proves(task.kind, before, Observed)
       /\ pass' = [pass EXCEPT ![task.kind] = [before |-> before, after |-> Observed]]
  /\ task' = [task EXCEPT !.op = "clear"]
  /\ UNCHANGED <<clock, world, changes, request, checked, receipt, pending>>

ClearPending ==
  /\ task # None /\ task.op = "clear"
  /\ pending' = [pending EXCEPT ![task.kind] = None]
  /\ task' = None
  /\ UNCHANGED <<clock, world, changes, request, checked, receipt, pass>>

Cancel(kind) ==
  /\ task = None /\ pending[kind] # None
  /\ pending' = [pending EXCEPT ![kind] = None]
  /\ UNCHANGED <<clock, world, changes, request, checked, receipt, pass, task>>

\* Refused by a check, stopped or killed.
TaskEnds ==
  /\ task # None /\ task' = None
  /\ UNCHANGED <<clock, world, changes, evFiles>>

-----------------------------------------------------------------------------
(* The world. *)

\* Parts change together, each at most once in a unit of time.
Change(parts, now) ==
  /\ Cardinality(changes) < MaxChanges
  /\ \A p \in parts : [part |-> p, at |-> clock] \notin changes
  /\ changes' = changes \cup {[part |-> p, at |-> clock] : p \in parts}
  /\ world' = now
  /\ UNCHANGED <<clock, evFiles>>

\* The host boots and with it the guest; what ran is gone, the files are not.
HostBoots ==
  /\ Change({"boot", "guest"}, [world EXCEPT !.boot = clock, !.guest = @ + 1, !.up = FALSE])
  /\ task' = None

\* The state directory and the VM move to another machine.
HostReplaced ==
  /\ Change({"host", "boot", "guest"},
            [world EXCEPT !.host = @ + 1, !.boot = clock, !.guest = @ + 1, !.up = FALSE])
  /\ task' = None

\* The VM, or WSL, restarts alone.
GuestBoots ==
  /\ Change({"guest"}, [world EXCEPT !.guest = @ + 1, !.up = FALSE])
  /\ UNCHANGED task

\* An address changes between two values; channels and storage never return.
AddressChanges ==
  /\ \E p \in {"address", "endpoint"} :
       Change({p}, [world EXCEPT ![p] = 1 - @])
  /\ UNCHANGED task

KeptChanges ==
  /\ \/ \E p \in {"volume", "channels"} : Change({p}, [world EXCEPT ![p] = @ + 1])
     \/ Change({"wallet", "channels"},
               [world EXCEPT !.wallet = @ + 1, !.channels = @ + 1])
  /\ UNCHANGED task

\* A person unlocks the wallet, or sets the port forwarding right.
Restore ==
  /\ world' \in {[world EXCEPT !.up = TRUE], [world EXCEPT !.forwarded = world.address]}
  /\ UNCHANGED <<clock, changes, evFiles, task>>

ClockAdvances ==
  /\ clock < MaxClock /\ clock' = clock + 1
  /\ UNCHANGED <<world, changes, evFiles, task>>

CheckStep == Issue \/ Check \/ Import

EvidenceStep(kind) ==
  \/ Cancel(kind)
  \/ \E op \in {"prepare", "verify"} : BeginTask(kind, op)
  \/ Prepare \/ Verify \/ ClearPending \/ TaskEnds
  \/ HostBoots \/ HostReplaced \/ GuestBoots \/ AddressChanges \/ KeptChanges
  \/ Restore \/ ClockAdvances

EvidenceNext == CheckStep \/ \E kind \in Kinds : EvidenceStep(kind)

EvidenceSpec == EvidenceInit /\ [][EvidenceNext]_evVars

-----------------------------------------------------------------------------
\* historical(): the record, judged again, and compared with the node of now.
VerifiedHistory(kind) ==
  /\ pass[kind] # None /\ world.up
  /\ Proves(kind, pass[kind].before, pass[kind].after)
  /\ pass[kind].after.at <= clock
  /\ world.wallet = pass[kind].after.parts.wallet
  /\ world.channels = pass[kind].after.parts.channels

ChangedIn(parts, from, to) ==
  \E c \in changes : c.part \in parts /\ from <= c.at /\ c.at <= to

(* What the report shows as the recovery from a reboot is one: between the *)
(* baseline and the verification the host itself booted, not only its VM,  *)
(* and the Router of now still has the wallet and the channels that were   *)
(* there before.                                                           *)
RebootIsReal ==
  VerifiedHistory("host") =>
    LET r == pass["host"] IN
    /\ ChangedIn({"boot"}, r.before.at + 1, r.after.at)
    /\ ~ChangedIn({"host", "wallet", "volume"}, r.before.at + 1, r.after.at - 1)
    /\ ~ChangedIn({"wallet", "channels"}, r.before.at + 1, clock - 1)

(* What the report shows as the recovery from an address change had a      *)
(* change, and a check from outside that was made after the baseline, for  *)
(* the address and the wallet it shows; the result before is never reused. *)
AddressCheckIsNew ==
  VerifiedHistory("address") =>
    LET r == pass["address"]
        c == r.after.check IN
    /\ ChangedIn({"address", "endpoint"}, r.before.at, r.after.at)
    /\ c.made > r.before.at /\ c.made <= r.after.at
    /\ c.request.endpoint = r.after.parts.endpoint
    /\ c.request.wallet = world.wallet

(* docs/router-host-recovery.md:75 and ops/router-address-recovery:21 say  *)
(* that the outside check follows the change of address.                   *)
CheckFollowsChange ==
  pass["address"] # None =>
    LET r == pass["address"] IN
    ~ChangedIn({"address", "endpoint"}, r.after.check.made + 1, r.after.at)
=============================================================================
