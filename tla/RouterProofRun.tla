---------------------------- MODULE RouterProofRun ----------------------------
(***************************************************************************)
(* The controlled proof payment: ops/router-proof and                      *)
(* ops/router_proof_run.py.  One payment is sent from an external payer    *)
(* through this router to an external receiver, both operated by hand, and *)
(* its outcome becomes readiness evidence.  Runs of the command share the  *)
(* state directory, may be killed anywhere, and reach the payer over SSH.  *)
(*                                                                         *)
(* Abstractions.  An endpoint pair is one value of Ends (two pairs are two *)
(* pairs of wallets); the two channels of the path are one generation      *)
(* number; amount and fee are left to the preview comparison.  save's      *)
(* second file, proof-<id>.json, is never read and is left out.            *)
(***************************************************************************)
EXTENDS Naturals

CONSTANTS
  Procs,      \* runs of ops/router-proof
  Requests,   \* request ids
  Ends,       \* payer and receiver, as the operator types them
  MaxRoute,   \* bound: how often the path's channels are replaced
  None

ASSUME ProofAssumption ==
  /\ None \notin Requests \cup Ends
  /\ MaxRoute \in Nat

VARIABLES
  pay,        \* pay[r]: what became of the payment of request r
  route,      \* which pair of channels connects payer, router and receiver
  record,     \* proof-request.json
  endpoints,  \* proof-endpoints.json
  evidence,   \* the request that forwarding-proof.json proves
  lock,       \* the processes that hold operations.lock
  pc,
  mem,        \* the record a run holds in memory
  ends,       \* the endpoints a run talks to
  plan        \* the path its operator approved

network == <<pay, route>>
files == <<record, endpoints, evidence>>
vars == <<pay, route, record, endpoints, evidence, lock, pc, mem, ends, plan>>

-----------------------------------------------------------------------------

(* The states start refuses over and reconcile looks into.                 *)
Unresolved == {"paying", "uncertain", "verifying"}

Record == [id : Requests \cup {None},
           state : {"absent", "invoice_requested", "failed", "complete"} \cup Unresolved,
           ends : Ends \cup {None}, route : 0..MaxRoute]
NoRecord == [id |-> None, state |-> "absent", ends |-> None, route |-> 0]

(* odd: settled, but not as validate demands (two HTLCs, another route, a  *)
(* skewed clock, no single forwarding event to match).                     *)
PayStates == {"unsent", "inflight", "failed", "settled", "odd"}

Init ==
  /\ pay = [r \in Requests |-> "unsent"]
  /\ route = 0
  /\ record = NoRecord
  /\ endpoints = None
  /\ evidence = None
  /\ lock = {}
  /\ pc = [p \in Procs |-> "idle"]
  /\ mem = [p \in Procs |-> NoRecord]
  /\ ends = [p \in Procs |-> None]
  /\ plan = [p \in Procs |-> 0]

Goto(p, l) == pc' = [pc EXCEPT ![p] = l]

(* The run returns, raises or is killed.                                   *)
Leave(p) ==
  /\ lock' = lock \ {p}
  /\ Goto(p, "idle")
  /\ mem' = [mem EXCEPT ![p] = NoRecord]
  /\ ends' = [ends EXCEPT ![p] = None]
  /\ plan' = [plan EXCEPT ![p] = 0]

Save(p, R) ==
  /\ record' = R
  /\ mem' = [mem EXCEPT ![p] = R]
  /\ UNCHANGED <<endpoints, evidence>>

-----------------------------------------------------------------------------
(* main: the record is read without the lock.                              *)

Resume(p) ==      \* a pending record, or --resume
  /\ pc[p] = "idle"
  /\ endpoints # None
  /\ ends' = [ends EXCEPT ![p] = endpoints]
  /\ Goto(p, "resume")
  /\ UNCHANGED <<network, files, lock, mem, plan>>

Prompt(p) ==
  /\ pc[p] = "idle"
  /\ record.state \notin Unresolved
  /\ Goto(p, "prompt")
  /\ UNCHANGED <<network, files, lock, mem, ends, plan>>

Approve(p, e) ==
  /\ pc[p] = "prompt"
  /\ ends' = [ends EXCEPT ![p] = e]
  /\ plan' = [plan EXCEPT ![p] = route]
  /\ Goto(p, "approved")
  /\ UNCHANGED <<network, files, lock, mem>>

(* Before start has taken the lock or looked for a pending payment.        *)
WriteEndpoints(p) ==
  /\ pc[p] = "approved"
  /\ endpoints' = ends[p]
  /\ Goto(p, "start")
  /\ UNCHANGED <<network, record, evidence, lock, mem, ends, plan>>

-----------------------------------------------------------------------------
(* start.                                                                  *)

AcquireBusy(p, from, to) ==      \* as if the lock file were new   mutant
  /\ pc[p] = from
  /\ lock' = lock \cup {p}
  /\ mem' = [mem EXCEPT ![p] = record]
  /\ Goto(p, to)
  /\ UNCHANGED <<network, files, ends, plan>>

Acquire(p, from, to) ==
  /\ pc[p] = from
  /\ lock = {}
  /\ lock' = {p}
  /\ mem' = [mem EXCEPT ![p] = record]
  /\ Goto(p, to)
  /\ UNCHANGED <<network, files, ends, plan>>

Start(p) == Acquire(p, "start", "checked")

Fresh(r) == pay[r] = "unsent" /\ record.id # r

PreviewOnly(p, r) ==    \* the pending check is missing        mutant
  /\ pc[p] = "checked"
  /\ plan[p] = route
  /\ Fresh(r)
  /\ Save(p, [id |-> r, state |-> "invoice_requested", ends |-> ends[p], route |-> route])
  /\ Goto(p, "invoice")
  /\ UNCHANGED <<network, lock, ends, plan>>

RequestInvoice(p, r) ==
  /\ pc[p] = "checked"
  /\ mem[p].state \notin Unresolved
  /\ plan[p] = route
  /\ Fresh(r)
  /\ Save(p, [id |-> r, state |-> "invoice_requested", ends |-> ends[p], route |-> route])
  /\ Goto(p, "invoice")
  /\ UNCHANGED <<network, lock, ends, plan>>

(* The invoice is the approved one; anything else about it raises (Stop).  *)
SavePaying(p) ==
  /\ pc[p] = "invoice"
  /\ Save(p, [mem[p] EXCEPT !.state = "paying"])
  /\ Goto(p, "send")
  /\ UNCHANGED <<network, lock, ends, plan>>

SendPay(p) ==
  /\ pc[p] = "send"
  /\ pay' = [pay EXCEPT ![mem[p].id] = "inflight"]
  /\ Goto(p, "reply")
  /\ UNCHANGED <<route, files, lock, mem, ends, plan>>

Over == {"failed", "settled", "odd"}

(* lncli ended well: the payment is over.  The lock is let go, then        *)
(* reconcile takes it again.                                               *)
ReplyOk(p) ==
  /\ pc[p] = "reply" /\ pay[mem[p].id] \in Over
  /\ Save(p, [mem[p] EXCEPT !.state = "verifying"])
  /\ lock' = lock \ {p}
  /\ Goto(p, "resume")
  /\ UNCHANGED <<network, ends, plan>>

LossMeansFailed(p) ==                                       \* mutant
  /\ pc[p] = "reply"
  /\ record' = [mem[p] EXCEPT !.state = "failed"]
  /\ Leave(p)
  /\ UNCHANGED <<network, endpoints, evidence>>

(* Timeout, SSH failure, exit status, Ctrl-C.                              *)
ReplyLost(p) ==
  /\ pc[p] = "reply"
  /\ record' = [mem[p] EXCEPT !.state = "uncertain"]
  /\ Leave(p)
  /\ UNCHANGED <<network, endpoints, evidence>>

-----------------------------------------------------------------------------
(* reconcile.                                                              *)

Reconcile(p) == Acquire(p, "resume", "track")

(* The same three wallets, and both channels of the path still there.      *)
SamePath(p) == ends[p] = mem[p].ends /\ mem[p].route = route

TrackFailed(p) ==
  /\ pc[p] = "track" /\ mem[p].state \in Unresolved
  /\ SamePath(p)
  /\ pay[mem[p].id] = "failed"
  /\ record' = [mem[p] EXCEPT !.state = "failed"]
  /\ Leave(p)
  /\ UNCHANGED <<network, endpoints, evidence>>

SucceededIsEnough(p) ==      \* validate not called            mutant
  /\ pc[p] = "track" /\ mem[p].state \in Unresolved
  /\ SamePath(p)
  /\ pay[mem[p].id] \in {"settled", "odd"}
  /\ Save(p, [mem[p] EXCEPT !.state = "complete"])
  /\ Goto(p, "proof")
  /\ UNCHANGED <<network, lock, ends, plan>>

AnsweredOnly(p) ==      \* a lost answer is not looked into    mutant
  /\ pc[p] = "track" /\ mem[p].state = "verifying"
  /\ SamePath(p)
  /\ pay[mem[p].id] = "settled"
  /\ Save(p, [mem[p] EXCEPT !.state = "complete"])
  /\ Goto(p, "proof")
  /\ UNCHANGED <<network, lock, ends, plan>>

TrackSettled(p) ==
  /\ pc[p] = "track" /\ mem[p].state \in Unresolved
  /\ SamePath(p)
  /\ pay[mem[p].id] = "settled"
  /\ Save(p, [mem[p] EXCEPT !.state = "complete"])
  /\ Goto(p, "proof")
  /\ UNCHANGED <<network, lock, ends, plan>>

WriteProof(p) ==
  /\ pc[p] = "proof"
  /\ evidence' = mem[p].id
  /\ Leave(p)
  /\ UNCHANGED <<network, record, endpoints>>

(* Every check above that raises, the lock found taken, an operator who    *)
(* does not type PAY, reconcile with nothing pending, and being killed.    *)
Stop(p) ==
  /\ pc[p] # "idle"
  /\ Leave(p)
  /\ UNCHANGED <<network, files>>

-----------------------------------------------------------------------------
(* The outside world.                                                      *)

PaymentEnds(r) ==
  /\ pay[r] = "inflight"
  /\ \E outcome \in Over : pay' = [pay EXCEPT ![r] = outcome]
  /\ UNCHANGED <<route, files, lock, pc, mem, ends, plan>>

ReplaceRoute ==
  /\ route < MaxRoute
  /\ route' = route + 1
  /\ UNCHANGED <<pay, files, lock, pc, mem, ends, plan>>

Step(p) ==
  \/ WriteEndpoints(p) \/ Start(p) \/ SavePaying(p) \/ SendPay(p)
  \/ ReplyOk(p) \/ ReplyLost(p)
  \/ Reconcile(p) \/ TrackFailed(p) \/ TrackSettled(p) \/ WriteProof(p)
  \/ \E r \in Requests : RequestInvoice(p, r)
  \/ \E e \in Ends : Approve(p, e)

Next ==
  \/ \E p \in Procs : Resume(p) \/ Prompt(p) \/ Step(p) \/ Stop(p)
  \/ \E r \in Requests : PaymentEnds(r)
  \/ ReplaceRoute

Spec == Init /\ [][Next]_vars

(* A run goes on or ends (every RPC has a timeout, an abandoned prompt     *)
(* ends); the operator keeps retrying, and not every retry is cut short.   *)
Fairness ==
  /\ \A p \in Procs : WF_vars(Step(p) \/ Stop(p))
  /\ SF_vars(\E p \in Procs : Resume(p))
  /\ SF_vars(\E p \in Procs : Reconcile(p))
  /\ SF_vars(\E p \in Procs : TrackSettled(p))

LiveSpec == Spec /\ Fairness

-----------------------------------------------------------------------------
(* Properties.                                                             *)

PCs == {"idle", "resume", "prompt", "approved", "start", "checked", "invoice", "send",
        "reply", "track", "proof"}

TypeOK ==
  /\ pay \in [Requests -> PayStates]
  /\ route \in 0..MaxRoute
  /\ record \in Record
  /\ endpoints \in Ends \cup {None}
  /\ evidence \in Requests \cup {None}
  /\ lock \subseteq Procs /\ \A p, q \in lock : p = q
  /\ pc \in [Procs -> PCs]
  /\ mem \in [Procs -> Record]
  /\ ends \in [Procs -> Ends \cup {None}]
  /\ plan \in [Procs -> 0..MaxRoute]

(* The payment analogue of OneFundingAtATime (router_proof_run.py:1, an    *)
(* ambiguous outcome is never resent): at most one payment is on its way,  *)
(* and it is the one proof-request.json names.                             *)
OnePaymentAtATime ==
  \A r \in Requests : pay[r] = "inflight" => record.id = r /\ record.state \in Unresolved

(* forwarding-proof.json, which readiness believes, proves a payment that  *)
(* settled exactly as approved; and a recorded failure is a failure, so    *)
(* the new payment it permits is no second one.                            *)
EvidenceIsReal ==
  /\ evidence # None => pay[evidence] = "settled"
  /\ record.state = "complete" => pay[record.id] = "settled"
  /\ record.state = "failed" => pay[record.id] = "failed"

Ledger(r) ==
  IF record.id = r /\ record.state \in Unresolved
    THEN "open"
    ELSE CASE pay[r] = "unsent" -> "none"
           [] pay[r] = "failed" -> "refused"
           [] OTHER             -> "done"

Fate(r) == CASE pay[r] = "unsent"   -> "unsent"
             [] pay[r] = "inflight" -> "live"
             [] pay[r] = "failed"   -> "refused"
             [] OTHER               -> "done"

Flight == INSTANCE SingleFlight WITH
            Attempts <- Requests,
            ledger <- [r \in Requests |-> Ledger(r)],
            fate <- [r \in Requests |-> Fate(r)]

(* The proof payment implements SingleFlight: journaled before it is sent, *)
(* sent once, alone, and closed only by its own outcome.                   *)
ImplementsSingleFlight == Flight!Spec

Pending(r) == record.id = r /\ record.state \in Unresolved

(* As long as the recorded endpoints are those of the pending payment and  *)
(* its path stands, retrying does bring a settled payment's evidence.      *)
ResumeDecides ==
  \A r \in Requests :
    <>[](pay[r] = "settled" /\ endpoints = record.ends /\ record.route = route)
      => <>[]~Pending(r)

(* "Response loss triggers reconciliation of the same payment"             *)
(* (docs/phase2-router-runbook.md:234): while the path stands, a settled   *)
(* payment does not stay unresolved, whatever other runs are started.      *)
LossIsReconciled ==
  \A r \in Requests :
    <>[](pay[r] = "settled" /\ record.route = route) => <>[]~Pending(r)

=============================================================================
