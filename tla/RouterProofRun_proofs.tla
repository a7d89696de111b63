------------------------ MODULE RouterProofRun_proofs ------------------------
(***************************************************************************)
(* Proofs about RouterProofRun, for any number of runs, requests, endpoint *)
(* pairs and replacements of the path.                                     *)
(***************************************************************************)
EXTENDS RouterProofRun, TLAPS

(* The lock is held from the reading of the record to the last write, and  *)
(* let go between the answer and reconcile.                                *)
Locked == {"checked", "invoice", "send", "reply", "track", "proof"}
LockInv == \A p \in Procs : p \in lock <=> pc[p] \in Locked

(* Whatever the record says, it says of a request.                         *)
RecordInv == record.state # "absent" => record.id \in Requests

(* The holder's copy is the record, and how far its payment can be.        *)
Stage(p) ==
  /\ pc[p] \in Locked => mem[p] = record
  /\ pc[p] = "invoice" => record.state = "invoice_requested" /\ pay[record.id] = "unsent"
  /\ pc[p] = "send" => record.state = "paying" /\ pay[record.id] = "unsent"
  /\ pc[p] = "reply" => record.state = "paying" /\ pay[record.id] # "unsent"
  /\ pc[p] = "proof" => record.state = "complete"

StageInv == \A p \in Procs : Stage(p)

IInv ==
  TypeOK /\ LockInv /\ RecordInv /\ StageInv /\ OnePaymentAtATime /\ EvidenceIsReal

-----------------------------------------------------------------------------
(* Types.                                                                  *)

(* Leaving keeps the types of what a run is made of.                       *)
LEMMA LeaveTypes == ASSUME TypeOK, NEW p \in Procs, Leave(p)
  PROVE /\ lock' \subseteq Procs /\ \A q, r \in lock' : q = r
        /\ pc' \in [Procs -> PCs]
        /\ mem' \in [Procs -> Record]
        /\ ends' \in [Procs -> Ends \cup {None}]
        /\ plan' \in [Procs -> 0..MaxRoute]
<1>1. NoRecord \in Record /\ 0 \in 0..MaxRoute
  BY ProofAssumption DEF NoRecord, Record, Unresolved
<1>2. QED  BY <1>1 DEF TypeOK, Leave, Goto, PCs

(* Saving a record keeps the types of the file and of the copy.            *)
LEMMA SaveTypes == ASSUME TypeOK, NEW p \in Procs, NEW R \in Record, Save(p, R)
  PROVE  /\ record' \in Record /\ mem' \in [Procs -> Record]
         /\ endpoints' \in Ends \cup {None} /\ evidence' \in Requests \cup {None}
BY DEF TypeOK, Save

(* A record moves to another of its states.                                *)
LEMMA MovedType ==
  ASSUME NEW R \in Record,
         NEW s \in {"absent", "invoice_requested", "failed", "complete"} \cup Unresolved
  PROVE  /\ [R EXCEPT !.state = s] \in Record
         /\ [R EXCEPT !.state = s].state = s /\ [R EXCEPT !.state = s].id = R.id
BY DEF Record

(* Every step keeps the types.                                             *)
LEMMA Types == ASSUME TypeOK, LockInv, RecordInv, StageInv, [Next]_vars  PROVE TypeOK'
<1> USE DEF network, files
<1>1. ASSUME NEW p \in Procs, Resume(p) \/ Prompt(p)  PROVE TypeOK'
  BY <1>1 DEF TypeOK, Resume, Prompt, Goto, PCs
<1>2. ASSUME NEW p \in Procs, NEW e \in Ends, Approve(p, e)  PROVE TypeOK'
  BY <1>2 DEF TypeOK, Approve, Goto, PCs
<1>3. ASSUME NEW p \in Procs, WriteEndpoints(p)  PROVE TypeOK'
  BY <1>3 DEF TypeOK, WriteEndpoints, Goto, PCs
<1>4. ASSUME NEW p \in Procs, Start(p) \/ Reconcile(p)  PROVE TypeOK'
  BY <1>4 DEF TypeOK, Start, Reconcile, Acquire, Goto, PCs
<1>5. ASSUME NEW p \in Procs, NEW r \in Requests, RequestInvoice(p, r)  PROVE TypeOK'
  <2> DEFINE R == [id |-> r, state |-> "invoice_requested", ends |-> ends[p], route |-> route]
  <2>1. R \in Record
    BY DEF TypeOK, Record
  <2>2. QED  BY <1>5, <2>1, SaveTypes DEF TypeOK, RequestInvoice, Goto, PCs
<1>6. ASSUME NEW p \in Procs, SavePaying(p) \/ TrackSettled(p)  PROVE TypeOK'
  <2>1. PICK s \in {"paying", "complete"} : Save(p, [mem[p] EXCEPT !.state = s])
    BY <1>6 DEF SavePaying, TrackSettled
  <2>2. [mem[p] EXCEPT !.state = s] \in Record
    BY MovedType DEF TypeOK, Unresolved
  <2>3. QED  BY <1>6, <2>1, <2>2, SaveTypes DEF TypeOK, SavePaying, TrackSettled, Goto, PCs
<1>7. ASSUME NEW p \in Procs, SendPay(p)  PROVE TypeOK'
  BY <1>7 DEF TypeOK, SendPay, Goto, PCs, PayStates
<1>8. ASSUME NEW p \in Procs, ReplyOk(p)  PROVE TypeOK'
  <2>1. [mem[p] EXCEPT !.state = "verifying"] \in Record
    BY MovedType DEF TypeOK, Unresolved
  <2>2. QED  BY <1>8, <2>1, SaveTypes DEF TypeOK, ReplyOk, Goto, PCs
<1>9. ASSUME NEW p \in Procs, ReplyLost(p) \/ TrackFailed(p)  PROVE TypeOK'
  <2>1. PICK s \in {"uncertain", "failed"} : record' = [mem[p] EXCEPT !.state = s]
    BY <1>9 DEF ReplyLost, TrackFailed
  <2>2. record' \in Record
    BY <2>1, MovedType DEF TypeOK, Unresolved
  <2>3. QED  BY <1>9, <2>2, LeaveTypes DEF TypeOK, ReplyLost, TrackFailed
<1>10. ASSUME NEW p \in Procs, WriteProof(p)  PROVE TypeOK'
  <2>1. evidence' \in Requests \cup {None}
    BY <1>10 DEF WriteProof, StageInv, Stage, Locked, TypeOK, Record
  <2>2. QED  BY <1>10, <2>1, LeaveTypes DEF TypeOK, WriteProof
<1>11. ASSUME NEW p \in Procs, Stop(p)  PROVE TypeOK'
  BY <1>11, LeaveTypes DEF TypeOK, Stop
<1>12. ASSUME NEW r \in Requests, PaymentEnds(r)  PROVE TypeOK'
  BY <1>12 DEF TypeOK, PaymentEnds, PayStates, Over
<1>13. CASE ReplaceRoute
  <2>1. route' \in 0..MaxRoute
    BY <1>13, ProofAssumption DEF TypeOK, ReplaceRoute
  <2>2. QED  BY <1>13, <2>1 DEF TypeOK, ReplaceRoute
<1>14. CASE UNCHANGED vars
  BY <1>14 DEF TypeOK, vars
<1>15. QED
  BY <1>1, <1>2, <1>3, <1>4, <1>5, <1>6, <1>7, <1>8, <1>9, <1>10, <1>11, <1>12, <1>13, <1>14
  DEF Next, Step

-----------------------------------------------------------------------------
(* The invariant, one lemma per kind of step.                              *)

(* One run is past the lock, and what it remembers is the record.          *)
LEMMA Holder == ASSUME IInv, NEW p \in Procs, pc[p] \in Locked
  PROVE  mem[p] = record /\ \A q \in Procs : q # p => pc[q] \notin Locked
BY DEF IInv, TypeOK, LockInv, StageInv, Stage

(* A run that leaves: the others are where they were.                      *)
LEMMA LeaveInv == ASSUME IInv, NEW p \in Procs, Leave(p)
  PROVE  /\ LockInv' /\ pc'[p] = "idle"
         /\ \A q \in Procs : q # p => pc'[q] = pc[q] /\ mem'[q] = mem[q]
BY DEF IInv, TypeOK, Leave, Goto, LockInv, Locked

(* A step before the lock, or the taking of it, changes no record and no   *)
(* payment.                                                                *)
LEMMA OutsideInv ==
  ASSUME IInv, NEW p \in Procs,
         \/ Resume(p) \/ Prompt(p) \/ WriteEndpoints(p) \/ \E e \in Ends : Approve(p, e)
         \/ Start(p) \/ Reconcile(p)
  PROVE  IInv' /\ UNCHANGED <<pay, record>>
<1> USE DEF IInv, network, files
<1>1. TypeOK'
  BY Types DEF Next, Step
<1>2. UNCHANGED <<pay, record, evidence>>
  BY DEF Resume, Prompt, WriteEndpoints, Approve, Start, Reconcile, Acquire
<1>3. \A q \in Procs : q # p => pc'[q] = pc[q] /\ mem'[q] = mem[q]
  BY DEF TypeOK, Resume, Prompt, WriteEndpoints, Approve, Start, Reconcile, Acquire, Goto
<1>4. LockInv' /\ (pc'[p] \in Locked => pc'[p] \in {"checked", "track"} /\ mem'[p] = record)
  <2>1. CASE Start(p) \/ Reconcile(p)
    BY <2>1, <1>3 DEF TypeOK, Start, Reconcile, Acquire, Goto, LockInv, Locked
  <2>2. CASE Resume(p) \/ Prompt(p) \/ WriteEndpoints(p) \/ \E e \in Ends : Approve(p, e)
    BY <2>2, <1>3 DEF TypeOK, Resume, Prompt, WriteEndpoints, Approve, Goto, LockInv, Locked
  <2>3. QED  BY <2>1, <2>2
<1>5. StageInv'
  BY <1>2, <1>3, <1>4 DEF StageInv, Stage, Locked
<1>6. RecordInv' /\ OnePaymentAtATime' /\ EvidenceIsReal'
  BY <1>2 DEF RecordInv, OnePaymentAtATime, EvidenceIsReal
<1>7. QED  BY <1>1, <1>2, <1>4, <1>5, <1>6

(* A new request is recorded over a record that is decided, so nothing is  *)
(* on its way.                                                             *)
LEMMA RequestInvoiceInv == ASSUME IInv, NEW p \in Procs, NEW r \in Requests, RequestInvoice(p, r)
  PROVE  /\ IInv' /\ UNCHANGED pay
         /\ record.state \notin Unresolved /\ record'.state \notin Unresolved
<1> USE DEF IInv, network, files
<1>1. TypeOK'
  BY Types DEF Next, Step
<1>2. /\ pc[p] = "checked" /\ mem[p] = record /\ record.state \notin Unresolved
      /\ \A q \in Procs : q # p => pc[q] \notin Locked
  BY Holder DEF RequestInvoice, Locked
<1>3. /\ record'.id = r /\ record'.state = "invoice_requested" /\ mem'[p] = record'
      /\ pay[r] = "unsent" /\ pc'[p] = "invoice" /\ UNCHANGED <<pay, lock, evidence>>
      /\ \A q \in Procs : q # p => pc'[q] = pc[q] /\ mem'[q] = mem[q]
  BY DEF TypeOK, RequestInvoice, Save, Fresh, Goto
<1>4. LockInv' /\ StageInv' /\ RecordInv'
  BY <1>2, <1>3 DEF LockInv, StageInv, Stage, Locked, RecordInv
<1>5. OnePaymentAtATime' /\ EvidenceIsReal'
  BY <1>2, <1>3 DEF OnePaymentAtATime, EvidenceIsReal
<1>6. QED  BY <1>1, <1>2, <1>3, <1>4, <1>5 DEF Unresolved

(* The payment is written down before it is sent.                          *)
LEMMA SavePayingInv == ASSUME IInv, NEW p \in Procs, SavePaying(p)
  PROVE  /\ IInv' /\ UNCHANGED pay /\ record.id \in Requests /\ pay[record.id] = "unsent"
         /\ record.state = "invoice_requested"
         /\ record'.id = record.id /\ record'.state = "paying"
<1> USE DEF IInv, network, files
<1>1. TypeOK'
  BY Types DEF Next, Step
<1>2. /\ pc[p] = "invoice" /\ mem[p] = record /\ pay[record.id] = "unsent"
      /\ record.state = "invoice_requested" /\ record.id \in Requests
      /\ \A q \in Procs : q # p => pc[q] \notin Locked
  BY Holder DEF SavePaying, Locked, StageInv, Stage, RecordInv
<1>3. /\ record'.id = record.id /\ record'.state = "paying" /\ mem'[p] = record'
      /\ pc'[p] = "send" /\ UNCHANGED <<pay, lock, evidence>>
      /\ \A q \in Procs : q # p => pc'[q] = pc[q] /\ mem'[q] = mem[q]
  BY <1>2, MovedType DEF TypeOK, SavePaying, Save, Goto, Unresolved
<1>4. LockInv' /\ StageInv' /\ RecordInv'
  BY <1>2, <1>3 DEF LockInv, StageInv, Stage, Locked, RecordInv
<1>5. OnePaymentAtATime' /\ EvidenceIsReal'
  BY <1>2, <1>3 DEF OnePaymentAtATime, EvidenceIsReal, Unresolved
<1>6. QED  BY <1>1, <1>2, <1>3, <1>4, <1>5

(* It is sent once: only a payment that was never sent is.                 *)
LEMMA SendPayInv == ASSUME IInv, NEW p \in Procs, SendPay(p)
  PROVE  /\ IInv' /\ UNCHANGED record /\ record.id \in Requests /\ pay[record.id] = "unsent"
         /\ record.state = "paying" /\ pay' = [pay EXCEPT ![record.id] = "inflight"]
<1> USE DEF IInv, network, files
<1>1. TypeOK'
  BY Types DEF Next, Step
<1>2. /\ pc[p] = "send" /\ mem[p] = record /\ pay[record.id] = "unsent"
      /\ record.state = "paying" /\ record.id \in Requests
      /\ \A q \in Procs : q # p => pc[q] \notin Locked
  BY Holder DEF SendPay, Locked, StageInv, Stage, RecordInv
<1>3. /\ pay' = [pay EXCEPT ![record.id] = "inflight"] /\ pc'[p] = "reply"
      /\ UNCHANGED <<record, lock, evidence, mem>>
      /\ \A q \in Procs : q # p => pc'[q] = pc[q]
  BY <1>2 DEF TypeOK, SendPay, Goto
<1>4. pay'[record.id] = "inflight" /\ \A r \in Requests : r # record.id => pay'[r] = pay[r]
  BY <1>2, <1>3 DEF TypeOK
<1>5. LockInv' /\ StageInv' /\ RecordInv'
  BY <1>2, <1>3, <1>4 DEF LockInv, StageInv, Stage, Locked, RecordInv
<1>6. OnePaymentAtATime'
  BY <1>2, <1>3, <1>4 DEF OnePaymentAtATime, Unresolved
<1>7. EvidenceIsReal'
  BY <1>2, <1>3, <1>4 DEF EvidenceIsReal, TypeOK
<1>8. QED  BY <1>1, <1>2, <1>3, <1>5, <1>6, <1>7

(* An answer, or none, moves the record among its unresolved states.       *)
LEMMA ReplyInv == ASSUME IInv, NEW p \in Procs, ReplyOk(p) \/ ReplyLost(p)
  PROVE  /\ IInv' /\ UNCHANGED pay /\ record'.id = record.id
         /\ record.state \in Unresolved /\ record'.state \in Unresolved
<1> USE DEF IInv, network, files
<1>1. TypeOK'
  BY Types DEF Next, Step
<1>2. /\ pc[p] = "reply" /\ mem[p] = record /\ record.state = "paying" /\ record.id \in Requests
      /\ \A q \in Procs : q # p => pc[q] \notin Locked
  BY Holder DEF ReplyOk, ReplyLost, Locked, StageInv, Stage, RecordInv
<1>3. PICK s \in {"verifying", "uncertain"} : record' = [mem[p] EXCEPT !.state = s]
  BY DEF ReplyOk, ReplyLost, Save
<1>4. record'.id = record.id /\ record'.state = s
  BY <1>2, <1>3, MovedType DEF TypeOK, Unresolved
<1>5. UNCHANGED <<pay, evidence>>
  BY DEF ReplyOk, ReplyLost, Save
<1>6. LockInv' /\ pc'[p] \notin Locked /\ \A q \in Procs : q # p => pc'[q] = pc[q]
  <2>1. CASE ReplyOk(p)
    BY <2>1 DEF ReplyOk, Goto, TypeOK, LockInv, Locked
  <2>2. CASE ReplyLost(p)
    BY <2>2, LeaveInv DEF ReplyLost, Locked
  <2>3. QED  BY <2>1, <2>2
<1>7. StageInv' /\ RecordInv'
  BY <1>2, <1>4, <1>6 DEF StageInv, Stage, Locked, RecordInv
<1>8. OnePaymentAtATime' /\ EvidenceIsReal'
  BY <1>2, <1>4, <1>5 DEF OnePaymentAtATime, EvidenceIsReal, Unresolved
<1>9. QED  BY <1>1, <1>2, <1>4, <1>5, <1>6, <1>7, <1>8 DEF Unresolved

(* reconcile closes the record with what became of its payment.            *)
LEMMA TrackInv == ASSUME IInv, NEW p \in Procs, TrackFailed(p) \/ TrackSettled(p)
  PROVE  /\ IInv' /\ UNCHANGED pay /\ record.id \in Requests /\ record'.id = record.id
         /\ record.state \in Unresolved /\ record'.state \notin Unresolved
         /\ pay[record.id] \in {"failed", "settled"}
<1> USE DEF IInv, network, files
<1>1. TypeOK'
  BY Types DEF Next, Step
<1>2. /\ pc[p] = "track" /\ mem[p] = record /\ record.state \in Unresolved
      /\ record.id \in Requests /\ \A q \in Procs : q # p => pc[q] \notin Locked
  BY Holder DEF TrackFailed, TrackSettled, Locked, RecordInv, Unresolved
<1>3. PICK s \in {"failed", "complete"} :
        /\ record' = [mem[p] EXCEPT !.state = s]
        /\ s = "failed" => pay[record.id] = "failed" /\ Leave(p)
        /\ s = "complete" => pay[record.id] = "settled" /\ mem'[p] = record' /\ UNCHANGED lock
                             /\ Goto(p, "proof")
                             /\ \A q \in Procs : q # p => mem'[q] = mem[q]
  BY <1>2 DEF TrackFailed, TrackSettled, Save, TypeOK
<1>4. record'.id = record.id /\ record'.state = s
  BY <1>2, <1>3, MovedType DEF TypeOK
<1>5. UNCHANGED <<pay, evidence>>
  BY DEF TrackFailed, TrackSettled, Save
<1>6. /\ LockInv' /\ \A q \in Procs : q # p => pc'[q] = pc[q] /\ mem'[q] = mem[q]
      /\ \/ pc'[p] = "idle"
         \/ s = "complete" /\ pc'[p] = "proof" /\ mem'[p] = record'
  <2>1. CASE s = "failed"
    BY <1>3, <2>1, LeaveInv
  <2>2. CASE s = "complete"
    BY <1>2, <1>3, <2>2 DEF Goto, TypeOK, LockInv, Locked
  <2>3. QED  BY <2>1, <2>2
<1>7. StageInv' /\ RecordInv'
  BY <1>2, <1>4, <1>6 DEF StageInv, Stage, Locked, RecordInv
<1>8. OnePaymentAtATime'
  <2> SUFFICES ASSUME NEW r \in Requests, pay[r] = "inflight"  PROVE FALSE
    BY <1>5 DEF OnePaymentAtATime
  <2>1. r = record.id
    BY DEF OnePaymentAtATime
  <2>2. QED  BY <1>3, <2>1
<1>9. EvidenceIsReal'
  BY <1>3, <1>4, <1>5 DEF EvidenceIsReal
<1>10. QED  BY <1>1, <1>2, <1>3, <1>4, <1>5, <1>7, <1>6, <1>8, <1>9 DEF Unresolved

(* The evidence is written from a complete record.                         *)
LEMMA WriteProofInv == ASSUME IInv, NEW p \in Procs, WriteProof(p)
  PROVE  IInv' /\ UNCHANGED <<pay, record>>
<1> USE DEF IInv, network, files
<1>1. TypeOK'
  BY Types DEF Next, Step
<1>2. /\ pc[p] = "proof" /\ mem[p] = record /\ record.state = "complete"
      /\ \A q \in Procs : q # p => pc[q] \notin Locked
  BY Holder DEF WriteProof, Locked, StageInv, Stage
<1>3. evidence' = record.id /\ Leave(p) /\ UNCHANGED <<pay, record>>
  BY <1>2 DEF WriteProof
<1>4. LockInv' /\ StageInv'
  BY <1>2, <1>3, LeaveInv DEF StageInv, Stage, Locked
<1>5. RecordInv' /\ OnePaymentAtATime' /\ EvidenceIsReal'
  BY <1>2, <1>3 DEF RecordInv, OnePaymentAtATime, EvidenceIsReal
<1>6. QED  BY <1>1, <1>3, <1>4, <1>5

(* A run killed anywhere leaves the files as they were.                    *)
LEMMA StopInv == ASSUME IInv, NEW p \in Procs, Stop(p)
  PROVE  IInv' /\ UNCHANGED <<pay, record>>
<1> USE DEF IInv, network, files
<1>1. TypeOK'
  BY Types DEF Next
<1>2. Leave(p) /\ UNCHANGED <<pay, record, evidence>>
  BY DEF Stop
<1>3. LockInv' /\ StageInv'
  BY <1>2, LeaveInv DEF StageInv, Stage, Locked
<1>4. RecordInv' /\ OnePaymentAtATime' /\ EvidenceIsReal'
  BY <1>2 DEF RecordInv, OnePaymentAtATime, EvidenceIsReal
<1>5. QED  BY <1>1, <1>2, <1>3, <1>4

(* The network decides a payment that is on its way.                       *)
LEMMA PaymentEndsInv == ASSUME IInv, NEW r \in Requests, PaymentEnds(r)
  PROVE  IInv' /\ UNCHANGED record
<1> USE DEF IInv, network, files
<1>1. TypeOK'
  BY Types DEF Next
<1>2. PICK outcome \in Over : pay' = [pay EXCEPT ![r] = outcome]
  BY DEF PaymentEnds
<1>3. /\ pay[r] = "inflight" /\ pay'[r] \in Over /\ \A q \in Requests : q # r => pay'[q] = pay[q]
      /\ UNCHANGED <<record, evidence, lock, pc, mem>>
  BY <1>2 DEF TypeOK, PaymentEnds
<1>4. record.id = r /\ record.state \in Unresolved
  BY <1>3 DEF OnePaymentAtATime
<1>5. LockInv' /\ RecordInv' /\ StageInv'
  BY <1>3, <1>4 DEF LockInv, RecordInv, StageInv, Stage, Unresolved, Over
<1>6. OnePaymentAtATime'
  BY <1>3 DEF OnePaymentAtATime
<1>7. EvidenceIsReal'
  BY <1>3, <1>4 DEF EvidenceIsReal, Unresolved, TypeOK
<1>8. QED  BY <1>1, <1>3, <1>5, <1>6, <1>7

(* Replacing the path, or doing nothing, disturbs nothing.                 *)
LEMMA RestInv == ASSUME IInv, ReplaceRoute \/ UNCHANGED vars
  PROVE  IInv' /\ UNCHANGED <<pay, record>>
<1>1. TypeOK'
  BY Types DEF IInv, Next
<1>2. UNCHANGED <<pay, record, endpoints, evidence, lock, pc, mem, ends, plan>>
  BY DEF ReplaceRoute, files, vars
<1>3. QED
  BY <1>1, <1>2 DEF IInv, LockInv, RecordInv, StageInv, Stage, OnePaymentAtATime, EvidenceIsReal

(* The invariant is inductive.                                             *)
LEMMA InitInv == Init => IInv
<1> SUFFICES ASSUME Init  PROVE IInv
  OBVIOUS
<1> USE DEF Init
<1>1. NoRecord \in Record /\ 0 \in 0..MaxRoute
  BY ProofAssumption DEF NoRecord, Record, Unresolved
<1>2. TypeOK
  BY <1>1 DEF TypeOK, PCs, PayStates
<1>3. LockInv /\ RecordInv /\ StageInv /\ OnePaymentAtATime /\ EvidenceIsReal
  BY DEF LockInv, Locked, RecordInv, StageInv, Stage, OnePaymentAtATime, EvidenceIsReal, NoRecord
<1>4. QED  BY <1>2, <1>3 DEF IInv

(* Every step keeps it.                                                    *)
LEMMA NextInv == IInv /\ [Next]_vars => IInv'
BY OutsideInv, RequestInvoiceInv, SavePayingInv, SendPayInv, ReplyInv, TrackInv, WriteProofInv,
   StopInv, PaymentEndsInv, RestInv DEF Next, Step

-----------------------------------------------------------------------------
(* The theorems.                                                           *)

(* Every reachable state is well typed.                                    *)
THEOREM Typing == Spec => []TypeOK
<1>1. IInv => TypeOK
  BY DEF IInv
<1>2. QED  BY InitInv, NextInv, <1>1, PTL DEF Spec

(* However many runs are started and killed, at most one payment is on its *)
(* way, and it is the one proof-request.json names.                        *)
THEOREM OneAtATime == Spec => []OnePaymentAtATime
<1>1. IInv => OnePaymentAtATime
  BY DEF IInv
<1>2. QED  BY InitInv, NextInv, <1>1, PTL DEF Spec

(* forwarding-proof.json proves a payment that settled as approved, and a  *)
(* recorded failure is one.                                                *)
THEOREM RealEvidence == Spec => []EvidenceIsReal
<1>1. IInv => EvidenceIsReal
  BY DEF IInv
<1>2. QED  BY InitInv, NextInv, <1>1, PTL DEF Spec

-----------------------------------------------------------------------------
(* The refinement.                                                         *)

(* What nobody touches is the same to the abstract specification.          *)
LEMMA Stutter ==
  ASSUME \A r \in Requests : Ledger(r)' = Ledger(r), \A r \in Requests : Fate(r)' = Fate(r)
  PROVE  UNCHANGED Flight!vars
BY DEF Flight!vars

(* Writing "paying" is the abstract intention.                             *)
LEMMA SavePayingIntends == ASSUME IInv, NEW p \in Procs, SavePaying(p)  PROVE Flight!Next
<1> DEFINE a == record.id
<1>1. /\ pay' = pay /\ a \in Requests /\ pay[a] = "unsent" /\ record.state = "invoice_requested"
      /\ record'.id = a /\ record'.state = "paying"
  BY SavePayingInv
<1>2. \A r \in Requests : Ledger(r) # "open"
  BY <1>1 DEF Ledger, Unresolved
<1>3. Ledger(a) = "none" /\ Ledger(a)' = "open"
  BY <1>1 DEF Ledger, Unresolved
<1>4. \A r \in Requests : r # a => Ledger(r)' = Ledger(r)
  BY <1>1 DEF Ledger
<1>5. \A r \in Requests : Fate(r)' = Fate(r)
  BY <1>1 DEF Fate
<1>6. Flight!Intend(a)
  BY <1>1, <1>2, <1>3, <1>4, <1>5 DEF Flight!Intend
<1>7. QED  BY <1>1, <1>6 DEF Flight!Next

(* sendpayment is the abstract sending.                                    *)
LEMMA SendPaySends == ASSUME IInv, NEW p \in Procs, SendPay(p)  PROVE Flight!Next
<1> DEFINE a == record.id
<1>1. /\ record' = record /\ a \in Requests /\ pay[a] = "unsent" /\ record.state \in Unresolved
      /\ pay' = [pay EXCEPT ![a] = "inflight"]
  BY SendPayInv DEF Unresolved
<1>2. pay'[a] = "inflight" /\ \A r \in Requests : r # a => pay'[r] = pay[r]
  BY <1>1 DEF IInv, TypeOK
<1>3. Fate(a) = "unsent" /\ Fate(a)' = "live" /\ Ledger(a) = "open"
  BY <1>1, <1>2 DEF Fate, Ledger
<1>4. \A r \in Requests : r # a => Fate(r)' = Fate(r)
  BY <1>2 DEF Fate
<1>5. \A r \in Requests : Ledger(r)' = Ledger(r)
  BY <1>1, <1>2 DEF Ledger
<1>6. Flight!Send(a)
  BY <1>1, <1>3, <1>4, <1>5 DEF Flight!Send
<1>7. QED  BY <1>1, <1>6 DEF Flight!Next

(* The network's verdict is the abstract one, and nobody hears of it yet.  *)
LEMMA PaymentEndsSettles == ASSUME IInv, NEW a \in Requests, PaymentEnds(a)  PROVE Flight!Next
<1>1. PICK outcome \in Over : pay' = [pay EXCEPT ![a] = outcome]
  BY DEF PaymentEnds
<1>2. /\ record' = record /\ pay[a] = "inflight" /\ pay'[a] \in Over
      /\ \A r \in Requests : r # a => pay'[r] = pay[r]
  BY <1>1, PaymentEndsInv DEF IInv, TypeOK, PaymentEnds
<1>3. record.id = a /\ record.state \in Unresolved
  BY <1>2 DEF IInv, OnePaymentAtATime
<1>4. \A r \in Requests : Ledger(r)' = Ledger(r)
  BY <1>2, <1>3 DEF Ledger
<1>5. Fate(a) = "live" /\ Fate(a)' \in {"done", "refused"}
  BY <1>2 DEF Fate, Over
<1>6. \A r \in Requests : r # a => Fate(r)' = Fate(r)
  BY <1>2 DEF Fate
<1>7. Flight!Settle(a)
  BY <1>4, <1>5, <1>6 DEF Flight!Settle, Flight!Outcomes
<1>8. QED  BY <1>7 DEF Flight!Next

(* reconcile learns the verdict of the payment on record, and no other.    *)
LEMMA TrackLearns == ASSUME IInv, NEW p \in Procs, TrackFailed(p) \/ TrackSettled(p)
  PROVE  Flight!Next
<1> DEFINE a == record.id
<1>1. /\ pay' = pay /\ a \in Requests /\ record'.id = a
      /\ record.state \in Unresolved /\ record'.state \notin Unresolved
      /\ pay[a] \in {"failed", "settled"}
  BY TrackInv
<1>2. Ledger(a) = "open" /\ Ledger(a)' = Fate(a) /\ Fate(a) \in {"done", "refused"}
  BY <1>1 DEF Ledger, Fate
<1>3. \A r \in Requests : r # a => Ledger(r)' = Ledger(r)
  BY <1>1 DEF Ledger
<1>4. \A r \in Requests : Fate(r)' = Fate(r)
  BY <1>1 DEF Fate
<1>5. Flight!Learn(a)
  BY <1>1, <1>2, <1>3, <1>4 DEF Flight!Learn, Flight!Outcomes
<1>6. QED  BY <1>1, <1>5 DEF Flight!Next

(* Every other step leaves the abstract state alone: a new request that is *)
(* not paid yet and a change among the unresolved states are no attempt.   *)
LEMMA OthersStutter ==
  ASSUME IInv,
         \/ UNCHANGED <<pay, record>>
         \/ UNCHANGED pay /\ record.state \notin Unresolved /\ record'.state \notin Unresolved
         \/ /\ UNCHANGED pay /\ record'.id = record.id
            /\ record.state \in Unresolved /\ record'.state \in Unresolved
  PROVE  UNCHANGED Flight!vars
<1>1. \A r \in Requests : Ledger(r)' = Ledger(r) /\ Fate(r)' = Fate(r)
  BY DEF Ledger, Fate
<1>2. QED  BY <1>1, Stutter

(* The proof payment implements the abstract single flight: each of its    *)
(* steps is an intention, a sending, a settlement, a learning or nothing.  *)
THEOREM Refinement == Spec => ImplementsSingleFlight
<1>1. Init => Flight!Init
  <2> SUFFICES ASSUME Init  PROVE Flight!Init
    OBVIOUS
  <2>1. \A r \in Requests : Ledger(r) = "none" /\ Fate(r) = "unsent"
    BY DEF Init, Ledger, Fate, NoRecord, Unresolved
  <2>2. QED  BY <2>1 DEF Flight!Init
<1>2. IInv /\ [Next]_vars => [Flight!Next]_(Flight!vars)
  BY OutsideInv, RequestInvoiceInv, SavePayingIntends, SendPaySends, ReplyInv, TrackLearns,
     WriteProofInv, StopInv, PaymentEndsSettles, RestInv, OthersStutter DEF Next, Step
<1>3. QED
  BY InitInv, NextInv, <1>1, <1>2, PTL DEF Spec, ImplementsSingleFlight, Flight!Spec

=============================================================================
