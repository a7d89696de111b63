------------------------ MODULE RouterChannels_proofs ------------------------
(***************************************************************************)
(* Proofs about RouterChannels, for any number of runs, requests, peers    *)
(* and approved capacities.                                                *)
(***************************************************************************)
EXTENDS RouterChannels, FiniteSetTheorems, TLAPS

(* Where a run holds operations.lock.                                      *)
Locked == PCs \ {"idle", "prompt", "approved"}

Decided == (Funded \ {"pending"}) \cup Refusals

(* What a record may say, given what LND did.                              *)
Evidence(R) ==
  /\ R.state = "absent" <=> R.id = NoRequest
  /\ R.state = "active" => lnd[R.id] \in Funded \ {"pending"}
  /\ R.state = "closed" => lnd[R.id] = "closed"
  /\ R.state = "rejected" => lnd[R.id] \in Refusals
  /\ R.txid \/ R.point => R.id \in Requests /\ lnd[R.id] \in Funded

LockInv == \A p \in Procs : p \in lock <=> pc[p] \in Locked

(* The copy in a lock holder's memory, against the journal on disk.        *)
Copy(p) ==
  /\ pc[p] \in {"observe", "classify", "send", "reply"} => journal.state \in Unresolved
  /\ pc[p] \in {"observe", "classify", "archive", "reconciled", "send", "reply"} =>
       rec[p] = journal
  /\ pc[p] \in {"journal", "archive"} => rec[p].id \in Requests /\ Evidence(rec[p])
  /\ pc[p] \in {"journal", "archive"} /\ after[p] = "send" =>
       lnd[rec[p].id] = "unsent" /\ rec[p].state = "submitting"
  /\ pc[p] = "journal" /\ after[p] = "send" =>
       journal.state \notin Unresolved /\ rec[p].id # journal.id
  /\ pc[p] = "journal" /\ after[p] # "send" =>
       journal.state \in Unresolved /\ rec[p].id = journal.id
  /\ pc[p] = "send" => lnd[rec[p].id] = "unsent" /\ archive[rec[p].id] # "absent"
  /\ pc[p] = "classify" /\ listed[p] => lnd[rec[p].id] \in Funded \ {"pending"}

CopyInv == \A p \in Procs : Copy(p)

(* Only the journal's request can be undecided; older ones are archived.   *)
SentInv ==
  \A r \in Requests :
    /\ lnd[r] # "unsent" => archive[r] # "absent"
    /\ r # journal.id => IF archive[r] = "absent" THEN lnd[r] = "unsent"
                                                 ELSE lnd[r] \in Decided

Safe == Evidence(journal) /\ CopyInv /\ SentInv

IInv == TypeOK /\ LockInv /\ Safe

-----------------------------------------------------------------------------

(* preview's count of open and pending channels is a number: the sets it   *)
(* counts are finite.                                                      *)
LEMMA CommittedIsNat == ASSUME TypeOK PROVE Committed \in Nat
<1>1. IsFiniteSet({r \in Requests : lnd[r] \in {"pending", "open"}})
  BY ChannelsAssumption, FS_Subset
<1>2. IsFiniteSet(inbound)
  BY ChannelsAssumption, FS_Subset DEF TypeOK
<1>3. QED  BY <1>1, <1>2, FS_CardinalityType DEF Committed

(* What one look at LND may write: the same request, and no verdict LND    *)
(* has not shown.                                                          *)
LEMMA ObservedIsEvident ==
  ASSUME TypeOK, NEW R \in Record, NEW inList \in BOOLEAN, NEW S \in Observed(R, inList)
  PROVE  /\ S \in Record /\ S.id = R.id
         /\ S.state \in Unresolved \cup {"active", "closed"}
         /\ S.txid = R.txid
         /\ S.state = "active" => inList
         /\ S.state = "closed" => lnd[R.id] = "closed"
         /\ S.point => R.point \/ inList \/ lnd[R.id] \in Pending
<1> DEFINE Seen(s) == [R EXCEPT !.state = s, !.point = TRUE]
<1>1. \/ S = Seen("active") /\ inList
      \/ S = Seen("broadcast") /\ lnd[R.id] \in Pending
      \/ S = Seen("closing") /\ lnd[R.id] \in Pending
      \/ S = Seen("closed") /\ R.point /\ lnd[R.id] = "closed"
      \/ S = [R EXCEPT !.state = "uncertain"]
  BY DEF Observed, Pending
<1>2. QED  BY <1>1 DEF Record, Unresolved, Resolved

(* The values that stand for an empty journal, no plan and a new request   *)
(* are of their types.                                                     *)
LEMMA BlankRecords ==
  /\ NoRecord \in Record /\ NoPlan \in Plan
  /\ \A r \in Requests, tiny \in BOOLEAN, cap \in Caps \cup {0} :
       /\ Unproven(r, "uncertain", tiny, cap) \in Record
       /\ Unproven(r, "submitting", tiny, cap) \in Record
BY DEF NoRecord, NoPlan, Record, Plan, Unproven, Unresolved, Resolved

(* The records a reply or an attestation makes of R.                       *)
LEMMA RecordUpdates ==
  ASSUME NEW R \in Record, NEW known \in BOOLEAN
  PROVE  /\ [R EXCEPT !.state = "broadcast", !.txid = TRUE, !.point = known] \in Record
         /\ [R EXCEPT !.state = "uncertain", !.txid = known] \in Record
         /\ [R EXCEPT !.state = "rejected"] \in Record
BY DEF Record, Unresolved, Resolved

(* What belongs to a run keeps its type when the run ends.                 *)
RunTypes ==
  /\ lock \subseteq Procs /\ \A p, q \in lock : p = q
  /\ pc \in [Procs -> PCs]
  /\ op \in [Procs -> {"look", "submit", "ack"}]
  /\ rec \in [Procs -> Record]
  /\ plan \in [Procs -> Plan]
  /\ listed \in [Procs -> BOOLEAN]
  /\ after \in [Procs -> {"reconciled", "send", "exit"}]

(* A run that returns, raises or dies leaves well-typed variables behind.  *)
LEMMA LeaveTypes == ASSUME TypeOK, NEW p \in Procs, Leave(p) PROVE RunTypes'
<1>1. lock' \subseteq Procs /\ \A x, q \in lock' : x = q
  BY DEF TypeOK, Leave
<1>2. pc' \in [Procs -> PCs]
  BY DEF TypeOK, Leave, PCs
<1>3. op' \in [Procs -> {"look", "submit", "ack"}]
  BY DEF TypeOK, Leave
<1>4. rec' \in [Procs -> Record]
  BY BlankRecords DEF TypeOK, Leave
<1>5. plan' \in [Procs -> Plan]
  BY BlankRecords DEF TypeOK, Leave
<1>6. listed' \in [Procs -> BOOLEAN]
  BY DEF TypeOK, Leave
<1>7. after' \in [Procs -> {"reconciled", "send", "exit"}]
  BY DEF TypeOK, Leave
<1>8. QED  BY <1>1, <1>2, <1>3, <1>4, <1>5, <1>6, <1>7 DEF RunTypes

(* The variables keep their types through every step.                      *)
LEMMA TypeStep == TypeOK /\ [Next]_vars => TypeOK'
<1> SUFFICES ASSUME TypeOK, [Next]_vars PROVE TypeOK'
  OBVIOUS
<1> USE DEF TypeOK, PCs, LndStates, Funded, Refusals, Goto, Save, lndVars, files,
            locals, vars
<1>1. ASSUME NEW p \in Procs, NEW o \in {"look", "submit", "ack"}, Begin(p, o)
      PROVE  TypeOK'
  BY <1>1 DEF Begin, LockFree
<1>2. ASSUME NEW p \in Procs, ListChannels(p) PROVE TypeOK'
  BY <1>2 DEF ListChannels
<1>3. ASSUME NEW p \in Procs, Classify(p) PROVE TypeOK'
  <2>1. PICK R \in Observed(rec[p], listed[p]) : Save(p, R, "reconciled")
    BY <1>3 DEF Classify
  <2>2. R \in Record
    BY ObservedIsEvident
  <2>3. QED  BY <1>3, <2>1, <2>2 DEF Classify
<1>4. ASSUME NEW p \in Procs, WriteJournal(p) PROVE TypeOK'
  BY <1>4 DEF WriteJournal
<1>5. ASSUME NEW p \in Procs, WriteArchive(p) PROVE TypeOK'
  <2>1. rec[p].state \in {"absent"} \cup Unresolved \cup Resolved
    BY DEF Record
  <2>2. CASE Leave(p)
    BY <1>5, <2>1, <2>2, LeaveTypes DEF WriteArchive, RunTypes
  <2>3. CASE after[p] # "exit"
    <3>1. pc' = [pc EXCEPT ![p] = after[p]] /\ after[p] \in PCs
      BY <1>5, <2>3 DEF WriteArchive
    <3>2. archive' \in [Requests -> {"absent"} \cup Unresolved \cup Resolved]
      BY <1>5, <2>1 DEF WriteArchive
    <3>3. UNCHANGED <<lnd, inbound, journal, lock, op, rec, plan, listed, after>>
      BY <1>5, <2>3 DEF WriteArchive
    <3>4. QED  BY <3>1, <3>2, <3>3
  <2>4. QED  BY <1>5, <2>2, <2>3 DEF WriteArchive
<1>6. ASSUME NEW p \in Procs, FinishLook(p) PROVE TypeOK'
  <2>1. CASE Leave(p)
    BY <1>6, <2>1, LeaveTypes DEF FinishLook, RunTypes
  <2>2. CASE ~ Leave(p)
    <3>1. /\ lock' = lock \ {p} /\ rec' = [rec EXCEPT ![p] = NoRecord]
          /\ pc' = [pc EXCEPT ![p] = "prompt"]
          /\ UNCHANGED <<lnd, inbound, journal, archive, op, plan, listed, after>>
      BY <1>6, <2>2 DEF FinishLook
    <3>2. QED  BY <3>1, BlankRecords
  <2>3. QED  BY <2>1, <2>2
<1>7. ASSUME NEW p \in Procs, NEW peer \in Peers, NEW cap \in Caps, Approve(p, peer, cap)
      PROVE  TypeOK'
  <2>1. \A summary \in Preview(peer, cap) : summary \in Plan
    BY CommittedIsNat DEF Preview, Plan
  <2>2. QED  BY <1>7, <2>1 DEF Approve
<1>8. ASSUME NEW p \in Procs, Refuse(p) \/ Stop(p) PROVE TypeOK'
  BY <1>8, LeaveTypes DEF Refuse, Stop, RunTypes
<1>9. ASSUME NEW p \in Procs, NEW r \in Requests, Submit(p, r) PROVE TypeOK'
  <2>1. plan[p].cap \in Caps \cup {0}
    BY DEF Plan
  <2>2. Unproven(r, "submitting", FALSE, plan[p].cap) \in Record /\ NoPlan \in Plan
    BY <2>1, BlankRecords
  <2>3. QED  BY <1>9, <2>2 DEF Submit
<1>10. ASSUME NEW p \in Procs, SendOpen(p) PROVE TypeOK'
  BY <1>10 DEF SendOpen
<1>11. ASSUME NEW p \in Procs, ReplyFunded(p) \/ ReplyRejected(p) \/ Attest(p) PROVE TypeOK'
  <2>1. ASSUME NEW R \in Record, Save(p, R, "exit"), UNCHANGED <<lndVars, files, lock, op, plan, listed>>
        PROVE  TypeOK'
    BY <2>1
  <2>2. CASE ReplyFunded(p)
    <3>1. PICK indexed \in BOOLEAN :
            Save(p, [rec[p] EXCEPT !.state = "broadcast", !.txid = TRUE, !.point = indexed],
                 "exit")
      BY <2>2 DEF ReplyFunded
    <3>2. [rec[p] EXCEPT !.state = "broadcast", !.txid = TRUE, !.point = indexed] \in Record
      BY RecordUpdates
    <3>3. QED  BY <2>1, <2>2, <3>1, <3>2 DEF ReplyFunded
  <2>3. CASE ReplyRejected(p) \/ Attest(p)
    <3>1. [rec[p] EXCEPT !.state = "rejected"] \in Record
      BY RecordUpdates
    <3>2. QED  BY <2>1, <2>3, <3>1 DEF ReplyRejected, Attest
  <2>4. QED  BY <1>11, <2>2, <2>3
<1>12. ASSUME NEW p \in Procs, ReplyLost(p) PROVE TypeOK'
  <2>1. PICK known \in BOOLEAN :
          Save(p, [rec[p] EXCEPT !.state = "uncertain", !.txid = known], "exit")
    BY <1>12 DEF ReplyLost
  <2>2. [rec[p] EXCEPT !.state = "uncertain", !.txid = known] \in Record
    BY RecordUpdates
  <2>3. QED  BY <1>12, <2>1, <2>2 DEF ReplyLost
<1>13. CASE Lightning
  BY <1>13 DEF Lightning, LndRefuses, LndFunds, LndConfirms, LndCloses, LndBecomes, RemoteOpens
<1>14. CASE UNCHANGED vars
  BY <1>14
<1>15. QED
  BY <1>1, <1>2, <1>3, <1>4, <1>5, <1>6, <1>7, <1>8, <1>9, <1>10, <1>11, <1>12, <1>13, <1>14
  DEF Next, Reconcile, Work

(* Both kinds of first state, with and without an old journal, are typed.  *)
LEMMA InitTypes == Init => TypeOK
<1> SUFFICES ASSUME Init PROVE TypeOK
  OBVIOUS
<1>1. /\ journal \in Record
      /\ archive \in [Requests -> {"absent"} \cup Unresolved \cup Resolved]
      /\ lnd \in [Requests -> LndStates]
  <2>1. CASE /\ journal = NoRecord
             /\ archive = [r \in Requests |-> "absent"]
             /\ lnd = [r \in Requests |-> "unsent"]
    BY <2>1, BlankRecords DEF LndStates
  <2>2. ASSUME NEW r \in Requests, NEW refusal \in Refusals,
               journal = Unproven(r, "uncertain", TRUE, 0),
               archive = [q \in Requests |-> IF q = r THEN "uncertain" ELSE "absent"],
               lnd = [q \in Requests |-> IF q = r THEN refusal ELSE "unsent"]
        PROVE  /\ journal \in Record
               /\ archive \in [Requests -> {"absent"} \cup Unresolved \cup Resolved]
               /\ lnd \in [Requests -> LndStates]
    BY <2>2, BlankRecords DEF LndStates, Unresolved
  <2>3. QED  BY <2>1, <2>2 DEF Init
<1>2. QED  BY <1>1, BlankRecords DEF Init, TypeOK, PCs

(* Type correctness, for every value of the constants.                     *)
THEOREM TypeCorrect == Spec => []TypeOK
BY InitTypes, TypeStep, PTL DEF Spec

-----------------------------------------------------------------------------
(* The inductive invariant.                                                *)

(* A run is outside the lock exactly where it is idle or asks its operator. *)
LEMMA LockStep == IInv /\ Next => LockInv'
<1> SUFFICES ASSUME IInv, Next PROVE LockInv'
  OBVIOUS
<1> USE DEF IInv, TypeOK, LockInv, Locked, PCs, Goto, Save, lndVars, files, locals
<1>1. ASSUME NEW p \in Procs, Leave(p) PROVE LockInv'
  BY <1>1 DEF Leave
<1>2. ASSUME NEW p \in Procs, pc[p] \in Locked, lock' = lock,
             NEW l \in Locked, pc' = [pc EXCEPT ![p] = l]
      PROVE  LockInv'
  BY <1>2
<1>3. ASSUME NEW p \in Procs, NEW o \in {"look", "submit", "ack"}, Begin(p, o)
      PROVE  LockInv'
  BY <1>3 DEF Begin, LockFree
<1>4. ASSUME NEW p \in Procs, WriteArchive(p) PROVE LockInv'
  <2>1. CASE after[p] = "exit"
    BY <1>1, <1>4, <2>1 DEF WriteArchive
  <2>2. CASE after[p] # "exit"
    BY <1>4, <2>2 DEF WriteArchive
  <2>3. QED  BY <2>1, <2>2
<1>5. ASSUME NEW p \in Procs, FinishLook(p) PROVE LockInv'
  <2>1. CASE rec[p].state \in Unresolved
    BY <1>1, <1>5, <2>1 DEF FinishLook
  <2>2. CASE rec[p].state \notin Unresolved
    BY <1>5, <2>2 DEF FinishLook
  <2>3. QED  BY <2>1, <2>2
<1>6. ASSUME NEW p \in Procs, ListChannels(p) \/ Classify(p) \/ WriteJournal(p) \/ SendOpen(p)
      PROVE  LockInv'
  <2>1. CASE ListChannels(p)
    BY <2>1 DEF ListChannels
  <2>2. CASE Classify(p)
    BY <2>2 DEF Classify
  <2>3. CASE WriteJournal(p)
    BY <2>3 DEF WriteJournal
  <2>4. CASE SendOpen(p)
    BY <2>4 DEF SendOpen
  <2>5. QED  BY <1>6, <2>1, <2>2, <2>3, <2>4
<1>7. ASSUME NEW p \in Procs, ReplyFunded(p) \/ ReplyRejected(p) \/ ReplyLost(p) \/ Attest(p)
      PROVE  LockInv'
  <2>1. CASE ReplyFunded(p)
    BY <2>1 DEF ReplyFunded
  <2>2. CASE ReplyRejected(p)
    BY <2>2 DEF ReplyRejected
  <2>3. CASE ReplyLost(p)
    BY <2>3 DEF ReplyLost
  <2>4. CASE Attest(p)
    BY <2>4 DEF Attest
  <2>5. QED  BY <1>7, <2>1, <2>2, <2>3, <2>4
<1>8. ASSUME NEW p \in Procs, NEW r \in Requests, Submit(p, r) PROVE LockInv'
  BY <1>8 DEF Submit
<1>9. ASSUME NEW p \in Procs, NEW peer \in Peers, NEW cap \in Caps, Approve(p, peer, cap)
      PROVE  LockInv'
  BY <1>9 DEF Approve
<1>10. ASSUME NEW p \in Procs, Refuse(p) \/ Stop(p) PROVE LockInv'
  BY <1>1, <1>10 DEF Refuse, Stop
<1>11. CASE Lightning
  BY <1>11 DEF Lightning, LndRefuses, LndFunds, LndConfirms, LndCloses, LndBecomes, RemoteOpens
<1>12. QED
  BY <1>3, <1>4, <1>5, <1>6, <1>7, <1>8, <1>9, <1>10, <1>11 DEF Next, Reconcile, Work

(* Whatever a lock holder changes, only its own copy can be disturbed.     *)
LEMMA HolderStep ==
  ASSUME TypeOK, TypeOK', LockInv, NEW p \in Procs, lock \subseteq {p},
         \A q \in Procs \ {p} : pc'[q] = pc[q], Copy(p)'
  PROVE  CopyInv'
<1> SUFFICES ASSUME NEW q \in Procs, q # p PROVE Copy(q)'
  BY DEF CopyInv
<1>1. pc'[q] \in {"idle", "prompt", "approved"}
  BY DEF LockInv, Locked, TypeOK, PCs
<1>2. QED  BY <1>1 DEF Copy

(* Between taking and leaving operations.lock a run is its only holder.    *)
LEMMA HolderIsAlone ==
  ASSUME TypeOK, LockInv, NEW p \in Procs, pc[p] \in Locked PROVE lock = {p}
BY DEF TypeOK, LockInv

(* A step that leaves LND and the files alone, but for p's own memory.     *)
LEMMA QuietStep ==
  ASSUME Safe, NEW p \in Procs, UNCHANGED <<lnd, journal, archive>>,
         \A q \in Procs \ {p} : /\ pc'[q] = pc[q] /\ rec'[q] = rec[q]
                                /\ listed'[q] = listed[q] /\ after'[q] = after[q],
         Copy(p)'
  PROVE  Safe'
<1>1. Evidence(journal)' /\ SentInv'
  BY DEF Safe, Evidence, SentInv
<1>2. ASSUME NEW q \in Procs, q # p PROVE Copy(q)'
  BY <1>2 DEF Safe, CopyInv, Copy, Evidence
<1>3. QED  BY <1>1, <1>2 DEF Safe, CopyInv

(* A step that leaves p outside the lock with nothing in its memory.       *)
LEMMA DropStep ==
  ASSUME TypeOK, Safe, NEW p \in Procs, UNCHANGED <<lnd, journal, archive>>,
         Leave(p) \/ FinishLook(p) \/ \E peer \in Peers, cap \in Caps : Approve(p, peer, cap)
  PROVE  Safe'
<1>1. pc'[p] \in {"idle", "prompt", "approved"}
  BY DEF TypeOK, Leave, FinishLook, Approve, Goto
<1>2. \A q \in Procs \ {p} : /\ pc'[q] = pc[q] /\ rec'[q] = rec[q]
                             /\ listed'[q] = listed[q] /\ after'[q] = after[q]
  BY DEF TypeOK, Leave, FinishLook, Approve, Goto, locals
<1>3. Copy(p)'
  BY <1>1 DEF Copy
<1>4. QED  BY <1>2, <1>3, QuietStep

(* A new word on the journal's own request, on its way to the disk.        *)
LEMMA VerdictStep ==
  ASSUME TypeOK, Safe, NEW p \in Procs, NEW R, NEW next \in {"reconciled", "exit"},
         Save(p, R, next), UNCHANGED <<lnd, journal, archive>>,
         \A q \in Procs \ {p} : listed'[q] = listed[q],
         journal.state \in Unresolved, R.id = journal.id, Evidence(R),
         R.id \in Requests
  PROVE  Safe'
<1>1. pc'[p] = "journal" /\ rec'[p] = R /\ after'[p] = next
  BY DEF TypeOK, Save, Goto
<1>2. \A q \in Procs \ {p} : pc'[q] = pc[q] /\ rec'[q] = rec[q] /\ after'[q] = after[q]
  BY DEF TypeOK, Save, Goto
<1>3. Evidence(rec[p])'
  BY <1>1 DEF Evidence
<1>4. Copy(p)'
  BY <1>1, <1>3 DEF Copy
<1>5. QED  BY <1>2, <1>4, QuietStep

(* An unresolved journal names a request.                                  *)
LEMMA Named ==
  ASSUME TypeOK, Safe, journal.state \in Unresolved PROVE journal.id \in Requests
BY DEF TypeOK, Safe, Evidence, Record, Unresolved

(* Taking the lock and reading the journal gives a run a true copy of it.  *)
LEMMA BeginStep ==
  ASSUME IInv, TypeOK', NEW p \in Procs, NEW o \in {"look", "submit", "ack"}, Begin(p, o)
  PROVE  Safe'
<1>1. /\ pc'[p] = (IF journal.state \in Unresolved THEN "observe" ELSE "reconciled")
      /\ rec'[p] = journal
      /\ UNCHANGED <<lnd, journal, archive>>
  BY DEF Begin, Goto, IInv, TypeOK, files, lndVars
<1>2. \A q \in Procs \ {p} : /\ pc'[q] = pc[q] /\ rec'[q] = rec[q]
                             /\ listed'[q] = listed[q] /\ after'[q] = after[q]
  BY DEF Begin, Goto, IInv, TypeOK
<1>3. Copy(p)'
  BY <1>1 DEF Copy
<1>4. QED  BY <1>1, <1>2, <1>3, QuietStep DEF IInv

(* What listchannels showed stays evidence: a listed channel was funded.   *)
LEMMA ListStep == ASSUME IInv, NEW p \in Procs, ListChannels(p) PROVE Safe'
<1>1. /\ pc'[p] = "classify" /\ rec' = rec
      /\ listed' = [listed EXCEPT ![p] = (lnd[rec[p].id] = "open")]
      /\ UNCHANGED <<lnd, journal, archive>>
  BY DEF ListChannels, Goto, IInv, TypeOK, files, lndVars
<1>2. \A q \in Procs \ {p} : /\ pc'[q] = pc[q] /\ rec'[q] = rec[q]
                             /\ listed'[q] = listed[q] /\ after'[q] = after[q]
  BY DEF ListChannels, Goto, IInv, TypeOK
<1>3. journal.state \in Unresolved /\ rec[p] = journal
  BY DEF ListChannels, IInv, Safe, CopyInv, Copy
<1>4. listed'[p] => lnd[rec[p].id] = "open"
  BY <1>1, Zenon DEF IInv, TypeOK
<1>5. Copy(p)'
  BY <1>1, <1>3, <1>4 DEF Copy, Funded
<1>6. QED  BY <1>1, <1>2, <1>5, QuietStep DEF IInv

(* reconcile only draws verdicts that LND's answers support.               *)
LEMMA ClassifyStep == ASSUME IInv, NEW p \in Procs, Classify(p) PROVE Safe'
<1>1. /\ pc[p] = "classify"
      /\ UNCHANGED <<lnd, journal, archive>>
      /\ \A q \in Procs \ {p} : listed'[q] = listed[q]
  BY DEF Classify, IInv, TypeOK, files, lndVars
<1>2. /\ journal.state \in Unresolved /\ rec[p] = journal
      /\ listed[p] => lnd[journal.id] \in Funded \ {"pending"}
  BY <1>1 DEF IInv, Safe, CopyInv, Copy
<1>3. PICK R \in Observed(rec[p], listed[p]) : Save(p, R, "reconciled")
  BY DEF Classify
<1>4. /\ R.id = journal.id /\ R.txid = journal.txid
      /\ R.state \in Unresolved \cup {"active", "closed"}
      /\ R.state = "active" => listed[p]
      /\ R.state = "closed" => lnd[journal.id] = "closed"
      /\ R.point => journal.point \/ listed[p] \/ lnd[journal.id] \in Pending
  BY <1>2, <1>3, ObservedIsEvident DEF IInv, TypeOK
<1>5. journal.id \in Requests
  BY <1>2, Named DEF IInv
<1>6. Evidence(R)
  <2>1. R.state \notin {"absent", "rejected"} /\ R.id # NoRequest
    BY <1>4, <1>5, ChannelsAssumption DEF Unresolved
  <2>2. R.state = "active" => lnd[R.id] \in Funded \ {"pending"}
    BY <1>2, <1>4
  <2>3. R.txid => lnd[R.id] \in Funded
    BY <1>4 DEF IInv, Safe, Evidence
  <2>4. R.point => lnd[R.id] \in Funded
    BY <1>2, <1>4 DEF IInv, Safe, Evidence, Pending, Funded
  <2>5. QED  BY <1>4, <1>5, <2>1, <2>2, <2>3, <2>4 DEF Evidence
<1>7. QED  BY <1>1, <1>2, <1>3, <1>4, <1>5, <1>6, VerdictStep DEF IInv

(* The first of the two writes: the journal takes the new record.          *)
LEMMA WriteJournalStep ==
  ASSUME IInv, TypeOK', NEW p \in Procs, WriteJournal(p) PROVE Safe'
<1>1. /\ pc[p] = "journal" /\ pc'[p] = "archive" /\ journal' = rec[p]
      /\ \A q \in Procs \ {p} : pc'[q] = pc[q]
      /\ UNCHANGED <<lnd, archive, rec, after>>
  BY DEF WriteJournal, Goto, IInv, TypeOK, lndVars
<1>2. /\ rec[p].id \in Requests /\ Evidence(rec[p])
      /\ after[p] = "send" => /\ lnd[rec[p].id] = "unsent" /\ rec[p].state = "submitting"
                              /\ journal.state \notin Unresolved
      /\ after[p] # "send" => rec[p].id = journal.id
  BY <1>1 DEF IInv, Safe, CopyInv, Copy
<1>3. lock = {p}
  BY <1>1, HolderIsAlone DEF IInv, Locked, PCs
<1>4. Evidence(journal)' /\ Evidence(rec[p])'
  BY <1>1, <1>2 DEF Evidence
<1>5. Copy(p)'
  BY <1>1, <1>2, <1>4 DEF Copy
<1>6. SentInv'
  <2> SUFFICES ASSUME NEW r \in Requests, r # rec[p].id
               PROVE  IF archive[r] = "absent" THEN lnd[r] = "unsent" ELSE lnd[r] \in Decided
    BY <1>1 DEF SentInv, IInv, Safe
  <2>1. CASE r # journal.id
    BY <2>1 DEF SentInv, IInv, Safe
  <2>2. CASE r = journal.id
    <3>1. journal.state \in Resolved
      BY <1>2, <2>2, ChannelsAssumption DEF IInv, Safe, Evidence, TypeOK, Record
    <3>2. lnd[r] \in Decided
      BY <2>2, <3>1 DEF IInv, Safe, Evidence, Resolved, Decided, Funded
    <3>3. QED  BY <3>2 DEF Decided, Funded, Refusals, SentInv, IInv, Safe
  <2>3. QED  BY <2>1, <2>2
<1>7. QED  BY <1>1, <1>3, <1>4, <1>5, <1>6, HolderStep DEF IInv, Safe

(* The second write, and what follows it.                                  *)
LEMMA WriteArchiveStep ==
  ASSUME IInv, TypeOK', NEW p \in Procs, WriteArchive(p) PROVE Safe'
<1>1. /\ pc[p] = "archive" /\ archive' = [archive EXCEPT ![rec[p].id] = rec[p].state]
      /\ UNCHANGED <<lnd, journal>>
  BY DEF WriteArchive, lndVars
<1>2. /\ rec[p].id \in Requests /\ Evidence(rec[p]) /\ rec[p] = journal
      /\ after[p] = "send" => lnd[rec[p].id] = "unsent" /\ rec[p].state = "submitting"
  BY <1>1 DEF IInv, Safe, CopyInv, Copy
<1>3. lock = {p}
  BY <1>1, HolderIsAlone DEF IInv, Locked, PCs
<1>4. rec[p].state # "absent" /\ archive'[rec[p].id] # "absent"
  BY <1>1, <1>2, ChannelsAssumption DEF Evidence, IInv, TypeOK
<1>5. \A r \in Requests : r # journal.id => archive'[r] = archive[r]
  BY <1>1, <1>2 DEF IInv, TypeOK
<1>6. Evidence(journal)' /\ SentInv'
  BY <1>1, <1>2, <1>4, <1>5 DEF IInv, Safe, Evidence, SentInv
<1>7. CASE after[p] = "exit"
  <2>1. pc'[p] = "idle" /\ \A q \in Procs \ {p} : pc'[q] = pc[q]
    BY <1>7 DEF WriteArchive, Leave, IInv, TypeOK
  <2>2. Copy(p)'
    BY <2>1 DEF Copy
  <2>3. QED  BY <1>3, <1>6, <2>1, <2>2, HolderStep DEF IInv, Safe
<1>8. CASE after[p] # "exit"
  <2>1. /\ pc'[p] = after[p] /\ after[p] \in {"reconciled", "send"}
        /\ \A q \in Procs \ {p} : pc'[q] = pc[q]
        /\ UNCHANGED <<rec, after>>
    BY <1>8 DEF WriteArchive, Goto, IInv, TypeOK
  <2>2. Copy(p)'
    BY <1>1, <1>2, <1>4, <2>1 DEF Copy, Unresolved
  <2>3. QED  BY <1>3, <1>6, <2>1, <2>2, HolderStep DEF IInv, Safe
<1>9. QED  BY <1>7, <1>8

(* A new request is journaled only when the last one is decided and its    *)
(* own openchannel has not been sent.                                      *)
LEMMA SubmitStep ==
  ASSUME IInv, NEW p \in Procs, NEW r \in Requests, Submit(p, r) PROVE Safe'
<1> DEFINE R == Unproven(r, "submitting", FALSE, plan[p].cap)
<1>1. /\ pc'[p] = "journal" /\ rec'[p] = R /\ after'[p] = "send"
      /\ UNCHANGED <<lnd, journal, archive>>
  BY DEF Submit, Save, Goto, IInv, TypeOK, files, lndVars
<1>2. \A q \in Procs \ {p} : /\ pc'[q] = pc[q] /\ rec'[q] = rec[q]
                             /\ listed'[q] = listed[q] /\ after'[q] = after[q]
  BY DEF Submit, Save, Goto, IInv, TypeOK
<1>3. pc[p] = "reconciled" /\ rec[p].state \notin Unresolved /\ rec[p] = journal
  BY DEF Submit, IInv, Safe, CopyInv, Copy
<1>4. journal.id # r /\ lnd[r] = "unsent"
  BY DEF Submit, Fresh, IInv, Safe, SentInv
<1>5. /\ R.id = r /\ R.state = "submitting" /\ ~R.txid /\ ~R.point
  BY DEF Unproven
<1>6. Evidence(R) /\ r # NoRequest
  BY <1>5, ChannelsAssumption DEF Evidence
<1>7. Evidence(rec[p])'
  BY <1>1, <1>6 DEF Evidence
<1>8. Copy(p)'
  BY <1>1, <1>3, <1>4, <1>5, <1>7 DEF Copy
<1>9. QED  BY <1>1, <1>2, <1>8, QuietStep DEF IInv

(* openchannel leaves for a request whose two records are on disk.         *)
LEMMA SendStep == ASSUME IInv, TypeOK', NEW p \in Procs, SendOpen(p) PROVE Safe'
<1>1. /\ pc[p] = "send" /\ pc'[p] = "reply" /\ rec' = rec
      /\ \A q \in Procs \ {p} : pc'[q] = pc[q]
      /\ UNCHANGED <<journal, archive>>
  BY DEF SendOpen, Goto, IInv, TypeOK, files
<1>2. /\ journal.state \in Unresolved /\ rec[p] = journal
      /\ lnd[journal.id] = "unsent" /\ archive[journal.id] # "absent"
  BY <1>1 DEF IInv, Safe, CopyInv, Copy
<1>3. lnd' = [lnd EXCEPT ![journal.id] = "inflight"] /\ journal.id \in Requests
  BY <1>2, Named DEF SendOpen, IInv
<1>4. lock = {p}
  BY <1>1, HolderIsAlone DEF IInv, Locked, PCs
<1>5. Evidence(journal)'
  BY <1>1, <1>2, <1>3 DEF IInv, Safe, Evidence, Unresolved, Funded
<1>6. SentInv'
  BY <1>1, <1>2, <1>3 DEF IInv, Safe, SentInv, TypeOK
<1>7. Copy(p)'
  BY <1>1, <1>2 DEF Copy
<1>8. QED  BY <1>1, <1>4, <1>5, <1>6, <1>7, HolderStep DEF IInv, Safe

(* The answer to openchannel, its loss, or an attestation leaves a record  *)
(* that LND's state supports.                                              *)
LEMMA ReplyStep ==
  ASSUME IInv, NEW p \in Procs, ReplyFunded(p) \/ ReplyRejected(p) \/ ReplyLost(p) \/ Attest(p)
  PROVE  Safe'
<1>1. /\ UNCHANGED <<lnd, journal, archive>>
      /\ \A q \in Procs \ {p} : listed'[q] = listed[q]
  BY DEF ReplyFunded, ReplyRejected, ReplyLost, Attest, files, lndVars
<1>2. rec[p] = journal /\ journal.state \in Unresolved
  BY DEF ReplyFunded, ReplyRejected, ReplyLost, Attest, IInv, Safe, CopyInv, Copy, Unresolved
<1>3. journal.id \in Requests /\ journal.id # NoRequest /\ Evidence(journal)
  BY <1>2, Named, ChannelsAssumption DEF IInv, Safe
<1>4. ASSUME NEW R \in Record, Save(p, R, "exit"), R.id = journal.id, Evidence(R)
      PROVE  Safe'
  BY <1>1, <1>2, <1>3, <1>4, VerdictStep DEF IInv
<1>5. CASE ReplyFunded(p)
  <2>1. PICK indexed \in BOOLEAN :
          Save(p, [rec[p] EXCEPT !.state = "broadcast", !.txid = TRUE, !.point = indexed],
               "exit")
    BY <1>5 DEF ReplyFunded
  <2> DEFINE R == [rec[p] EXCEPT !.state = "broadcast", !.txid = TRUE, !.point = indexed]
  <2>2. R \in Record
    BY RecordUpdates DEF IInv, TypeOK
  <2>3. R.id = journal.id /\ R.state = "broadcast" /\ lnd[journal.id] \in Funded
    BY <1>2, <1>5 DEF ReplyFunded, IInv, TypeOK, Record
  <2>4. Evidence(R)
    BY <1>3, <2>3 DEF Evidence
  <2>5. QED  BY <1>4, <2>1, <2>2, <2>3, <2>4
<1>6. CASE ReplyLost(p)
  <2>1. PICK known \in BOOLEAN :
          /\ known => lnd[rec[p].id] \in Funded
          /\ Save(p, [rec[p] EXCEPT !.state = "uncertain", !.txid = known], "exit")
    BY <1>6 DEF ReplyLost
  <2> DEFINE R == [rec[p] EXCEPT !.state = "uncertain", !.txid = known]
  <2>2. R \in Record
    BY RecordUpdates DEF IInv, TypeOK
  <2>3. /\ R.id = journal.id /\ R.state = "uncertain" /\ R.point = journal.point
        /\ R.txid = known
    BY <1>2 DEF IInv, TypeOK, Record
  <2>4. Evidence(R)
    BY <1>2, <1>3, <2>1, <2>3 DEF Evidence
  <2>5. QED  BY <1>4, <2>1, <2>2, <2>3, <2>4
<1>7. CASE ReplyRejected(p) \/ Attest(p)
  <2> DEFINE R == [rec[p] EXCEPT !.state = "rejected"]
  <2>1. Save(p, R, "exit") /\ lnd[rec[p].id] \in Refusals
    BY <1>7 DEF ReplyRejected, Attest, Refusals
  <2>2. R \in Record
    BY RecordUpdates DEF IInv, TypeOK
  <2>3. /\ R.id = journal.id /\ R.state = "rejected"
        /\ R.point = journal.point /\ R.txid = journal.txid
    BY <1>2 DEF IInv, TypeOK, Record
  <2>4. Evidence(R)
    BY <1>2, <1>3, <2>1, <2>3 DEF Evidence
  <2>5. QED  BY <1>4, <2>1, <2>2, <2>3, <2>4
<1>8. QED  BY <1>5, <1>6, <1>7

(* LND moves a request only forward: what is recorded of it stays true.    *)
LEMMA LightningStep == ASSUME IInv, Lightning PROVE Safe'
<1>1. UNCHANGED <<journal, archive, pc, rec, listed, after>>
  BY DEF Lightning, LndRefuses, LndFunds, LndConfirms, LndCloses, LndBecomes, RemoteOpens,
         files, locals
<1>2. \A r \in Requests :
        /\ lnd[r] = "unsent" <=> lnd'[r] = "unsent"
        /\ lnd[r] \in Funded => lnd'[r] \in Funded
        /\ lnd[r] \in Funded \ {"pending"} => lnd'[r] \in Funded \ {"pending"}
        /\ lnd[r] = "closed" => lnd'[r] = "closed"
        /\ lnd[r] \in Refusals => lnd'[r] \in Refusals
  BY DEF Lightning, LndRefuses, LndFunds, LndConfirms, LndCloses, LndBecomes, RemoteOpens,
         IInv, TypeOK, LndStates, Funded, Refusals
<1>3. ASSUME NEW R \in Record, Evidence(R)
      PROVE  /\ R.state = "absent" <=> R.id = NoRequest
             /\ R.state = "active" => lnd'[R.id] \in Funded \ {"pending"}
             /\ R.state = "closed" => lnd'[R.id] = "closed"
             /\ R.state = "rejected" => lnd'[R.id] \in Refusals
             /\ R.txid \/ R.point => R.id \in Requests /\ lnd'[R.id] \in Funded
  <2>1. R.state # "absent" => R.id \in Requests
    BY <1>3 DEF Evidence, Record
  <2>2. QED  BY <1>2, <1>3, <2>1 DEF Evidence
<1>4. Evidence(journal)'
  BY <1>1, <1>3 DEF IInv, Safe, TypeOK, Evidence
<1>5. SentInv'
  BY <1>1, <1>2 DEF IInv, Safe, SentInv, Decided
<1>6. ASSUME NEW p \in Procs PROVE Copy(p)'
  <2>1. Copy(p) /\ rec[p] \in Record
    BY DEF IInv, Safe, CopyInv, TypeOK
  <2>2. pc[p] \in {"journal", "archive"} => rec[p].id \in Requests /\ Evidence(rec[p])'
    BY <1>1, <1>3, <2>1 DEF Copy, Evidence
  <2>3. pc[p] \in {"send", "classify"} => rec[p].id \in Requests
    BY <2>1, Named DEF IInv, Copy
  <2>4. QED  BY <1>1, <1>2, <2>1, <2>2, <2>3 DEF Copy
<1>7. QED  BY <1>4, <1>5, <1>6 DEF Safe, CopyInv

-----------------------------------------------------------------------------
(* The theorems.                                                           *)

(* The invariant holds of an empty directory and of an old journal.        *)
LEMMA InitIInv == Init => IInv
<1> SUFFICES ASSUME Init PROVE IInv
  OBVIOUS
<1>1. TypeOK
  BY InitTypes
<1>2. LockInv /\ CopyInv
  BY DEF Init, LockInv, Locked, PCs, CopyInv, Copy
<1>3. Evidence(journal) /\ SentInv
  <2>1. CASE /\ journal = NoRecord
             /\ archive = [r \in Requests |-> "absent"]
             /\ lnd = [r \in Requests |-> "unsent"]
    BY <2>1 DEF NoRecord, Unproven, Evidence, SentInv
  <2>2. ASSUME NEW r \in Requests, NEW refusal \in Refusals,
               journal = Unproven(r, "uncertain", TRUE, 0),
               archive = [q \in Requests |-> IF q = r THEN "uncertain" ELSE "absent"],
               lnd = [q \in Requests |-> IF q = r THEN refusal ELSE "unsent"]
        PROVE  Evidence(journal) /\ SentInv
    BY <2>2, ChannelsAssumption DEF Unproven, Evidence, SentInv
  <2>3. QED  BY <2>1, <2>2 DEF Init
<1>4. QED  BY <1>1, <1>2, <1>3 DEF IInv, Safe

(* Every step of every run, of LND and of its peers keeps the invariant.   *)
LEMMA IInvStep == IInv /\ [Next]_vars => IInv'
<1> SUFFICES ASSUME IInv, [Next]_vars PROVE IInv'
  OBVIOUS
<1>1. TypeOK'
  BY TypeStep DEF IInv
<1>2. CASE UNCHANGED vars
  BY <1>2 DEF vars, IInv, TypeOK, LockInv, Safe, Evidence, CopyInv, Copy, SentInv
<1>3. CASE Next
  <2>1. LockInv'
    BY <1>3, LockStep
  <2>2. ASSUME NEW p \in Procs,
               Refuse(p) \/ Stop(p) \/ FinishLook(p)
                 \/ \E peer \in Peers, cap \in Caps : Approve(p, peer, cap)
        PROVE  Safe'
    BY <2>2, DropStep DEF IInv, Refuse, Stop, FinishLook, Approve, files, lndVars
  <2>3. Safe'
    BY <1>1, <1>3, <2>2, BeginStep, ListStep, ClassifyStep, WriteJournalStep,
       WriteArchiveStep, SubmitStep, SendStep, ReplyStep, LightningStep
    DEF Next, Reconcile, Work
  <2>4. QED  BY <1>1, <2>1, <2>3 DEF IInv
<1>4. QED  BY <1>2, <1>3

(* The inductive invariant always holds: one lock holder, true records in  *)
(* memory and on disk, and nothing sent that is neither journaled nor      *)
(* decided.                                                                *)
THEOREM Invariance == Spec => []IInv
BY InitIInv, IInvStep, PTL DEF Spec

(* router_channels.py:1 for any number of runs and requests: at most one   *)
(* openchannel can still become a funding nobody has accounted for.        *)
THEOREM AtMostOneFunding == Spec => []OneFundingAtATime
<1>1. IInv => OneFundingAtATime
  <2> SUFFICES ASSUME IInv, NEW r \in Requests, Undecided(r) PROVE r = journal.id
    BY DEF OneFundingAtATime
  <2>1. QED  BY DEF IInv, Safe, SentInv, Undecided, Decided, Funded, Refusals
<1>2. QED  BY <1>1, Invariance, PTL

(* What open-request.json says of a decided request is what LND did.       *)
THEOREM VerdictsAreTrue == Spec => []VerdictHasEvidence
<1>1. IInv => VerdictHasEvidence
  BY DEF IInv, Safe, Evidence, VerdictHasEvidence
<1>2. QED  BY <1>1, Invariance, PTL

(* Every openchannel that left has both its records.                       *)
THEOREM NothingSentUnrecorded == Spec => []SentIsAccountedFor
<1>1. IInv => SentIsAccountedFor
  BY DEF IInv, Safe, SentInv, SentIsAccountedFor, Undecided, Decided, Funded, Refusals
<1>2. QED  BY <1>1, Invariance, PTL

(* Only WriteJournal touches open-request.json.                            *)
LEMMA JournalWriter ==
  ASSUME IInv, Next, journal' # journal
  PROVE  \E p \in Procs : WriteJournal(p)
<1> SUFFICES ASSUME \A p \in Procs : ~WriteJournal(p) PROVE journal' = journal
  OBVIOUS
<1>1. ASSUME NEW p \in Procs, Reconcile(p) PROVE journal' = journal
  BY <1>1 DEF Reconcile, ListChannels, Classify, WriteArchive, FinishLook, files
<1>2. ASSUME NEW p \in Procs, Work(p) \/ Stop(p) PROVE journal' = journal
  BY <1>2 DEF Work, Stop, Refuse, SendOpen, ReplyFunded, ReplyRejected, ReplyLost, Attest,
              Submit, Approve, files
<1>3. ASSUME NEW p \in Procs, NEW o \in {"look", "submit", "ack"}, Begin(p, o)
      PROVE  journal' = journal
  BY <1>3 DEF Begin, files
<1>4. CASE Lightning
  BY <1>4 DEF Lightning, LndRefuses, LndFunds, LndConfirms, LndCloses, LndBecomes, RemoteOpens,
              files
<1>5. QED  BY <1>1, <1>2, <1>3, <1>4 DEF Next

(* No run overwrites a verdict with what it read before.                   *)
THEOREM VerdictStays == Spec => VerdictIsFinal
<1>1. IInv /\ [Next]_vars =>
        [journal.state \in Resolved => \/ journal' = journal
                                       \/ journal'.id # journal.id]_journal
  <2> SUFFICES ASSUME IInv, [Next]_vars, journal' # journal, journal.state \in Resolved
               PROVE  journal'.id # journal.id
    OBVIOUS
  <2>1. PICK p \in Procs : WriteJournal(p)
    BY JournalWriter DEF vars
  <2>2. pc[p] = "journal" /\ journal' = rec[p]
    BY <2>1 DEF WriteJournal
  <2>3. journal.state \notin Unresolved
    BY DEF Resolved, Unresolved
  <2>4. QED  BY <2>2, <2>3 DEF IInv, Safe, CopyInv, Copy
<1>2. QED  BY <1>1, Invariance, PTL DEF VerdictIsFinal, Spec

-----------------------------------------------------------------------------
(* The approved total.                                                     *)

(* The channels that exist or may still come of what was sent.             *)
Live == {r \in Requests : lnd[r] \in {"inflight", "pending", "open"}}

(* Room for one more is kept from the submission to openchannel, and the   *)
(* copy written back carries the total that was approved.                  *)
Room(p) ==
  /\ pc[p] \in {"journal", "archive"} /\ after[p] = "send" => Cardinality(Live) + 1 =< rec[p].cap
  /\ pc[p] = "send" => Cardinality(Live) + 1 =< rec[p].cap
  /\ pc[p] = "journal" /\ after[p] # "send" => rec[p].cap = journal.cap

CapInv == TotalCapHolds /\ \A p \in Procs : Room(p)

(* Live channels can be counted.                                           *)
LEMMA LiveIsFinite == IsFiniteSet(Live) /\ Cardinality(Live) \in Nat
<1>1. IsFiniteSet(Live)
  BY ChannelsAssumption, FS_Subset DEF Live
<1>2. QED  BY <1>1, FS_CardinalityType

(* What an operator may approve is a number.                               *)
LEMMA CapsAreNat == ASSUME NEW c, c \in Caps \cup {0}  PROVE c \in Nat
<1>1. CASE c \in Caps
  BY <1>1, ChannelsAssumption
<1>2. CASE c = 0
  BY <1>2
<1>3. QED  BY <1>1, <1>2

(* An approved total is a number.                                          *)
LEMMA CapIsNat == ASSUME NEW R \in Record  PROVE R.cap \in Nat
<1>1. R.cap \in Caps \cup {0}
  BY DEF Record
<1>2. QED  BY <1>1, CapsAreNat

(* Fewer live channels count for less.                                     *)
LEMMA LiveShrinks == ASSUME Live' \subseteq Live
  PROVE  Cardinality(Live') =< Cardinality(Live) /\ Cardinality(Live') \in Nat
BY LiveIsFinite, FS_Subset, FS_CardinalityType

(* A resolved journal leaves nothing in flight, so preview counted every   *)
(* live channel.                                                           *)
LEMMA PreviewCountsLive == ASSUME IInv, journal.state \notin Unresolved
  PROVE  Cardinality(Live) =< Committed /\ Committed \in Nat
<1>1. journal \in Record /\ lnd \in [Requests -> LndStates]
  BY DEF IInv, TypeOK
<1>2. \A r \in Requests : lnd[r] # "inflight"
  <2> SUFFICES ASSUME NEW r \in Requests, lnd[r] = "inflight"  PROVE FALSE
    OBVIOUS
  <2>1. r = journal.id
    BY DEF IInv, Safe, SentInv, Decided, Funded, Refusals
  <2>2. journal.state \in {"absent"} \cup Resolved
    BY <1>1 DEF Record
  <2>3. QED
    BY <2>1, <2>2, ChannelsAssumption DEF IInv, Safe, Evidence, Funded, Refusals, Resolved
<1>3. Live = {r \in Requests : lnd[r] \in {"pending", "open"}}
  BY <1>2 DEF Live
<1>4. IsFiniteSet(inbound)
  BY ChannelsAssumption, FS_Subset DEF IInv, TypeOK
<1>5. Cardinality(inbound) \in Nat /\ Cardinality(Live) \in Nat
  BY <1>4, FS_CardinalityType, LiveIsFinite
<1>6. QED  BY <1>3, <1>5 DEF Committed

(* A step that leaves LND and the journal alone disturbs at most its run.  *)
LEMMA RoomStep ==
  ASSUME CapInv, NEW p \in Procs, UNCHANGED <<lnd, journal>>,
         \A q \in Procs \ {p} : pc'[q] = pc[q] /\ rec'[q] = rec[q] /\ after'[q] = after[q],
         Room(p)'
  PROVE  CapInv'
<1>1. Live' = Live
  BY DEF Live
<1>2. ASSUME NEW q \in Procs, q # p  PROVE Room(q)'
  BY <1>1, <1>2 DEF CapInv, Room
<1>3. TotalCapHolds'
  BY DEF CapInv, TotalCapHolds, Undecided
<1>4. QED  BY <1>2, <1>3 DEF CapInv

(* Steps after which a run has nothing to write.                           *)
LEMMA RoomIdle ==
  ASSUME IInv, CapInv, NEW p \in Procs,
         \/ \E o \in {"look", "submit", "ack"} : Begin(p, o)
         \/ ListChannels(p) \/ FinishLook(p) \/ Refuse(p) \/ Stop(p)
         \/ \E peer \in Peers, cap \in Caps : Approve(p, peer, cap)
  PROVE  CapInv'
<1> USE DEF IInv, TypeOK, Goto, Leave, files, lndVars, locals
<1>1. UNCHANGED <<lnd, journal>>
  BY DEF Begin, ListChannels, FinishLook, Refuse, Stop, Approve
<1>2. \A q \in Procs \ {p} : pc'[q] = pc[q] /\ rec'[q] = rec[q] /\ after'[q] = after[q]
  BY DEF Begin, ListChannels, FinishLook, Refuse, Stop, Approve
<1>3. pc'[p] \notin {"journal", "archive", "send"}
  BY DEF Begin, ListChannels, FinishLook, Refuse, Stop, Approve
<1>4. Room(p)'
  BY <1>3 DEF Room
<1>5. QED  BY <1>1, <1>2, <1>4, RoomStep

(* A new word on the journal's request keeps the total approved for it.    *)
LEMMA RoomVerdict ==
  ASSUME IInv, CapInv, NEW p \in Procs,
         Classify(p) \/ ReplyFunded(p) \/ ReplyRejected(p) \/ ReplyLost(p) \/ Attest(p)
  PROVE  CapInv'
<1> USE DEF IInv
<1>1. rec[p] = journal /\ journal \in Record
  BY DEF Classify, ReplyFunded, ReplyRejected, ReplyLost, Attest, TypeOK, Safe, CopyInv, Copy
<1>2. PICK next \in {"reconciled", "exit"} : \E R : Save(p, R, next) /\ R.cap = journal.cap
  <2>1. CASE Classify(p)
    <3>1. PICK R \in Observed(rec[p], listed[p]) : Save(p, R, "reconciled")
      BY <2>1 DEF Classify
    <3>2. \/ \E s : R = [journal EXCEPT !.state = s, !.point = TRUE]
          \/ R = [journal EXCEPT !.state = "uncertain"]
      BY <1>1 DEF Observed
    <3>3. R.cap = journal.cap
      BY <1>1, <3>2 DEF Record
    <3>4. QED  BY <3>1, <3>3
  <2>2. CASE ReplyFunded(p)
    <3>1. PICK i \in BOOLEAN :
            Save(p, [journal EXCEPT !.state = "broadcast", !.txid = TRUE, !.point = i], "exit")
      BY <1>1, <2>2 DEF ReplyFunded
    <3>2. [journal EXCEPT !.state = "broadcast", !.txid = TRUE, !.point = i].cap = journal.cap
      BY <1>1 DEF Record
    <3>3. QED  BY <3>1, <3>2
  <2>3. CASE ReplyLost(p)
    <3>1. PICK known \in BOOLEAN :
            Save(p, [journal EXCEPT !.state = "uncertain", !.txid = known], "exit")
      BY <1>1, <2>3 DEF ReplyLost
    <3>2. [journal EXCEPT !.state = "uncertain", !.txid = known].cap = journal.cap
      BY <1>1 DEF Record
    <3>3. QED  BY <3>1, <3>2
  <2>4. CASE ReplyRejected(p) \/ Attest(p)
    <3>1. Save(p, [journal EXCEPT !.state = "rejected"], "exit")
      BY <1>1, <2>4 DEF ReplyRejected, Attest
    <3>2. [journal EXCEPT !.state = "rejected"].cap = journal.cap
      BY <1>1 DEF Record
    <3>3. QED  BY <3>1, <3>2
  <2>5. QED  BY <2>1, <2>2, <2>3, <2>4
<1>3. UNCHANGED <<lnd, journal>>
  BY DEF Classify, ReplyFunded, ReplyRejected, ReplyLost, Attest, files, lndVars
<1>4. /\ pc'[p] = "journal" /\ after'[p] # "send" /\ rec'[p].cap = journal.cap
      /\ \A q \in Procs \ {p} : pc'[q] = pc[q] /\ rec'[q] = rec[q] /\ after'[q] = after[q]
  BY <1>2 DEF Save, Goto, TypeOK
<1>5. Room(p)'
  BY <1>3, <1>4 DEF Room
<1>6. QED  BY <1>3, <1>4, <1>5, RoomStep

(* The preview repeated under the lock leaves room for the new channel.    *)
LEMMA RoomSubmit == ASSUME IInv, CapInv, NEW p \in Procs, NEW r \in Requests, Submit(p, r)
  PROVE  CapInv'
<1> USE DEF IInv
<1>1. rec[p] = journal /\ journal.state \notin Unresolved
  BY DEF Submit, Safe, CopyInv, Copy
<1>2. Committed + 1 =< plan[p].cap /\ plan[p].cap \in Nat
  <2>1. plan[p] \in Preview(plan[p].peer, plan[p].cap)
    BY DEF Submit, StillApproved
  <2>2. plan[p].cap \in Caps \cup {0}
    BY DEF TypeOK, Plan
  <2>3. plan[p].cap \in Nat
    BY <2>2, CapsAreNat
  <2>4. Committed + 1 =< plan[p].cap
    BY <2>1 DEF Preview
  <2>5. QED  BY <2>3, <2>4
<1>3. Cardinality(Live) + 1 =< plan[p].cap
  BY <1>1, <1>2, PreviewCountsLive, LiveIsFinite
<1>4. UNCHANGED <<lnd, journal>>
  BY DEF Submit, files, lndVars
<1>5. /\ pc'[p] = "journal" /\ after'[p] = "send" /\ rec'[p].cap = plan[p].cap
      /\ \A q \in Procs \ {p} : pc'[q] = pc[q] /\ rec'[q] = rec[q] /\ after'[q] = after[q]
  BY DEF Submit, Save, Goto, Unproven, TypeOK
<1>6. Live' = Live
  BY <1>4 DEF Live
<1>7. Room(p)'
  BY <1>3, <1>5, <1>6 DEF Room
<1>8. QED  BY <1>4, <1>5, <1>7, RoomStep

(* The journal takes the record with its total.                            *)
LEMMA RoomJournal == ASSUME IInv, CapInv, NEW p \in Procs, WriteJournal(p)  PROVE CapInv'
<1> USE DEF IInv
<1>1. /\ pc[p] = "journal" /\ journal' = rec[p] /\ UNCHANGED <<lnd, rec, after>>
      /\ pc'[p] = "archive" /\ \A q \in Procs \ {p} : pc'[q] = pc[q]
  BY DEF WriteJournal, Goto, TypeOK, lndVars
<1>2. \A q \in Procs \ {p} : pc[q] \in {"idle", "prompt", "approved"}
  BY <1>1, HolderIsAlone DEF Locked, PCs, LockInv, TypeOK
<1>3. Live' = Live
  BY <1>1 DEF Live
<1>4. \A q \in Procs : Room(q)'
  BY <1>1, <1>2, <1>3 DEF CapInv, Room
<1>5. TotalCapHolds'
  <2>1. CASE after[p] = "send"
    <3>1. lnd[rec[p].id] = "unsent"
      BY <1>1, <2>1 DEF Safe, CopyInv, Copy
    <3>2. QED  BY <1>1, <3>1 DEF TotalCapHolds, Undecided
  <2>2. CASE after[p] # "send"
    <3>1. rec[p].id = journal.id /\ rec[p].cap = journal.cap
      BY <1>1, <2>2 DEF Safe, CopyInv, Copy, CapInv, Room
    <3>2. QED  BY <1>1, <3>1 DEF CapInv, TotalCapHolds, Undecided
  <2>3. QED  BY <2>1, <2>2
<1>6. QED  BY <1>4, <1>5 DEF CapInv

(* The room is still there when the archive is written.                    *)
LEMMA RoomArchive == ASSUME IInv, CapInv, NEW p \in Procs, WriteArchive(p)  PROVE CapInv'
<1> USE DEF IInv
<1>1. pc[p] = "archive" /\ UNCHANGED <<lnd, journal>>
  BY DEF WriteArchive, lndVars
<1>2. /\ \A q \in Procs \ {p} : pc'[q] = pc[q] /\ rec'[q] = rec[q] /\ after'[q] = after[q]
      /\ \/ pc'[p] = "idle"
         \/ pc'[p] = after[p] /\ after[p] # "exit" /\ rec' = rec
  BY DEF WriteArchive, Leave, Goto, TypeOK
<1>3. Live' = Live
  BY <1>1 DEF Live
<1>4. Room(p)'
  BY <1>1, <1>2, <1>3 DEF Room, CapInv, TypeOK
<1>5. QED  BY <1>1, <1>2, <1>4, RoomStep

(* openchannel takes the room that was kept.                               *)
LEMMA RoomSend == ASSUME IInv, CapInv, NEW p \in Procs, SendOpen(p)  PROVE CapInv'
<1> USE DEF IInv
<1>1. /\ pc[p] = "send" /\ rec[p] = journal /\ journal.id \in Requests
      /\ Cardinality(Live) + 1 =< journal.cap
  BY Named DEF SendOpen, Safe, CopyInv, Copy, CapInv, Room
<1>2. /\ lnd' = [lnd EXCEPT ![journal.id] = "inflight"] /\ UNCHANGED <<journal, rec, after>>
      /\ pc'[p] = "reply" /\ \A q \in Procs \ {p} : pc'[q] = pc[q]
  BY <1>1 DEF SendOpen, Goto, TypeOK, files, locals
<1>3. \A q \in Procs \ {p} : pc[q] \in {"idle", "prompt", "approved"}
  BY <1>1, HolderIsAlone DEF Locked, PCs, LockInv, TypeOK
<1>4. \A q \in Procs : Room(q)'
  BY <1>2, <1>3 DEF Room
<1>5. Live' = Live \cup {journal.id}
  BY <1>1, <1>2 DEF Live, TypeOK
<1>6. Cardinality(Live') =< Cardinality(Live) + 1 /\ Cardinality(Live') \in Nat
  <2>1. Cardinality(Live \cup {journal.id}) =
          IF journal.id \in Live THEN Cardinality(Live) ELSE Cardinality(Live) + 1
    BY LiveIsFinite, FS_AddElement
  <2>2. QED  BY <1>5, <2>1, LiveIsFinite
<1>7. journal.cap \in Nat
  BY CapIsNat DEF TypeOK
<1>8. Cardinality(Live') =< journal.cap
  BY <1>1, <1>6, <1>7, LiveIsFinite
<1>9. TotalCapHolds'
  BY <1>2, <1>8 DEF TotalCapHolds, Live
<1>10. QED  BY <1>4, <1>9 DEF CapInv

(* LND and its peers only turn live channels into fewer.                   *)
LEMMA RoomLightning == ASSUME IInv, CapInv, Lightning  PROVE CapInv'
<1> USE DEF IInv
<1>1. UNCHANGED <<journal, pc, rec, after>>
  BY DEF Lightning, LndRefuses, LndFunds, LndConfirms, LndCloses, LndBecomes, RemoteOpens,
         files, locals
<1>2. \A r \in Requests :
        /\ lnd'[r] \in {"inflight", "pending"} => lnd[r] \in {"inflight", "pending"}
        /\ lnd'[r] = "open" => lnd[r] \in {"pending", "open"}
  BY DEF Lightning, LndRefuses, LndFunds, LndConfirms, LndCloses, LndBecomes, RemoteOpens,
         TypeOK, LndStates, Funded, Refusals
<1>3. Live' \subseteq Live
  BY <1>2 DEF Live
<1>4. Cardinality(Live') =< Cardinality(Live) /\ Cardinality(Live') \in Nat
  BY <1>3, LiveShrinks
<1>5. \A p \in Procs : rec[p].cap \in Nat /\ journal.cap \in Nat
  BY CapIsNat DEF TypeOK
<1>6. \A p \in Procs : Room(p)'
  BY <1>1, <1>4, <1>5, LiveIsFinite DEF CapInv, Room
<1>7. TotalCapHolds'
  <2> SUFFICES ASSUME journal.id # NoRequest, Undecided(journal.id)'
               PROVE  Cardinality(Live') =< journal.cap
    BY <1>1 DEF TotalCapHolds, Live
  <2>1. journal.id \in Requests /\ journal.cap \in Nat
    BY <1>1, CapIsNat DEF TypeOK, Record
  <2>2. Undecided(journal.id)
    BY <1>1, <1>2, <2>1 DEF Undecided
  <2>3. Cardinality(Live) =< journal.cap
    BY <2>2 DEF CapInv, TotalCapHolds, Live
  <2>4. QED  BY <1>4, <2>1, <2>3, LiveIsFinite
<1>8. QED  BY <1>6, <1>7 DEF CapInv

(* Every step keeps the room.                                              *)
LEMMA CapStep == IInv /\ CapInv /\ [Next]_vars => CapInv'
<1> SUFFICES ASSUME IInv, CapInv, [Next]_vars  PROVE CapInv'
  OBVIOUS
<1>1. CASE UNCHANGED vars
  BY <1>1 DEF vars, CapInv, TotalCapHolds, Undecided, Room, Live
<1>2. CASE Next
  BY <1>2, RoomIdle, RoomVerdict, RoomSubmit, RoomJournal, RoomArchive, RoomSend, RoomLightning
  DEF Next, Reconcile, Work
<1>3. QED  BY <1>1, <1>2

(* While the latest request is undecided, this tool's channels, the one in *)
(* flight included, stay within the total its operator approved: for any   *)
(* caps, any number of requests and runs, and channels opened by others.   *)
THEOREM CapHolds == Spec => []TotalCapHolds
<1>1. Init => CapInv
  <2> SUFFICES ASSUME Init  PROVE CapInv
    OBVIOUS
  <2>1. \A p \in Procs : Room(p)
    BY DEF Init, Room
  <2>2. TotalCapHolds
    BY ChannelsAssumption DEF Init, TotalCapHolds, Undecided, NoRecord, Unproven, Refusals
  <2>3. QED  BY <2>1, <2>2 DEF CapInv
<1>2. CapInv => TotalCapHolds
  BY DEF CapInv
<1>3. QED  BY <1>1, <1>2, CapStep, Invariance, PTL DEF Spec

-----------------------------------------------------------------------------
(* The abstract single flight.  Verdict and Fate read lnd, the journal and *)
(* the archive alone, and of the archive only the entries of requests that *)
(* the journal no longer names.                                            *)

(* What no record and no outcome tells apart is one abstract state.        *)
LEMMA Stutter ==
  ASSUME \A r \in Requests : Verdict(r)' = Verdict(r), \A r \in Requests : Fate(r)' = Fate(r)
  PROVE  UNCHANGED Flight!vars
BY DEF Flight!vars

(* Archiving the journal's request, or touching no file, goes unseen.      *)
LEMMA FilesStutter ==
  ASSUME UNCHANGED <<lnd, journal>>,
         \A r \in Requests \ {journal.id} : archive'[r] = archive[r]
  PROVE  UNCHANGED Flight!vars
<1>1. \A r \in Requests : Verdict(r)' = Verdict(r) /\ Fate(r)' = Fate(r)
  BY DEF Verdict, Fate, Undecided
<1>2. QED  BY <1>1, Stutter

(* Writing a new request over a resolved journal is the abstract           *)
(* intention; the request it replaces is archived with the same verdict.   *)
LEMMA NewJournalIntends ==
  ASSUME IInv, NEW p \in Procs, WriteJournal(p), after[p] = "send"  PROVE Flight!Next
<1> USE DEF IInv, Safe
<1>1. /\ journal' = rec[p] /\ UNCHANGED <<lnd, archive>>
      /\ rec[p].id \in Requests /\ rec[p].state = "submitting" /\ lnd[rec[p].id] = "unsent"
      /\ journal.state \notin Unresolved /\ rec[p].id # journal.id
  BY DEF WriteJournal, CopyInv, Copy, lndVars
<1>2. PICK a \in Requests : a = rec[p].id
  BY <1>1
<1>3. Verdict(a) = "none"
  BY <1>1, <1>2 DEF Verdict, SentInv, Decided, Funded, Refusals
<1>4. Verdict(a)' = "open"
  BY <1>1, <1>2 DEF Verdict, Unresolved
<1>5. \A r \in Requests : Verdict(r) # "open"
  BY <1>1 DEF Verdict
<1>6. ASSUME NEW r \in Requests, r # a  PROVE Verdict(r)' = Verdict(r)
  <2>1. journal'.id # r
    BY <1>1, <1>2, <1>6
  <2>2. CASE journal.id # r
    BY <1>1, <2>1, <2>2 DEF Verdict
  <2>3. CASE journal.id = r
    <3>1. journal.state \in Resolved
      BY <1>1, <2>3, ChannelsAssumption DEF TypeOK, Record, Evidence
    <3>2. lnd[r] # "unsent" /\ archive[r] # "absent"
      BY <2>3, <3>1 DEF Evidence, Resolved, Funded, Refusals, SentInv
    <3>3. lnd[r] \in Refusals <=> journal.state = "rejected"
      BY <2>3, <3>1 DEF Evidence, Resolved, Funded, Refusals
    <3>4. QED  BY <1>1, <2>1, <2>3, <3>2, <3>3 DEF Verdict
  <2>4. QED  BY <2>2, <2>3
<1>7. \A r \in Requests : Fate(r)' = Fate(r)
  BY <1>1 DEF Fate, Undecided
<1>8. Flight!Intend(a)
  BY <1>3, <1>4, <1>5, <1>6, <1>7 DEF Flight!Intend
<1>9. QED  BY <1>8 DEF Flight!Next

(* Writing a verdict on the journal's request is learning what LND did;    *)
(* writing another unresolved state is nothing.                            *)
LEMMA OldJournalLearns ==
  ASSUME IInv, NEW p \in Procs, WriteJournal(p), after[p] # "send"
  PROVE  Flight!Next \/ UNCHANGED Flight!vars
<1> USE DEF IInv, Safe
<1>1. /\ journal' = rec[p] /\ UNCHANGED <<lnd, archive>>
      /\ rec[p].id \in Requests /\ Evidence(rec[p])
      /\ journal.state \in Unresolved /\ rec[p].id = journal.id
  BY DEF WriteJournal, CopyInv, Copy, lndVars
<1>2. PICK a \in Requests : a = journal.id
  BY <1>1
<1>3. \A r \in Requests : Fate(r)' = Fate(r)
  BY <1>1 DEF Fate, Undecided
<1>4. \A r \in Requests : r # a => Verdict(r)' = Verdict(r)
  BY <1>1, <1>2 DEF Verdict
<1>5. Verdict(a) = "open"
  BY <1>1, <1>2 DEF Verdict, Unresolved
<1>6. CASE rec[p].state \in Unresolved
  <2>1. Verdict(a)' = "open"
    BY <1>1, <1>2, <1>6 DEF Verdict, Unresolved
  <2>2. QED  BY <1>3, <1>4, <1>5, <2>1, Stutter
<1>7. CASE rec[p].state \notin Unresolved
  <2>1. rec[p].state \in Resolved
    BY <1>1, <1>7, ChannelsAssumption DEF TypeOK, Record, Evidence
  <2>2. Verdict(a)' = IF rec[p].state = "rejected" THEN "refused" ELSE "done"
    BY <1>1, <1>2, <1>7 DEF Verdict
  <2>3. Fate(a) = IF rec[p].state = "rejected" THEN "refused" ELSE "done"
    BY <1>1, <1>2, <2>1 DEF Fate, Undecided, Evidence, Resolved, Funded, Refusals
  <2>4. Flight!Learn(a)
    BY <1>3, <1>4, <1>5, <2>2, <2>3 DEF Flight!Learn, Flight!Outcomes
  <2>5. QED  BY <2>4 DEF Flight!Next
<1>8. QED  BY <1>6, <1>7

(* openchannel is the abstract sending: both copies of the record are on   *)
(* disk, unresolved, and LND has not seen the request.                     *)
LEMMA SendOpenSends == ASSUME IInv, NEW p \in Procs, SendOpen(p)  PROVE Flight!Next
<1> USE DEF IInv, Safe
<1>1. /\ rec[p] = journal /\ journal.state \in Unresolved /\ lnd[journal.id] = "unsent"
      /\ lnd' = [lnd EXCEPT ![journal.id] = "inflight"] /\ UNCHANGED <<journal, archive>>
  BY DEF SendOpen, CopyInv, Copy, files
<1>2. journal.id \in Requests
  BY <1>1 DEF TypeOK, Record, Evidence, Unresolved
<1>3. PICK a \in Requests : a = journal.id
  BY <1>2
<1>4. lnd'[a] = "inflight" /\ \A r \in Requests : r # a => lnd'[r] = lnd[r]
  BY <1>1, <1>3 DEF TypeOK
<1>5. Verdict(a) = "open" /\ Fate(a) = "unsent" /\ Fate(a)' = "live"
  BY <1>1, <1>3, <1>4 DEF Verdict, Unresolved, Fate, Refusals, Undecided
<1>6. \A r \in Requests : Verdict(r)' = Verdict(r)
  BY <1>1, <1>3, <1>4 DEF Verdict
<1>7. \A r \in Requests : r # a => Fate(r)' = Fate(r)
  BY <1>4 DEF Fate, Undecided
<1>8. Flight!Send(a)
  BY <1>5, <1>6, <1>7 DEF Flight!Send
<1>9. QED  BY <1>8 DEF Flight!Next

(* LND refusing or confirming the opening is the abstract outcome: what it *)
(* still decides is the journal's request, whose verdict nobody wrote yet. *)
LEMMA LightningSettles ==
  ASSUME IInv, NEW a \in Requests, NEW from \in {"inflight", "pending"},
         NEW to \in Decided, LndBecomes(a, from, to)
  PROVE  Flight!Next
<1> USE DEF IInv, Safe
<1>1. UNCHANGED <<journal, archive>> /\ lnd[a] = from /\ lnd'[a] = to
      /\ \A r \in Requests : r # a => lnd'[r] = lnd[r]
  BY DEF LndBecomes, files, TypeOK
<1>2. journal.id = a
  BY <1>1 DEF SentInv, Decided, Funded, Refusals
<1>3. \A r \in Requests : Verdict(r)' = Verdict(r)
  BY <1>1, <1>2 DEF Verdict
<1>4. Fate(a) = "live" /\ Fate(a)' \in {"done", "refused"}
  BY <1>1 DEF Fate, Undecided, Decided, Funded, Refusals
<1>5. \A r \in Requests : r # a => Fate(r)' = Fate(r)
  BY <1>1 DEF Fate, Undecided
<1>6. Flight!Settle(a)
  BY <1>3, <1>4, <1>5 DEF Flight!Settle, Flight!Outcomes
<1>7. QED  BY <1>6 DEF Flight!Next

(* A funding transaction that is published, and a channel that closes,     *)
(* change nothing the abstract specification sees.                         *)
LEMMA LightningStutters ==
  ASSUME IInv, NEW a \in Requests, NEW from, NEW to, LndBecomes(a, from, to),
         \/ from = "inflight" /\ to = "pending"
         \/ from \in {"open", "closing"} /\ to \in {"closing", "closed"}
  PROVE  UNCHANGED Flight!vars
<1>1. UNCHANGED <<journal, archive>> /\ lnd[a] = from /\ lnd'[a] = to
      /\ \A r \in Requests : r # a => lnd'[r] = lnd[r]
  BY DEF LndBecomes, files, IInv, TypeOK
<1>2. \A r \in Requests : lnd'[r] \in Refusals <=> lnd[r] \in Refusals
  BY <1>1 DEF Refusals
<1>3. \A r \in Requests : Verdict(r)' = Verdict(r)
  BY <1>1, <1>2 DEF Verdict
<1>4. Fate(a)' = Fate(a)
  BY <1>1 DEF Fate, Undecided, Refusals
<1>5. \A r \in Requests : r # a => Fate(r)' = Fate(r)
  BY <1>1 DEF Fate, Undecided
<1>6. QED  BY <1>3, <1>4, <1>5, Stutter

(* Every move of LND and the network is a settlement or nothing.           *)
LEMMA LightningFlies ==
  ASSUME IInv, Lightning  PROVE Flight!Next \/ UNCHANGED Flight!vars
<1>1. ASSUME NEW r \in Requests, LndRefuses(r)  PROVE Flight!Next
  <2>1. PICK refusal \in Refusals : LndBecomes(r, "inflight", refusal)
    BY <1>1 DEF LndRefuses
  <2>2. QED  BY <2>1, LightningSettles DEF Decided
<1>2. ASSUME NEW r \in Requests, LndConfirms(r)  PROVE Flight!Next
  <2>1. LndBecomes(r, "pending", "open") /\ "open" \in Decided
    BY <1>2 DEF LndConfirms, Decided, Funded
  <2>2. QED  BY <2>1, LightningSettles
<1>3. ASSUME NEW r \in Requests, LndFunds(r) \/ LndCloses(r)  PROVE UNCHANGED Flight!vars
  BY <1>3, LightningStutters DEF LndFunds, LndCloses
<1>4. ASSUME NEW peer \in Peers, RemoteOpens(peer)  PROVE UNCHANGED Flight!vars
  BY <1>4, FilesStutter DEF RemoteOpens, files
<1>5. QED  BY <1>1, <1>2, <1>3, <1>4 DEF Lightning

(* The archive takes the journal's own request, which stays unseen.        *)
LEMMA ArchiveStutters ==
  ASSUME IInv, NEW p \in Procs, WriteArchive(p)  PROVE UNCHANGED Flight!vars
<1>1. rec[p] = journal /\ UNCHANGED <<lnd, journal>>
      /\ archive' = [archive EXCEPT ![journal.id] = journal.state]
  BY DEF WriteArchive, IInv, Safe, CopyInv, Copy, lndVars
<1>2. \A r \in Requests \ {journal.id} : archive'[r] = archive[r]
  BY <1>1 DEF IInv, TypeOK
<1>3. QED  BY <1>1, <1>2, FilesStutter

(* The remaining steps of a run write no file and send nothing.            *)
LEMMA RunStutters ==
  ASSUME NEW p \in Procs,
         \/ \E o \in {"look", "submit", "ack"} : Begin(p, o)
         \/ ListChannels(p) \/ Classify(p) \/ FinishLook(p) \/ Refuse(p) \/ Stop(p)
         \/ ReplyFunded(p) \/ ReplyRejected(p) \/ ReplyLost(p) \/ Attest(p)
         \/ \E r \in Requests : Submit(p, r)
         \/ \E peer \in Peers, cap \in Caps : Approve(p, peer, cap)
  PROVE  UNCHANGED Flight!vars
<1>1. UNCHANGED <<lnd, journal, archive>>
  BY DEF Begin, ListChannels, Classify, FinishLook, Refuse, Stop, ReplyFunded, ReplyRejected,
         ReplyLost, Attest, Submit, Approve, lndVars, files
<1>2. QED  BY <1>1, FilesStutter

(* The opener implements the abstract single flight: each step of a run or *)
(* of LND is an intention, a sending, a settlement, a learning or nothing. *)
THEOREM Refinement == Spec => ImplementsSingleFlight
<1>1. Init => Flight!Init
  <2> SUFFICES ASSUME Init  PROVE Flight!Init
    OBVIOUS
  <2>1. CASE /\ journal = NoRecord
             /\ archive = [r \in Requests |-> "absent"]
             /\ lnd = [r \in Requests |-> "unsent"]
    <3>1. \A r \in Requests : Verdict(r) = "none" /\ Fate(r) = "unsent"
      BY <2>1, ChannelsAssumption DEF Verdict, Fate, Undecided, Refusals, NoRecord, Unproven
    <3>2. QED  BY <3>1 DEF Flight!Init
  <2>2. ASSUME NEW r \in Requests, NEW refusal \in Refusals,
               journal = Unproven(r, "uncertain", TRUE, 0),
               archive = [q \in Requests |-> IF q = r THEN "uncertain" ELSE "absent"],
               lnd = [q \in Requests |-> IF q = r THEN refusal ELSE "unsent"]
        PROVE  Flight!Init
    <3>1. Verdict(r) = "open" /\ Fate(r) = "refused"
      BY <2>2 DEF Verdict, Fate, Undecided, Unproven, Unresolved, Refusals
    <3>2. \A q \in Requests : q # r => Verdict(q) = "none" /\ Fate(q) = "unsent"
      BY <2>2 DEF Verdict, Fate, Undecided, Refusals, Unproven
    <3>3. QED  BY <3>1, <3>2 DEF Flight!Init
  <2>3. QED  BY <2>1, <2>2 DEF Init
<1>2. IInv /\ [Next]_vars => [Flight!Next]_(Flight!vars)
  <2> SUFFICES ASSUME IInv, [Next]_vars  PROVE Flight!Next \/ UNCHANGED Flight!vars
    OBVIOUS
  <2>1. CASE UNCHANGED vars
    BY <2>1, FilesStutter DEF vars
  <2>2. CASE Lightning
    BY <2>2, LightningFlies
  <2>3. ASSUME NEW p \in Procs, WriteJournal(p)  PROVE Flight!Next \/ UNCHANGED Flight!vars
    BY <2>3, NewJournalIntends, OldJournalLearns
  <2>4. QED
    BY <2>1, <2>2, <2>3, RunStutters, ArchiveStutters, SendOpenSends DEF Next, Reconcile, Work
<1>3. QED
  BY InitIInv, IInvStep, <1>1, <1>2, PTL DEF Spec, ImplementsSingleFlight, Flight!Spec

=============================================================================
