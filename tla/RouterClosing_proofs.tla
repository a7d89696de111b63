------------------------- MODULE RouterClosing_proofs -------------------------
(***************************************************************************)
(* Proofs about RouterClosing, for any number of runs and channels.        *)
(***************************************************************************)
EXTENDS RouterClosing, TLAPS

(* The lock is held exactly from the reading of the file to the last       *)
(* writing of it.                                                          *)
InLock == {"pending", "closed", "checked", "send", "reply"}
LockInv == \A p \in Procs : p \in lock <=> pc[p] \in InLock

(* What is submitted was approved.                                         *)
PlanInv ==
  \A p \in Procs :
    /\ pc[p] \in {"approved", "checked", "send", "reply"} => plan[p] \in Plans
    /\ job[p] = "submit" => plan[p] \in Plans
    /\ pc[p] = "checked" => job[p] = "submit"

(* The holder's copy is the file, and what it was shown as pending is past *)
(* recall.                                                                 *)
CopyInv ==
  \A p \in Procs :
    /\ pc[p] \in InLock => mem[p] = records
    /\ pc[p] = "closed" =>
         \A c \in pending[p] : chan[c] \in {"closing", "closed"} /\ records[c] # "closed"

(* A channel without a record was not asked to close.                      *)
AskedInv == \A c \in Points : asked[c] = 0 \/ (asked[c] = 1 /\ records[c] # "absent")

(* From the record on file to the answer.                                  *)
SendInv ==
  \A p \in Procs :
    /\ pc[p] \in {"send", "reply"} => records[plan[p].point] = "submitting"
    /\ pc[p] = "send" => asked[plan[p].point] = 0

IInv ==
  TypeOK /\ LockInv /\ PlanInv /\ CopyInv /\ AskedInv /\ SendInv /\ ClosedHasEvidence

-----------------------------------------------------------------------------
(* Types.                                                                  *)

(* Leaving keeps the types of what a run is made of.                       *)
LEMMA LeaveTypes == ASSUME TypeOK, NEW p \in Procs, Leave(p)
  PROVE /\ lock' \subseteq Procs /\ \A q, r \in lock' : q = r
        /\ pc' \in [Procs -> {"idle", "pending", "closed", "prompt", "approved", "checked",
                              "send", "reply"}]
        /\ job' \in [Procs -> {"look", "submit"}]
        /\ mem' \in [Procs -> [Points -> RecordStates]]
        /\ pending' \in [Procs -> SUBSET Points]
        /\ plan' \in [Procs -> Plans \cup {NoPlan}]
<1>1. NoRecords \in [Points -> RecordStates]
  BY DEF NoRecords, RecordStates
<1>2. QED  BY <1>1 DEF TypeOK, Leave, Goto

(* What the two lists show of a channel is a state a record may have.      *)
LEMMA ObservedType == ASSUME TypeOK, NEW p \in Procs, NEW c \in Points
  PROVE  Observed(p, c) \in RecordStates
<1>1. mem[p][c] \in RecordStates
  BY DEF TypeOK
<1>2. QED  BY <1>1 DEF Observed, RecordStates

(* Saving the record of what is submitted.                                 *)
LEMMA SaveTypes ==
  ASSUME TypeOK, NEW p \in Procs, plan[p] \in Plans, NEW s \in RecordStates, SaveRecord(p, s)
  PROVE  /\ mem' \in [Procs -> [Points -> RecordStates]]
         /\ records' \in [Points -> RecordStates]
<1>1. mem \in [Procs -> [Points -> RecordStates]]
  BY DEF TypeOK
<1>2. [mem[p] EXCEPT ![plan[p].point] = s] \in [Points -> RecordStates]
  BY <1>1
<1>3. QED  BY <1>1, <1>2 DEF SaveRecord

(* What the operator approves is a channel and its balance.                *)
LEMMA PreviewType == ASSUME TypeOK, NEW c \in Points, NEW s \in Preview(c)
  PROVE  s \in Plans /\ s.point = c /\ Listed(c)
BY DEF TypeOK, Preview, Plans

(* A step of a run, and of LND, keeps the types.                           *)
LEMMA Types == ASSUME TypeOK, PlanInv, [Next]_vars  PROVE TypeOK'
<1> USE DEF lnd
<1>1. ASSUME NEW p \in Procs, Begin(p)  PROVE TypeOK'
  BY <1>1 DEF TypeOK, Begin, Goto
<1>2. ASSUME NEW p \in Procs, ListPending(p)  PROVE TypeOK'
  BY <1>2 DEF TypeOK, ListPending, Goto, Closing
<1>3. ASSUME NEW p \in Procs, WriteStatus(p)  PROVE TypeOK'
  <2>1. records' \in [Points -> RecordStates]
    BY <1>3, ObservedType DEF WriteStatus
  <2>2. QED  BY <1>3, <2>1 DEF TypeOK, WriteStatus, Goto
<1>4. ASSUME NEW p \in Procs, Submit(p)  PROVE TypeOK'
  <2>1. plan[p] \in Plans /\ SaveRecord(p, "submitting") /\ "submitting" \in RecordStates
    BY <1>4 DEF PlanInv, Submit, RecordStates
  <2>2. QED  BY <1>4, <2>1, SaveTypes DEF TypeOK, Submit, Goto
<1>5. ASSUME NEW p \in Procs, SendClose(p)  PROVE TypeOK'
  <2>1. chan' \in [Points -> ChanStates] /\ asked' \in [Points -> Nat]
    <3>1. plan[p].point \in Points
      BY <1>5 DEF PlanInv, SendClose, Plans
    <3>2. chan[plan[p].point] \in ChanStates /\ asked[plan[p].point] \in Nat
      BY <3>1 DEF TypeOK
    <3>3. (IF chan[plan[p].point] = "open" THEN "requested" ELSE chan[plan[p].point])
            \in ChanStates
      BY <3>2 DEF ChanStates
    <3>4. QED  BY <1>5, <3>1, <3>2, <3>3 DEF TypeOK, SendClose
  <2>2. QED  BY <1>5, <2>1 DEF TypeOK, SendClose, Goto
<1>6. ASSUME NEW p \in Procs, ReplyOk(p) \/ ReplyLost(p)  PROVE TypeOK'
  <2>1. records' \in [Points -> RecordStates] /\ Leave(p) /\ UNCHANGED lnd
    BY <1>6 DEF TypeOK, ReplyOk, ReplyLost, RecordStates
  <2>2. QED  BY <2>1, LeaveTypes DEF TypeOK
<1>7. ASSUME NEW p \in Procs, NEW c \in Points, Approve(p, c)  PROVE TypeOK'
  BY <1>7, PreviewType DEF TypeOK, Approve, Goto
<1>8. ASSUME NEW p \in Procs, Stop(p)  PROVE TypeOK'
  BY <1>8, LeaveTypes DEF TypeOK, Stop
<1>9. ASSUME NEW c \in Points, Closes(c) \/ Refuses(c) \/ Confirms(c)  PROVE TypeOK'
  BY <1>9 DEF TypeOK, Closes, Refuses, Confirms, Becomes, ChanStates
<1>10. ASSUME NEW c \in Points, Moves(c)  PROVE TypeOK'
  <2>1. balance' \in [Points -> 0..MaxMoves]
    BY <1>10, ClosingAssumption DEF TypeOK, Moves
  <2>2. QED  BY <1>10, <2>1 DEF TypeOK, Moves
<1>11. CASE UNCHANGED vars
  BY <1>11 DEF TypeOK, vars
<1>12. QED
  BY <1>1, <1>2, <1>3, <1>4, <1>5, <1>6, <1>7, <1>8, <1>9, <1>10, <1>11 DEF Next, Step

-----------------------------------------------------------------------------
(* The invariant, one lemma per step.                                      *)

(* Two runs past the lock are one.                                         *)
LEMMA Alone ==
  ASSUME TypeOK, LockInv, NEW p \in Procs, pc[p] \in InLock, NEW q \in Procs, pc[q] \in InLock
  PROVE  p = q
BY DEF TypeOK, LockInv

(* A run that leaves takes nothing with it: with the file as it was, the   *)
(* invariant holds of the others.                                          *)
LEMMA LeaveInv == ASSUME IInv, NEW p \in Procs, Leave(p)
  PROVE  /\ LockInv' /\ PlanInv'
         /\ \A q \in Procs : pc'[q] \in InLock =>
               /\ q # p /\ pc[q] = pc'[q] /\ mem'[q] = mem[q]
               /\ pending'[q] = pending[q] /\ plan'[q] = plan[q]
<1>1. /\ pc \in [Procs -> {"idle", "pending", "closed", "prompt", "approved", "checked", "send",
                          "reply"}]
      /\ job \in [Procs -> {"look", "submit"}] /\ mem \in [Procs -> [Points -> RecordStates]]
      /\ pending \in [Procs -> SUBSET Points] /\ plan \in [Procs -> Plans \cup {NoPlan}]
  BY DEF IInv, TypeOK
<1>2. pc'[p] = "idle" /\ job'[p] = "look" /\ plan'[p] = NoPlan
  BY <1>1 DEF Leave, Goto
<1>3. \A q \in Procs : q # p =>
        /\ pc'[q] = pc[q] /\ job'[q] = job[q] /\ mem'[q] = mem[q]
        /\ pending'[q] = pending[q] /\ plan'[q] = plan[q] /\ (q \in lock' <=> q \in lock)
  BY <1>1 DEF Leave, Goto
<1>4. p \notin lock'
  BY DEF Leave
<1>5. LockInv'
  BY <1>2, <1>3, <1>4 DEF IInv, LockInv, InLock
<1>6. PlanInv'
  BY <1>2, <1>3 DEF IInv, PlanInv
<1>7. QED  BY <1>2, <1>3, <1>5, <1>6 DEF InLock

(* A run takes the lock and reads the file.                                *)
LEMMA BeginInv == ASSUME IInv, NEW p \in Procs, Begin(p)  PROVE IInv'
<1> USE DEF IInv, lnd
<1>1. TypeOK'
  BY Types DEF Next
<1>2. /\ pc' = [pc EXCEPT ![p] = "pending"] /\ pc'[p] = "pending" /\ mem'[p] = records
      /\ \A q \in Procs : q # p =>
            pc'[q] = pc[q] /\ job'[q] = job[q] /\ pc[q] \notin InLock /\ mem'[q] = mem[q]
  BY DEF Begin, Goto, TypeOK, LockInv
<1>3. LockInv'
  BY <1>2 DEF LockInv, Begin, InLock
<1>4. PlanInv'
  BY <1>2 DEF PlanInv, Begin, TypeOK
<1>5. CopyInv' /\ SendInv'
  BY <1>2 DEF CopyInv, SendInv, Begin, InLock
<1>6. AskedInv' /\ ClosedHasEvidence'
  BY DEF AskedInv, ClosedHasEvidence, Begin
<1>7. QED  BY <1>1, <1>3, <1>4, <1>5, <1>6

(* pendingchannels shows channels that are on their way out for good.      *)
LEMMA ListPendingInv == ASSUME IInv, NEW p \in Procs, ListPending(p)  PROVE IInv'
<1> USE DEF IInv, lnd
<1>1. TypeOK'
  BY Types DEF Next, Step
<1>2. /\ pc[p] = "pending" /\ pc'[p] = "closed" /\ pending'[p] = Closing
      /\ \A q \in Procs : q # p => pc'[q] = pc[q] /\ pending'[q] = pending[q]
  BY DEF ListPending, Goto, TypeOK
<1>3. LockInv'
  BY <1>2 DEF LockInv, ListPending, InLock
<1>4. PlanInv' /\ SendInv'
  BY <1>2 DEF PlanInv, SendInv, ListPending
<1>5. CopyInv'
  BY <1>2 DEF CopyInv, ListPending, InLock, Closing, ClosedHasEvidence
<1>6. AskedInv' /\ ClosedHasEvidence'
  BY DEF AskedInv, ClosedHasEvidence, ListPending
<1>7. QED  BY <1>1, <1>3, <1>4, <1>5, <1>6

(* What status makes of a record, from what the two replies showed.        *)
LEMMA ObservedIs == ASSUME IInv, NEW p \in Procs, pc[p] = "closed", NEW c \in Points
  PROVE  LET o == Observed(p, c)
         IN  /\ o = "absent" <=> records[c] = "absent"
             /\ o = "closed" => chan[c] = "closed"
             /\ o = "closing" => chan[c] \in {"closing", "closed"}
             /\ o # records[c] =>
                  /\ o \in {"closing", "closed"} /\ records[c] # "closed"
                  /\ o = "closed" \/ records[c] # "closing"
<1>1. mem[p] = records /\ records[c] \in RecordStates
  BY DEF IInv, CopyInv, InLock, TypeOK
<1>2. c \in pending[p] => chan[c] \in {"closing", "closed"} /\ records[c] # "closed"
  BY DEF IInv, CopyInv
<1>3. records[c] = "closed" => chan[c] = "closed"
  BY DEF IInv, ClosedHasEvidence
<1>4. records[c] = "closing" => chan[c] \in {"closing", "closed"}
  BY DEF IInv, ClosedHasEvidence
<1>5. CASE records[c] = "absent"
  BY <1>1, <1>5 DEF Observed
<1>6. CASE records[c] # "absent" /\ c \in pending[p]
  BY <1>1, <1>2, <1>6 DEF Observed
<1>7. CASE records[c] # "absent" /\ c \notin pending[p] /\ chan[c] = "closed"
  BY <1>1, <1>7 DEF Observed
<1>8. CASE records[c] # "absent" /\ c \notin pending[p] /\ chan[c] # "closed"
  BY <1>1, <1>3, <1>4, <1>8 DEF Observed
<1>9. QED  BY <1>5, <1>6, <1>7, <1>8

(* The screen writes what it saw; a record changes only to closing or      *)
(* closed.                                                                 *)
LEMMA WriteStatusInv == ASSUME IInv, NEW p \in Procs, WriteStatus(p)  PROVE IInv'
<1> USE DEF IInv, lnd
<1>1. TypeOK'
  BY Types DEF Next, Step
<1>2. /\ pc[p] = "closed" /\ \A q \in Procs : q # p => pc[q] \notin InLock
      /\ mem'[p] = records'
      /\ \A q \in Procs : q # p => pc'[q] = pc[q] /\ mem'[q] = mem[q] /\ pending'[q] = pending[q]
  BY Alone DEF WriteStatus, Goto, TypeOK, InLock
<1>3. \A c \in Points : records'[c] = Observed(p, c)
  BY DEF WriteStatus
<1>4. UNCHANGED <<chan, balance, asked, job, plan>>
  BY DEF WriteStatus
<1>5. ASSUME job[p] = "look", lock' = lock \ {p}, Goto(p, "prompt")
      PROVE  LockInv' /\ PlanInv' /\ pc'[p] = "prompt"
  BY <1>2, <1>4, <1>5 DEF Goto, LockInv, PlanInv, InLock, TypeOK
<1>6. ASSUME job[p] # "look", lock' = lock, Goto(p, "checked")
      PROVE  LockInv' /\ PlanInv' /\ pc'[p] = "checked"
  <2>1. job[p] = "submit" /\ pc'[p] = "checked"
    BY <1>6 DEF Goto, TypeOK
  <2>2. QED  BY <1>2, <1>4, <1>6, <2>1 DEF LockInv, PlanInv, InLock
<1>7. LockInv' /\ PlanInv' /\ pc'[p] \in {"prompt", "checked"}
  BY <1>5, <1>6 DEF WriteStatus
<1>8. CopyInv' /\ SendInv'
  BY <1>2, <1>7 DEF CopyInv, SendInv, InLock
<1>9. AskedInv'
  <2> SUFFICES ASSUME NEW c \in Points, asked[c] # 0  PROVE asked[c] = 1 /\ records'[c] # "absent"
    BY <1>4 DEF AskedInv
  <2>1. QED  BY <1>2, <1>3, ObservedIs DEF AskedInv
<1>10. ClosedHasEvidence'
  BY <1>2, <1>3, <1>4, ObservedIs DEF ClosedHasEvidence
<1>11. QED  BY <1>1, <1>7, <1>8, <1>9, <1>10

(* The operator approves what preview showed, without the lock.            *)
LEMMA ApproveInv == ASSUME IInv, NEW p \in Procs, NEW c \in Points, Approve(p, c)  PROVE IInv'
<1> USE DEF IInv, lnd
<1>1. TypeOK'
  BY Types DEF Next, Step
<1>2. /\ pc[p] = "prompt" /\ pc'[p] = "approved" /\ plan'[p] \in Plans
      /\ \A q \in Procs : q # p => pc'[q] = pc[q] /\ plan'[q] = plan[q]
  BY PreviewType DEF Approve, Goto, TypeOK
<1>3. UNCHANGED <<chan, asked, records, lock, job, mem, pending>>
  BY DEF Approve
<1>4. LockInv'
  BY <1>2, <1>3 DEF LockInv, InLock
<1>5. PlanInv'
  BY <1>2, <1>3 DEF PlanInv
<1>6. CopyInv' /\ SendInv'
  BY <1>2, <1>3 DEF CopyInv, SendInv, InLock
<1>7. AskedInv' /\ ClosedHasEvidence'
  BY <1>3 DEF AskedInv, ClosedHasEvidence
<1>8. QED  BY <1>1, <1>4, <1>5, <1>6, <1>7

(* The record is written before the call, over no other record.            *)
LEMMA SubmitInv == ASSUME IInv, NEW p \in Procs, Submit(p)  PROVE IInv'
<1> USE DEF IInv, lnd
<1> DEFINE point == plan[p].point
<1>1. TypeOK'
  BY Types DEF Next, Step
<1>2. /\ pc[p] = "checked" /\ pc'[p] = "send" /\ \A q \in Procs : q # p => pc[q] \notin InLock
      /\ \A q \in Procs : q # p => pc'[q] = pc[q]
  BY Alone DEF Submit, Goto, TypeOK, InLock
<1>3. plan[p] \in Plans /\ point \in Points /\ mem[p] = records /\ records[point] = "absent"
  BY <1>2 DEF Submit, PlanInv, Plans, CopyInv, InLock, NoRecordYet
<1>4. /\ mem'[p] = records' /\ records' = [records EXCEPT ![point] = "submitting"]
      /\ \A q \in Procs : q # p => mem'[q] = mem[q]
  BY <1>3 DEF Submit, SaveRecord, TypeOK
<1>5. /\ records'[point] = "submitting"
      /\ \A c \in Points : c # point => records'[c] = records[c]
  BY <1>3, <1>4 DEF TypeOK
<1>6. UNCHANGED <<chan, balance, asked, lock, job, pending, plan>>
  BY DEF Submit
<1>7. LockInv' /\ PlanInv'
  BY <1>2, <1>3, <1>6 DEF LockInv, PlanInv, InLock
<1>8. CopyInv'
  BY <1>2, <1>4, <1>6 DEF CopyInv, InLock
<1>9. AskedInv' /\ ClosedHasEvidence'
  BY <1>3, <1>5, <1>6 DEF AskedInv, ClosedHasEvidence
<1>10. SendInv'
  BY <1>2, <1>3, <1>5, <1>6 DEF SendInv, AskedInv, InLock
<1>11. QED  BY <1>1, <1>7, <1>8, <1>9, <1>10

(* closechannel is called for a channel that was not asked for before.     *)
LEMMA SendCloseInv == ASSUME IInv, NEW p \in Procs, SendClose(p)  PROVE IInv'
<1> USE DEF IInv, lnd
<1> DEFINE point == plan[p].point
<1>1. TypeOK'
  BY Types DEF Next, Step
<1>2. /\ pc[p] = "send" /\ pc'[p] = "reply" /\ \A q \in Procs : q # p => pc[q] \notin InLock
      /\ \A q \in Procs : q # p => pc'[q] = pc[q]
  BY Alone DEF SendClose, Goto, TypeOK, InLock
<1>3. /\ plan[p] \in Plans /\ point \in Points /\ asked[point] = 0
      /\ records[point] = "submitting"
  BY <1>2 DEF PlanInv, Plans, SendInv
<1>4. UNCHANGED <<balance, records, lock, job, mem, pending, plan>>
  BY DEF SendClose
<1>5. asked'[point] = 1 /\ \A c \in Points : c # point => asked'[c] = asked[c]
  BY <1>3 DEF SendClose, TypeOK
<1>6. \A c \in Points : chan[c] \in {"closing", "closed"} => chan'[c] = chan[c]
  <2> TAKE c \in Points
  <2>1. CASE c = point
    BY <1>3, <2>1 DEF SendClose, TypeOK
  <2>2. CASE c # point
    BY <1>3, <2>2 DEF SendClose, TypeOK
  <2>3. QED  BY <2>1, <2>2
<1>7. LockInv' /\ PlanInv'
  BY <1>2, <1>3, <1>4 DEF LockInv, PlanInv, InLock
<1>8. CopyInv'
  BY <1>2, <1>4 DEF CopyInv, InLock
<1>9. AskedInv'
  BY <1>3, <1>4, <1>5 DEF AskedInv
<1>10. ClosedHasEvidence'
  BY <1>4, <1>6 DEF ClosedHasEvidence, TypeOK
<1>11. SendInv'
  BY <1>2, <1>3, <1>4 DEF SendInv, InLock
<1>12. QED  BY <1>1, <1>7, <1>8, <1>9, <1>10, <1>11

(* The answer, or its absence, is written over the record of the call.     *)
LEMMA ReplyInv == ASSUME IInv, NEW p \in Procs, ReplyOk(p) \/ ReplyLost(p)  PROVE IInv'
<1> USE DEF IInv, lnd
<1> DEFINE point == plan[p].point
<1>1. TypeOK'
  BY Types DEF Next, Step
<1>2. /\ pc[p] = "reply" /\ Leave(p) /\ UNCHANGED <<chan, balance, asked>>
      /\ \A q \in Procs : q # p => pc[q] \notin InLock
  BY Alone DEF ReplyOk, ReplyLost, InLock
<1>3. plan[p] \in Plans /\ point \in Points /\ mem[p] = records
  BY <1>2 DEF PlanInv, Plans, CopyInv, InLock
<1>4. /\ \A c \in Points : c # point => records'[c] = records[c]
      /\ \/ records'[point] = "uncertain"
         \/ records'[point] = "closing" /\ chan[point] \in {"closing", "closed"}
  BY <1>3 DEF ReplyOk, ReplyLost, TypeOK
<1>5. /\ LockInv' /\ PlanInv'
      /\ \A q \in Procs : pc'[q] \notin InLock
  BY <1>2, LeaveInv
<1>6. CopyInv' /\ SendInv'
  BY <1>5 DEF CopyInv, SendInv, InLock
<1>7. AskedInv' /\ ClosedHasEvidence'
  BY <1>2, <1>3, <1>4 DEF AskedInv, ClosedHasEvidence
<1>8. QED  BY <1>1, <1>5, <1>6, <1>7

(* A run killed at any point leaves the file as it was.                    *)
LEMMA StopInv == ASSUME IInv, NEW p \in Procs, Stop(p)  PROVE IInv'
<1> USE DEF IInv, lnd
<1>1. TypeOK'
  BY Types DEF Next
<1>2. Leave(p) /\ UNCHANGED <<chan, balance, asked, records>>
  BY DEF Stop
<1>3. LockInv' /\ PlanInv'
  BY <1>2, LeaveInv
<1>4. CopyInv' /\ SendInv'
  BY <1>2, LeaveInv DEF CopyInv, SendInv, InLock
<1>5. AskedInv' /\ ClosedHasEvidence'
  BY <1>2 DEF AskedInv, ClosedHasEvidence
<1>6. QED  BY <1>1, <1>3, <1>4, <1>5

(* LND and the peer close the channel, or refuse; nothing closed reopens.  *)
LEMMA LndInv ==
  ASSUME IInv, NEW c \in Points, Closes(c) \/ Refuses(c) \/ Confirms(c) \/ Moves(c)
  PROVE  IInv'
<1> USE DEF IInv, lnd
<1>1. TypeOK'
  BY Types DEF Next
<1>2. UNCHANGED <<asked, records, lock, pc, job, mem, pending, plan>>
  BY DEF Closes, Refuses, Confirms, Becomes, Moves
<1>3. \A d \in Points :
        /\ chan[d] = "closed" => chan'[d] = "closed"
        /\ chan[d] = "closing" => chan'[d] \in {"closing", "closed"}
  <2> TAKE d \in Points
  <2>1. CASE d = c
    BY <2>1 DEF Closes, Refuses, Confirms, Becomes, Moves, TypeOK
  <2>2. CASE d # c
    BY <2>2 DEF Closes, Refuses, Confirms, Becomes, Moves, TypeOK
  <2>3. QED  BY <2>1, <2>2
<1>4. LockInv' /\ PlanInv' /\ SendInv' /\ AskedInv'
  BY <1>2 DEF LockInv, PlanInv, SendInv, AskedInv
<1>5. CopyInv' /\ ClosedHasEvidence'
  BY <1>2, <1>3 DEF CopyInv, ClosedHasEvidence, TypeOK
<1>6. QED  BY <1>1, <1>4, <1>5

(* The invariant is inductive.                                             *)
LEMMA InitInv == Init => IInv
<1> SUFFICES ASSUME Init  PROVE IInv
  OBVIOUS
<1> USE DEF Init
<1>1. NoRecords \in [Points -> RecordStates] /\ \A c \in Points : NoRecords[c] = "absent"
  BY DEF NoRecords, RecordStates
<1>2. balance \in [Points -> 0..MaxMoves]
  BY ClosingAssumption
<1>3. TypeOK
  BY <1>1, <1>2 DEF TypeOK, ChanStates
<1>4. LockInv /\ PlanInv /\ CopyInv /\ AskedInv /\ SendInv /\ ClosedHasEvidence
  BY <1>1 DEF LockInv, InLock, PlanInv, CopyInv, AskedInv, SendInv, ClosedHasEvidence
<1>5. QED  BY <1>3, <1>4 DEF IInv

(* Every step keeps it.                                                    *)
LEMMA NextInv == IInv /\ [Next]_vars => IInv'
<1> SUFFICES ASSUME IInv, [Next]_vars  PROVE IInv'
  OBVIOUS
<1>1. CASE UNCHANGED vars
  BY <1>1 DEF vars, IInv, TypeOK, LockInv, PlanInv, CopyInv, AskedInv, SendInv, ClosedHasEvidence
<1>2. CASE Next
  BY <1>2, BeginInv, ListPendingInv, WriteStatusInv, ApproveInv, SubmitInv, SendCloseInv,
     ReplyInv, StopInv, LndInv DEF Next, Step
<1>3. QED  BY <1>1, <1>2

-----------------------------------------------------------------------------
(* The theorems.                                                           *)

(* Every reachable state is well typed: one run in the lock, a plan that   *)
(* preview showed, a record in one of its states.                          *)
THEOREM Typing == Spec => []TypeOK
<1>1. IInv => TypeOK
  BY DEF IInv
<1>2. QED  BY InitInv, NextInv, <1>1, PTL DEF Spec

(* closechannel is called at most once per channel, in any interleaving of *)
(* any number of runs killed anywhere, and never before its record is on   *)
(* file.                                                                   *)
THEOREM AskedOnce == Spec => []CloseAskedOnce
<1>1. IInv => CloseAskedOnce
  BY DEF IInv, TypeOK, AskedInv, CloseAskedOnce
<1>2. QED  BY InitInv, NextInv, <1>1, PTL DEF Spec

(* The file says closing or closed only of a channel that is: a missing    *)
(* list entry never becomes evidence.                                      *)
THEOREM HasEvidence == Spec => []ClosedHasEvidence
<1>1. IInv => ClosedHasEvidence
  BY DEF IInv
<1>2. QED  BY InitInv, NextInv, <1>1, PTL DEF Spec

(* How far a record has come.                                              *)
LEMMA RankOf ==
  /\ Rank["absent"] = 0 /\ Rank["submitting"] = 1 /\ Rank["uncertain"] = 2
  /\ Rank["closing"] = 3 /\ Rank["closed"] = 4
BY DEF Rank

(* A status pass moves a record forward or not at all.                     *)
LEMMA ObservedAdvances == ASSUME IInv, NEW p \in Procs, pc[p] = "closed", NEW c \in Points
  PROVE  Rank[Observed(p, c)] >= Rank[records[c]]
<1>1. records[c] \in RecordStates
  BY DEF IInv, TypeOK
<1>2. CASE Observed(p, c) = records[c]
  BY <1>1, <1>2, RankOf DEF RecordStates
<1>3. CASE Observed(p, c) # records[c]
  BY <1>1, <1>3, ObservedIs, RankOf DEF RecordStates
<1>4. QED  BY <1>2, <1>3

(* Every write of the file moves each record forward: the copy written     *)
(* back is never older than the file.                                      *)
THEOREM Advance == Spec => RecordsAdvance
<1> DEFINE Adv == \A c \in Points : Rank[records'[c]] >= Rank[records[c]]
<1>1. ASSUME IInv, [Next]_vars, records' # records  PROVE Adv
  <2> SUFFICES ASSUME NEW c \in Points  PROVE Rank[records'[c]] >= Rank[records[c]]
    OBVIOUS
  <2>1. records[c] \in RecordStates
    BY <1>1 DEF IInv, TypeOK
  <2>2. ASSUME NEW p \in Procs, WriteStatus(p)  PROVE Rank[records'[c]] >= Rank[records[c]]
    BY <1>1, <2>2, ObservedAdvances DEF WriteStatus
  <2>3. ASSUME NEW p \in Procs, Submit(p)  PROVE Rank[records'[c]] >= Rank[records[c]]
    <3>1. /\ mem[p] = records /\ records[plan[p].point] = "absent" /\ plan[p].point \in Points
          /\ mem \in [Procs -> [Points -> RecordStates]]
      BY <1>1, <2>3 DEF IInv, TypeOK, CopyInv, PlanInv, Plans, InLock, Submit, NoRecordYet
    <3>2. records' = [records EXCEPT ![plan[p].point] = "submitting"]
      BY <2>3, <3>1 DEF Submit, SaveRecord
    <3>3. QED  BY <1>1, <2>1, <3>1, <3>2, RankOf DEF IInv, TypeOK, RecordStates
  <2>4. ASSUME NEW p \in Procs, ReplyOk(p) \/ ReplyLost(p)
        PROVE  Rank[records'[c]] >= Rank[records[c]]
    <3>1. mem[p] = records /\ records[plan[p].point] = "submitting"
      BY <1>1, <2>4 DEF IInv, CopyInv, SendInv, InLock, ReplyOk, ReplyLost
    <3>2. records'[c] = records[c] \/ (c = plan[p].point /\ records'[c] \in {"uncertain", "closing"})
      BY <1>1, <2>4, <3>1 DEF IInv, TypeOK, ReplyOk, ReplyLost
    <3>3. QED  BY <2>1, <3>1, <3>2, RankOf DEF RecordStates
  <2>5. QED
    BY <1>1, <2>2, <2>3, <2>4 DEF Next, Step, Begin, ListPending, SendClose, Approve, Stop,
       Closes, Refuses, Confirms, Becomes, Moves, vars
<1>2. QED
  <2>1. IInv /\ [Next]_vars => [Adv]_records
    BY <1>1
  <2>2. QED  BY InitInv, NextInv, <2>1, PTL DEF Spec, RecordsAdvance

=============================================================================
