----------------------------- MODULE RouterClosing -----------------------------
(***************************************************************************)
(* The journaled cooperative close: ops/router_closing.py and its screen   *)
(* ops/router-close.  One file, close-requests.json, holds a record per    *)
(* channel point; it is rewritten whole, under operations.lock.            *)
(*                                                                         *)
(* Abstractions.  Fee rates, amounts and the wallet identity are left out; *)
(* the local balance that preview compares is a version that moves.  The   *)
(* three pending groups are one state.  A forced or remote close is LND's. *)
(***************************************************************************)
EXTENDS Naturals

CONSTANTS
  Procs,      \* runs of ops/router-close
  Points,     \* channel points
  Busy,       \* bound: the channels whose balance moves
  MaxMoves    \* bound: how often it moves

ASSUME ClosingAssumption == MaxMoves \in Nat /\ Busy \subseteq Points

VARIABLES
  chan,       \* chan[c]: the channel as LND has it
  balance,    \* balance[c]: its version
  asked,      \* asked[c]: how often closechannel was called
  records,    \* close-requests.json
  lock,
  pc, job,
  mem,        \* the records a run read
  pending,    \* the points pendingchannels showed it
  plan        \* the point and the balance its operator approved

lnd == <<chan, balance, asked>>
vars == <<chan, balance, asked, records, lock, pc, job, mem, pending, plan>>

-----------------------------------------------------------------------------

(* requested: closechannel is on its way.                                  *)
ChanStates == {"open", "requested", "closing", "closed"}
Listed(c) == chan[c] \in {"open", "requested"}
Closing == {c \in Points : chan[c] = "closing"}

RecordStates == {"absent", "submitting", "uncertain", "closing", "closed"}
NoRecords == [c \in Points |-> "absent"]

Plans == [point : Points, balance : 0..MaxMoves]
NoPlan == [point |-> "none", balance |-> 0]

Init ==
  /\ chan = [c \in Points |-> "open"]
  /\ balance = [c \in Points |-> 0]
  /\ asked = [c \in Points |-> 0]
  /\ records = NoRecords
  /\ lock = {}
  /\ pc = [p \in Procs |-> "idle"]
  /\ job = [p \in Procs |-> "look"]
  /\ mem = [p \in Procs |-> NoRecords]
  /\ pending = [p \in Procs |-> {}]
  /\ plan = [p \in Procs |-> NoPlan]

Goto(p, l) == pc' = [pc EXCEPT ![p] = l]

Leave(p) ==
  /\ lock' = lock \ {p}
  /\ Goto(p, "idle")
  /\ job' = [job EXCEPT ![p] = "look"]
  /\ mem' = [mem EXCEPT ![p] = NoRecords]
  /\ pending' = [pending EXCEPT ![p] = {}]
  /\ plan' = [plan EXCEPT ![p] = NoPlan]

-----------------------------------------------------------------------------
(* status, for the screen and at the head of submit.                       *)

BeginUnlocked(p) ==                                         \* mutant
  /\ \/ pc[p] = "idle" /\ UNCHANGED job
     \/ pc[p] = "approved" /\ job' = [job EXCEPT ![p] = "submit"]
  /\ lock' = lock \cup {p}
  /\ mem' = [mem EXCEPT ![p] = records]
  /\ Goto(p, "pending")
  /\ UNCHANGED <<lnd, records, pending, plan>>

Begin(p) ==
  /\ \/ pc[p] = "idle" /\ UNCHANGED job
     \/ pc[p] = "approved" /\ job' = [job EXCEPT ![p] = "submit"]
  /\ lock = {} /\ lock' = {p}
  /\ mem' = [mem EXCEPT ![p] = records]
  /\ Goto(p, "pending")
  /\ UNCHANGED <<lnd, records, pending, plan>>

(* The lock released between reading the file and writing it.              *)
EarlyRelease(p) ==                                          \* mutant
  /\ pc[p] = "pending"
  /\ pending' = [pending EXCEPT ![p] = Closing]
  /\ lock' = lock \ {p}
  /\ Goto(p, "closed")
  /\ UNCHANGED <<lnd, records, job, mem, plan>>

ListPending(p) ==
  /\ pc[p] = "pending"
  /\ pending' = [pending EXCEPT ![p] = Closing]
  /\ Goto(p, "closed")
  /\ UNCHANGED <<lnd, records, lock, job, mem, plan>>

(* A channel missing from the lists taken as closed.                       *)
MissingMeansClosed(p, c) ==                                 \* mutant
  LET known == mem[p][c] # "absent"
  IN  CASE known /\ c \in pending[p]                   -> "closing"
        [] known /\ c \notin pending[p] /\ ~Listed(c)  -> "closed"
        [] OTHER                                       -> mem[p][c]

(* The closedchannels reply not looked at.                                 *)
PendingOnly(p, c) ==                                        \* mutant
  IF mem[p][c] # "absent" /\ c \in pending[p] THEN "closing" ELSE mem[p][c]

(* Missing evidence never means closed.                                    *)
Observed(p, c) ==
  LET known == mem[p][c] # "absent"
  IN  CASE known /\ c \in pending[p]                          -> "closing"
        [] known /\ c \notin pending[p] /\ chan[c] = "closed" -> "closed"
        [] OTHER                                              -> mem[p][c]

WriteStatus(p) ==
  /\ pc[p] = "closed"
  /\ records' = [c \in Points |-> Observed(p, c)]
  /\ mem' = [mem EXCEPT ![p] = records']
  /\ pending' = [pending EXCEPT ![p] = {}]
  /\ IF job[p] = "look"
       THEN lock' = lock \ {p} /\ Goto(p, "prompt")
       ELSE Goto(p, "checked") /\ UNCHANGED lock
  /\ UNCHANGED <<lnd, job, plan>>

-----------------------------------------------------------------------------
(* The screen: preview without the lock, approve.                          *)

(* Listed, online, no pending HTLC, not closing: Stop stands for the rest. *)
Preview(c) == IF Listed(c) THEN {[point |-> c, balance |-> balance[c]]} ELSE {}

Approve(p, c) ==
  /\ pc[p] = "prompt"
  /\ mem[p][c] = "absent"
  /\ \E summary \in Preview(c) : plan' = [plan EXCEPT ![p] = summary]
  /\ Goto(p, "approved")
  /\ UNCHANGED <<lnd, records, lock, job, mem, pending>>

(* submit looks only at what is not yet known to be over.                  *)
NoneInProgress(p) ==                                        \* mutant
  mem[p][plan[p].point] \in {"absent", "uncertain"}

NoRecordYet(p) == mem[p][plan[p].point] = "absent"

SaveRecord(p, state) ==
  /\ mem' = [mem EXCEPT ![p] = [@ EXCEPT ![plan[p].point] = state]]
  /\ records' = mem'[p]

Submit(p) ==
  /\ pc[p] = "checked"
  /\ NoRecordYet(p)
  /\ plan[p] \in Preview(plan[p].point)
  /\ SaveRecord(p, "submitting")
  /\ Goto(p, "send")
  /\ UNCHANGED <<lnd, lock, job, pending, plan>>

SendClose(p) ==
  /\ pc[p] = "send"
  /\ asked' = [asked EXCEPT ![plan[p].point] = @ + 1]
  /\ chan' = [chan EXCEPT ![plan[p].point] = IF @ = "open" THEN "requested" ELSE @]
  /\ Goto(p, "reply")
  /\ UNCHANGED <<balance, records, lock, job, mem, pending, plan>>

(* The answer carries the closing txid.                                    *)
ReplyOk(p) ==
  /\ pc[p] = "reply" /\ chan[plan[p].point] \in {"closing", "closed"}
  /\ records' = [mem[p] EXCEPT ![plan[p].point] = "closing"]
  /\ Leave(p)
  /\ UNCHANGED lnd

(* Any error, LND's refusal included, or an answer without a txid.         *)
ReplyLost(p) ==
  /\ pc[p] = "reply"
  /\ records' = [mem[p] EXCEPT ![plan[p].point] = "uncertain"]
  /\ Leave(p)
  /\ UNCHANGED lnd

(* Refused, cancelled, lock taken, RPC error, killed.                      *)
Stop(p) ==
  /\ pc[p] # "idle"
  /\ Leave(p)
  /\ UNCHANGED <<lnd, records>>

-----------------------------------------------------------------------------
(* LND and the channel's peer.                                             *)

Becomes(c, from, to) ==
  /\ chan[c] = from
  /\ chan' = [chan EXCEPT ![c] = to]
  /\ UNCHANGED <<balance, asked, records, lock, pc, job, mem, pending, plan>>

Closes(c) == \E from \in {"open", "requested"} : Becomes(c, from, "closing")
Refuses(c) == Becomes(c, "requested", "open")
Confirms(c) == Becomes(c, "closing", "closed")

Moves(c) ==
  /\ c \in Busy /\ Listed(c) /\ balance[c] < MaxMoves
  /\ balance' = [balance EXCEPT ![c] = @ + 1]
  /\ UNCHANGED <<chan, asked, records, lock, pc, job, mem, pending, plan>>

Step(p) ==
  \/ ListPending(p) \/ WriteStatus(p) \/ Submit(p) \/ SendClose(p)
  \/ ReplyOk(p) \/ ReplyLost(p)
  \/ \E c \in Points : Approve(p, c)

Next ==
  \/ \E p \in Procs : Begin(p) \/ Step(p) \/ Stop(p)
  \/ \E c \in Points : Closes(c) \/ Refuses(c) \/ Confirms(c) \/ Moves(c)

Spec == Init /\ [][Next]_vars

(* A run goes on or ends; the operator keeps looking (--status), and not   *)
(* every look is cut short.                                                *)
Fairness ==
  /\ \A p \in Procs : WF_vars(Step(p) \/ Stop(p))
  /\ SF_vars(\E p \in Procs : pc[p] = "idle" /\ Begin(p))
  /\ SF_vars(\E p \in Procs : ListPending(p))
  /\ SF_vars(\E p \in Procs : WriteStatus(p))

LiveSpec == Spec /\ Fairness

-----------------------------------------------------------------------------
(* Properties.                                                             *)

TypeOK ==
  /\ chan \in [Points -> ChanStates]
  /\ balance \in [Points -> 0..MaxMoves]
  /\ asked \in [Points -> Nat]
  /\ records \in [Points -> RecordStates]
  /\ lock \subseteq Procs /\ \A p, q \in lock : p = q
  /\ pc \in [Procs -> {"idle", "pending", "closed", "prompt", "approved", "checked", "send",
                       "reply"}]
  /\ job \in [Procs -> {"look", "submit"}]
  /\ mem \in [Procs -> [Points -> RecordStates]]
  /\ pending \in [Procs -> SUBSET Points]
  /\ plan \in [Procs -> Plans \cup {NoPlan}]

(* closechannel is called once per channel, and never before its record is *)
(* in the file that will stop the next run.                                *)
CloseAskedOnce ==
  \A c \in Points : asked[c] =< 1 /\ (asked[c] = 1 => records[c] # "absent")

(* "Missing evidence never means closed" (router_closing.py:18): the file  *)
(* says closing or closed only of a channel that is.                       *)
ClosedHasEvidence ==
  \A c \in Points :
    /\ records[c] = "closed" => chan[c] = "closed"
    /\ records[c] = "closing" => chan[c] \in {"closing", "closed"}

(* No record ever goes back: once LND showed the close, no run's older     *)
(* copy of the file makes it open or uncertain again.                      *)
Rank == [absent |-> 0, submitting |-> 1, uncertain |-> 2, closing |-> 3, closed |-> 4]

RecordsAdvance == [][\A c \in Points : Rank[records'[c]] >= Rank[records[c]]]_records

(* A close that was asked for and confirmed is recorded in the end, though *)
(* every answer was lost.                                                  *)
CloseIsRecorded ==
  \A c \in Points : (asked[c] > 0 /\ chan[c] = "closed") ~> (records[c] = "closed")

=============================================================================
