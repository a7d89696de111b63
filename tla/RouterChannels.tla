---------------------------- MODULE RouterChannels ----------------------------
(***************************************************************************)
(* The journaled channel opener: ops/router_channels.py, the wizard that   *)
(* drives it (ops/router-channel) and the store it writes through          *)
(* (ops/router_store.py).  Several runs of the command share one state     *)
(* directory and one LND.  A run may be killed between any two steps; LND  *)
(* may act on openchannel long after the caller gave up on the answer.     *)
(*                                                                         *)
(* Abstractions.  A request carries the peer it is for (PeerOf) and one    *)
(* unit of capacity.  Balance, UTXO, reserve, peer-connection and wallet   *)
(* identity checks can only refuse: they are the freedom of Refuse and     *)
(* Stop.  The RPCs of one preview are one step.  "active" stands for       *)
(* "confirmed" too: they differ in the channel's online flag alone.        *)
(***************************************************************************)
EXTENDS Naturals, FiniteSets

CONSTANTS
  Procs,      \* runs of ops/router-channel
  Requests,   \* request ids (uuid4().hex), each drawn at most once
  Peers,
  Openers,    \* the peers that may open a channel to this node
  PeerOf,     \* the peer a request is for
  Caps,       \* total capacities an operator may approve, in channels
  NoRequest   \* the id of an empty journal

ASSUME ChannelsAssumption ==
  /\ IsFiniteSet(Requests) /\ IsFiniteSet(Openers)
  /\ PeerOf \in [Requests -> Peers]
  /\ Caps \subseteq Nat
  /\ NoRequest \notin Requests

VARIABLES
  lnd,        \* lnd[r]: what LND did with the openchannel of request r
  inbound,    \* peers that opened a channel to this node
  journal,    \* open-request.json
  archive,    \* archive[r]: the state in open-<r>.json
  lock,       \* the processes that hold operations.lock
  pc, op,     \* where a run is, and what it was asked to do
  rec,        \* the record a run holds in memory
  plan,       \* the preview its operator approved
  listed,     \* whether listchannels showed the channel of that record
  after       \* what follows the two journal writes in progress

lndVars == <<lnd, inbound>>
files == <<journal, archive>>
locals == <<op, plan, listed, after>>
vars == <<lnd, inbound, journal, archive, lock, pc, op, rec, plan, listed, after>>

-----------------------------------------------------------------------------
(* LND's side and the records about it.                                    *)

Refusals == {"tooSmall", "reserve", "failed"}
Funded == {"pending", "open", "closing", "closed"}
LndStates == {"unsent", "inflight"} \cup Funded \cup Refusals

ForgetsDoubt == {"submitting", "broadcast", "closing"}      \* mutant
ForgetsBroadcast == {"submitting", "uncertain", "closing"}  \* mutant

(* The states reconcile looks into, and for which submit refuses.          *)
Unresolved == {"submitting", "uncertain", "broadcast", "closing"}
Resolved == {"active", "closed", "rejected"}

(* txid, point: a funding txid, a channel point was recorded; small: the   *)
(* amount is below MIN_CHANNEL_SAT, as only old journals hold; cap: the    *)
(* total capacity approved with the request.                               *)
Record == [id : Requests \cup {NoRequest},
           state : {"absent"} \cup Unresolved \cup Resolved,
           txid : BOOLEAN, point : BOOLEAN, small : BOOLEAN,
           cap : Caps \cup {0}]
Unproven(r, s, tiny, cap) ==
  [id |-> r, state |-> s, txid |-> FALSE, point |-> FALSE, small |-> tiny, cap |-> cap]
NoRecord == Unproven(NoRequest, "absent", FALSE, 0)

Plan == [peer : Peers \cup {NoRequest}, committed : Nat, cap : Caps \cup {0}]
NoPlan == [peer |-> NoRequest, committed |-> 0, cap |-> 0]

(* A journal of the old version may hold a sub-minimum request LND refused. *)
Init ==
  /\ inbound = {}
  /\ lock = {}
  /\ \/ /\ journal = NoRecord
        /\ archive = [r \in Requests |-> "absent"]
        /\ lnd = [r \in Requests |-> "unsent"]
     \/ \E r \in Requests, refusal \in Refusals :
          /\ journal = Unproven(r, "uncertain", TRUE, 0)
          /\ archive = [q \in Requests |-> IF q = r THEN "uncertain" ELSE "absent"]
          /\ lnd = [q \in Requests |-> IF q = r THEN refusal ELSE "unsent"]
  /\ pc = [p \in Procs |-> "idle"]
  /\ op = [p \in Procs |-> "look"]
  /\ rec = [p \in Procs |-> NoRecord]
  /\ plan = [p \in Procs |-> NoPlan]
  /\ listed = [p \in Procs |-> FALSE]
  /\ after = [p \in Procs |-> "exit"]

(* The run returns, raises or dies: the lock goes with the process, what   *)
(* it knew is lost, what it wrote stays.                                   *)
Leave(p) ==
  /\ lock' = lock \ {p}
  /\ pc' = [pc EXCEPT ![p] = "idle"]
  /\ op' = [op EXCEPT ![p] = "look"]
  /\ rec' = [rec EXCEPT ![p] = NoRecord]
  /\ plan' = [plan EXCEPT ![p] = NoPlan]
  /\ listed' = [listed EXCEPT ![p] = FALSE]
  /\ after' = [after EXCEPT ![p] = "exit"]

Goto(p, l) == pc' = [pc EXCEPT ![p] = l]

(* Hand record R to the two writes, open-request.json first.               *)
Save(p, R, next) ==
  /\ rec' = [rec EXCEPT ![p] = R]
  /\ after' = [after EXCEPT ![p] = next]
  /\ Goto(p, "journal")

NoLock == TRUE                                              \* mutant
LockFree == lock = {}

(* Take operations.lock without waiting and read the journal: the first    *)
(* look, an approved submission, or an attestation.                        *)
Begin(p, o) ==
  /\ IF o = "submit" THEN pc[p] = "approved" ELSE pc[p] = "idle"
  /\ LockFree
  /\ lock' = lock \cup {p}
  /\ op' = [op EXCEPT ![p] = o]
  /\ rec' = [rec EXCEPT ![p] = journal]
  /\ Goto(p, IF journal.state \in Unresolved THEN "observe" ELSE "reconciled")
  /\ UNCHANGED <<lndVars, files, plan, listed, after>>

-----------------------------------------------------------------------------
(* reconcile: listchannels first, pendingchannels later, then the verdict. *)

ListChannels(p) ==
  /\ pc[p] = "observe"
  /\ listed' = [listed EXCEPT ![p] = (lnd[rec[p].id] = "open")]
  /\ Goto(p, "classify")
  /\ UNCHANGED <<lndVars, files, lock, op, rec, plan, after>>

Pending == {"pending", "closing"}

(* Empty lists taken as a failed request: the retry the journal forbids.   *)
EmptyMeansFailed(R, inList) ==                                \* mutant
  IF ~inList /\ lnd[R.id] \notin Pending
    THEN {[R EXCEPT !.state = "rejected"]}
    ELSE {[R EXCEPT !.state = "uncertain"]}

(* What one look at LND may make of record R.  Exactly one matching        *)
(* channel decides; two (it moved between the calls) or none leave it      *)
(* uncertain, but a known funding point is also sought in closedchannels.  *)
Observed(R, inList) ==
  LET inPending == lnd[R.id] \in Pending
      Seen(s) == [R EXCEPT !.state = s, !.point = TRUE]
  IN CASE inList /\ ~inPending -> {Seen("active")}
       [] ~inList /\ lnd[R.id] = "pending" -> {Seen("broadcast")}
       [] ~inList /\ lnd[R.id] = "closing" -> {Seen("closing")}
       [] ~inList /\ lnd[R.id] = "closed" /\ R.point -> {Seen("closed")}
       [] OTHER -> {[R EXCEPT !.state = "uncertain"]}

Classify(p) ==
  /\ pc[p] = "classify"
  /\ \E R \in Observed(rec[p], listed[p]) : Save(p, R, "reconciled")
  /\ listed' = [listed EXCEPT ![p] = FALSE]
  /\ UNCHANGED <<lndVars, files, lock, op, plan>>

WriteJournal(p) ==
  /\ pc[p] = "journal"
  /\ journal' = rec[p]
  /\ Goto(p, "archive")
  /\ UNCHANGED <<lndVars, archive, lock, op, rec, plan, listed, after>>

WriteArchive(p) ==
  /\ pc[p] = "archive"
  /\ archive' = [archive EXCEPT ![rec[p].id] = rec[p].state]
  /\ IF after[p] = "exit"
       THEN Leave(p)
       ELSE Goto(p, after[p]) /\ UNCHANGED <<lock, op, rec, plan, listed, after>>
  /\ UNCHANGED <<lndVars, journal>>

-----------------------------------------------------------------------------
(* The wizard: look, then prompt and preview without the lock.             *)

FinishLook(p) ==
  /\ pc[p] = "reconciled" /\ op[p] = "look"
  /\ IF rec[p].state \in Unresolved
       THEN Leave(p)
       ELSE /\ lock' = lock \ {p}
            /\ rec' = [rec EXCEPT ![p] = NoRecord]
            /\ Goto(p, "prompt")
            /\ UNCHANGED locals
  /\ UNCHANGED <<lndVars, files>>

(* Open and pending channels, whoever opened them.                         *)
Committed == Cardinality({r \in Requests : lnd[r] \in {"pending", "open"}})
               + Cardinality(inbound)

Preview(peer, cap) ==
  IF /\ peer \notin inbound
     /\ \A r \in Requests : lnd[r] \in {"pending", "open"} => PeerOf[r] # peer
     /\ Committed + 1 =< cap
  THEN {[peer |-> peer, committed |-> Committed, cap |-> cap]}
  ELSE {}

Approve(p, peer, cap) ==
  /\ pc[p] = "prompt"
  /\ \E summary \in Preview(peer, cap) : plan' = [plan EXCEPT ![p] = summary]
  /\ Goto(p, "approved")
  /\ UNCHANGED <<lndVars, files, lock, op, rec, listed, after>>

(* The approval is used without looking again.                             *)
TrustApproval(p) == plan[p] # NoPlan                        \* mutant

StillApproved(p) == plan[p] \in Preview(plan[p].peer, plan[p].cap)

Refuse(p) ==
  /\ pc[p] = "reconciled" /\ op[p] \in {"submit", "ack"}
  /\ Leave(p)
  /\ UNCHANGED <<lndVars, files>>

-----------------------------------------------------------------------------
(* submit: a fresh id, journaled as submitting before openchannel is sent. *)

Fresh(r) ==
  /\ archive[r] = "absent" /\ journal.id # r
  /\ \A p \in Procs : rec[p].id # r

(* openchannel leaves before the record is written.                        *)
SubmitUnjournaled(p, r) ==                                  \* mutant
  /\ pc[p] = "reconciled" /\ op[p] = "submit"
  /\ rec[p].state \notin Unresolved
  /\ StillApproved(p) /\ PeerOf[r] = plan[p].peer
  /\ Fresh(r)
  /\ rec' = [rec EXCEPT ![p] = Unproven(r, "submitting", FALSE, plan[p].cap)]
  /\ Goto(p, "send")
  /\ plan' = [plan EXCEPT ![p] = NoPlan]
  /\ UNCHANGED <<lndVars, files, lock, op, listed, after>>

Submit(p, r) ==
  /\ pc[p] = "reconciled" /\ op[p] = "submit"
  /\ rec[p].state \notin Unresolved
  /\ StillApproved(p) /\ PeerOf[r] = plan[p].peer
  /\ Fresh(r)
  /\ Save(p, Unproven(r, "submitting", FALSE, plan[p].cap), "send")
  /\ plan' = [plan EXCEPT ![p] = NoPlan]
  /\ UNCHANGED <<lndVars, files, lock, op, listed>>

SendOpen(p) ==
  /\ pc[p] = "send"
  /\ lnd' = [lnd EXCEPT ![rec[p].id] = "inflight"]
  /\ Goto(p, "reply")
  /\ UNCHANGED <<inbound, files, lock, rec, locals>>

(* The response carries the funding txid and perhaps its output index.     *)
ReplyFunded(p) ==
  /\ pc[p] = "reply" /\ lnd[rec[p].id] \in Funded
  /\ \E indexed \in BOOLEAN :
       Save(p, [rec[p] EXCEPT !.state = "broadcast", !.txid = TRUE, !.point = indexed],
            "exit")
  /\ UNCHANGED <<lndVars, files, lock, op, plan, listed>>

(* ChannelTooSmall, AnchorReserveRejected: the two exact messages.         *)
ReplyRejected(p) ==
  /\ pc[p] = "reply" /\ lnd[rec[p].id] \in {"tooSmall", "reserve"}
  /\ Save(p, [rec[p] EXCEPT !.state = "rejected"], "exit")
  /\ UNCHANGED <<lndVars, files, lock, op, plan, listed>>

(* Any error journaled as a rejection.                                     *)
ErrorMeansRejected(p) ==                                    \* mutant
  /\ pc[p] = "reply"
  /\ Save(p, [rec[p] EXCEPT !.state = "rejected"], "exit")
  /\ UNCHANGED <<lndVars, files, lock, op, plan, listed>>

(* Timeout, Ctrl-C, any other error, or an answer that does not parse (its *)
(* txid may already be in the record).  LND may not have acted yet.        *)
ReplyLost(p) ==
  /\ pc[p] = "reply"
  /\ \E known \in BOOLEAN :
       /\ known => lnd[rec[p].id] \in Funded
       /\ Save(p, [rec[p] EXCEPT !.state = "uncertain", !.txid = known], "exit")
  /\ UNCHANGED <<lndVars, files, lock, op, plan, listed>>

(* The operator attests the rejection he saw on his terminal.  That he     *)
(* attests only what LND answered is an assumption about him, not a check. *)
Attest(p) ==
  /\ pc[p] = "reconciled" /\ op[p] = "ack"
  /\ rec[p].state = "uncertain" /\ ~rec[p].txid /\ ~rec[p].point
  /\ \/ lnd[rec[p].id] = "tooSmall" /\ rec[p].small
     \/ lnd[rec[p].id] = "reserve"
  /\ Save(p, [rec[p] EXCEPT !.state = "rejected"], "exit")
  /\ UNCHANGED <<lndVars, files, lock, op, plan, listed>>

Stop(p) ==
  /\ pc[p] # "idle"
  /\ Leave(p)
  /\ UNCHANGED <<lndVars, files>>

-----------------------------------------------------------------------------
(* LND and the network.                                                    *)

LndBecomes(r, from, to) ==
  /\ lnd[r] = from
  /\ lnd' = [lnd EXCEPT ![r] = to]
  /\ UNCHANGED <<inbound, files, lock, pc, rec, locals>>

LndRefuses(r) ==      \* never for its size: preview has checked that
  \E refusal \in Refusals \ {"tooSmall"} : LndBecomes(r, "inflight", refusal)
LndFunds(r) == LndBecomes(r, "inflight", "pending")
LndConfirms(r) == LndBecomes(r, "pending", "open")
LndCloses(r) == LndBecomes(r, "open", "closing") \/ LndBecomes(r, "closing", "closed")

RemoteOpens(peer) ==
  /\ peer \in Openers /\ peer \notin inbound
  /\ inbound' = inbound \cup {peer}
  /\ UNCHANGED <<lnd, files, lock, pc, rec, locals>>

Reconcile(p) ==
  ListChannels(p) \/ Classify(p) \/ WriteJournal(p) \/ WriteArchive(p) \/ FinishLook(p)

Work(p) ==
  \/ Refuse(p) \/ SendOpen(p) \/ ReplyFunded(p) \/ ReplyRejected(p) \/ ReplyLost(p)
  \/ Attest(p)
  \/ \E r \in Requests : Submit(p, r)
  \/ \E peer \in Peers, cap \in Caps : Approve(p, peer, cap)

Lightning ==
  \/ \E r \in Requests : LndRefuses(r) \/ LndFunds(r) \/ LndConfirms(r) \/ LndCloses(r)
  \/ \E peer \in Peers : RemoteOpens(peer)

Next ==
  \/ \E p \in Procs, o \in {"look", "submit", "ack"} : Begin(p, o)
  \/ \E p \in Procs : Reconcile(p) \/ Work(p) \/ Stop(p)
  \/ Lightning

Spec == Init /\ [][Next]_vars

(* For liveness.  Every run takes its next step or ends: an RPC times out  *)
(* after 30 s, a prompt is answered or abandoned.  The operator keeps      *)
(* looking (ops/router-channel --reconcile), and not every run is killed   *)
(* at the same point.  Nothing is assumed of LND.                          *)
Fairness ==
  \A p \in Procs :
    /\ WF_vars(Reconcile(p) \/ Work(p) \/ Stop(p))
    /\ SF_vars(Begin(p, "look"))
    /\ SF_vars(ListChannels(p)) /\ SF_vars(Classify(p)) /\ SF_vars(WriteJournal(p))

LiveSpec == Spec /\ Fairness

-----------------------------------------------------------------------------
(* Properties.                                                             *)

PCs == {"idle", "observe", "classify", "journal", "archive", "reconciled", "prompt",
        "approved", "send", "reply"}

TypeOK ==
  /\ lnd \in [Requests -> LndStates]
  /\ inbound \subseteq Openers
  /\ journal \in Record
  /\ archive \in [Requests -> {"absent"} \cup Unresolved \cup Resolved]
  /\ lock \subseteq Procs /\ \A p, q \in lock : p = q
  /\ pc \in [Procs -> PCs]
  /\ op \in [Procs -> {"look", "submit", "ack"}]
  /\ rec \in [Procs -> Record]
  /\ plan \in [Procs -> Plan]
  /\ listed \in [Procs -> BOOLEAN]
  /\ after \in [Procs -> {"reconciled", "send", "exit"}]

(* A lost RPC response never authorizes a retry (router_channels.py:1): at *)
(* most one openchannel can still turn into a funding transaction nobody   *)
(* has accounted for, whatever runs were killed, raced or gave up.         *)
Undecided(r) == lnd[r] \in {"inflight", "pending"}

OneFundingAtATime ==
  \A r, q \in Requests : Undecided(r) /\ Undecided(q) => r = q

(* The journal closes a request only with evidence of the matching kind:   *)
(* a channel LND listed, a close it reported, or its own rejection.        *)
VerdictHasEvidence ==
  /\ journal.state = "active" => lnd[journal.id] \in Funded \ {"pending"}
  /\ journal.state = "closed" => lnd[journal.id] = "closed"
  /\ journal.state = "rejected" => lnd[journal.id] \in Refusals
  /\ journal.txid \/ journal.point => lnd[journal.id] \in Funded

(* No openchannel leaves without both copies of its record on disk, and a  *)
(* request the journal no longer names was decided.                        *)
SentIsAccountedFor ==
  \A r \in Requests : lnd[r] # "unsent" =>
    /\ archive[r] # "absent"
    /\ journal.id = r \/ ~Undecided(r)

(* While the latest request is undecided, this tool's channels are within  *)
(* the total its operator approved, though an opening still in flight is   *)
(* in no list that preview adds up.                                        *)
TotalCapHolds ==
  journal.id # NoRequest /\ Undecided(journal.id) =>
    Cardinality({r \in Requests : lnd[r] \in {"inflight", "pending", "open"}})
      =< journal.cap

(* A resolved journal is replaced only by a new request: no run overwrites *)
(* a verdict with what it read before (lost update under the flock).       *)
VerdictIsFinal ==
  [][journal.state \in Resolved => \/ journal' = journal
                                   \/ journal'.id # journal.id]_journal

(* A channel that opens and stays open is eventually recorded as such: no  *)
(* lost answer leaves the opener blocked for good behind it.               *)
OpenChannelIsRecorded ==
  \A r \in Requests :
    <>[](lnd[r] = "open") => <>[](journal.id = r => journal.state \in Resolved)

(* The abstract single-flight attempt: what the records say, what LND did. *)
Verdict(r) ==
  IF journal.id = r
    THEN CASE journal.state \in Unresolved -> "open"
           [] journal.state = "rejected"   -> "refused"
           [] OTHER                        -> "done"
    ELSE CASE archive[r] = "absent" -> "none"
           [] lnd[r] \in Refusals   -> "refused"
           [] OTHER                 -> "done"

Fate(r) == CASE lnd[r] = "unsent"    -> "unsent"
             [] Undecided(r)         -> "live"
             [] lnd[r] \in Refusals  -> "refused"
             [] OTHER                -> "done"

Flight == INSTANCE SingleFlight WITH
            Attempts <- Requests,
            ledger <- [r \in Requests |-> Verdict(r)],
            fate <- [r \in Requests |-> Fate(r)]

(* The opener implements SingleFlight: record, send once, one undecided    *)
(* attempt at a time, and only true verdicts.                              *)
ImplementsSingleFlight == Flight!Spec

=============================================================================
