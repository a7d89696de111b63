------------------------------ MODULE RouterPeers ------------------------------
(***************************************************************************)
(* Reconnection of approved peers, ops/router_peers.py: the probe of the   *)
(* monitor (ops/router-monitor), ops/router-peers --reconnect and the peer *)
(* wizard share peers.json under operations.lock.  A probe is killed when  *)
(* the status worker (ops/router_worker.py) loses patience, wherever it    *)
(* is, and the whole service is restarted by the host.                     *)
(*                                                                         *)
(* Abstractions.  Time is whether a peer's next_attempt_at has passed.     *)
(* The wallet identity, the address syntax and a lock held by another      *)
(* command only refuse, as Stop does.                                      *)
(***************************************************************************)
EXTENDS Naturals

CONSTANTS
  Procs,        \* passes: probes, --reconnect, wizards
  Peers,        \* public keys, numbered in the order of the file
  Addresses,
  MaxApprovals, \* bound: how often the operator approves an address
  None

ASSUME PeersAssumption ==
  /\ Peers \subseteq Nat /\ None \notin Peers
  /\ None \notin Addresses
  /\ MaxApprovals \in Nat

VARIABLES
  connected,  \* the peers LND is connected to
  asked,      \* history: connects to a peer that was away since it was last
              \* connected or approved
  approved,   \* history: the address the operator approved last
  approvals,  \* how many approvals there were
  file,       \* peers.json
  passed,     \* the peers whose next_attempt_at, as filed, is past
  lock, pc,
  mem,        \* the entries a pass read and changed
  seen,       \* the peers listpeers showed it
  due,        \* the peers whose next_attempt_at was past when it began
  todo,       \* the peers it has yet to visit
  peer        \* the peer it is connecting to

outside == <<connected, asked, approved, approvals>>
vars == <<connected, asked, approved, approvals, file, passed, lock, pc, mem, seen, due,
          todo, peer>>

-----------------------------------------------------------------------------

Limit == 3

Waiting == {"connecting", "requested", "retry_wait"}
Entry == [address : Addresses \cup {None}, attempts : 0..Limit,
          state : {"none", "needs_review", "connected"} \cup Waiting]
Blank(a) == [address |-> a, attempts |-> 0, state |-> "none"]
NoEntry == Blank(None)
NoEntries == [p \in Peers |-> NoEntry]

Known(entries) == {p \in Peers : entries[p].address # None}

Init ==
  /\ connected \in SUBSET Peers
  /\ asked = [p \in Peers |-> 0]
  /\ approved = [p \in Peers |-> None]
  /\ approvals = 0
  /\ file = NoEntries
  /\ passed = {}
  /\ lock = {}
  /\ pc = [q \in Procs |-> "idle"]
  /\ mem = [q \in Procs |-> NoEntries]
  /\ seen = [q \in Procs |-> {}]
  /\ due = [q \in Procs |-> {}]
  /\ todo = [q \in Procs |-> {}]
  /\ peer = [q \in Procs |-> None]

Goto(q, l) == pc' = [pc EXCEPT ![q] = l]

Leave(q) ==
  /\ lock' = lock \ {q}
  /\ Goto(q, "idle")
  /\ mem' = [mem EXCEPT ![q] = NoEntries]
  /\ seen' = [seen EXCEPT ![q] = {}]
  /\ due' = [due EXCEPT ![q] = {}]
  /\ todo' = [todo EXCEPT ![q] = {}]
  /\ peer' = [peer EXCEPT ![q] = None]

Set(q, p, n, s) ==
  mem' = [mem EXCEPT ![q][p] = [address |-> @.address, attempts |-> n, state |-> s]]

-----------------------------------------------------------------------------
(* approve: the file is read and rewritten under the lock; a new approval  *)
(* starts a new budget.                                                    *)

ApproveUnlocked(p, a) ==                                    \* mutant
  /\ approvals < MaxApprovals
  /\ approvals' = approvals + 1
  /\ approved' = [approved EXCEPT ![p] = a]
  /\ file' = [file EXCEPT ![p] = Blank(a)]
  /\ asked' = [asked EXCEPT ![p] = 0]
  /\ passed' = passed \ {p}
  /\ UNCHANGED <<connected, lock, pc, mem, seen, due, todo, peer>>

Approve(p, a) ==
  /\ lock = {}
  /\ approvals < MaxApprovals
  /\ approvals' = approvals + 1
  /\ approved' = [approved EXCEPT ![p] = a]
  /\ file' = [file EXCEPT ![p] = Blank(a)]
  /\ asked' = [asked EXCEPT ![p] = 0]
  /\ passed' = passed \ {p}
  /\ UNCHANGED <<connected, lock, pc, mem, seen, due, todo, peer>>

-----------------------------------------------------------------------------
(* reconnect.                                                              *)

(* The lock, now, peers.json and listpeers.                                *)
Begin(q) ==
  /\ pc[q] = "idle"
  /\ lock = {} /\ lock' = {q}
  /\ mem' = [mem EXCEPT ![q] = file]
  /\ seen' = [seen EXCEPT ![q] = connected \cap Known(file)]
  /\ due' = [due EXCEPT ![q] = {p \in Known(file) : file[p].attempts = 0 \/ p \in passed}]
  /\ todo' = [todo EXCEPT ![q] = Known(file)]
  /\ Goto(q, "visit")
  /\ UNCHANGED <<outside, file, passed, peer>>

(* In the order of the keys, which write sorts.                            *)
Visit(q, p) ==
  /\ pc[q] = "visit" /\ p \in todo[q] /\ \A r \in todo[q] : p =< r
  /\ todo' = [todo EXCEPT ![q] = @ \ {p}]
  /\ seen' = [seen EXCEPT ![q] = @ \ {p}]
  /\ due' = [due EXCEPT ![q] = @ \ {p}]

Connected(q, p) ==
  /\ Visit(q, p)
  /\ p \in seen[q]
  /\ Set(q, p, 0, "connected")
  /\ UNCHANGED <<outside, file, passed, lock, pc, peer>>

ExhaustedSkipped(q, p) ==       \* and nobody is called          mutant
  /\ Visit(q, p)
  /\ p \notin seen[q] /\ mem[q][p].attempts >= Limit
  /\ UNCHANGED <<outside, file, passed, lock, pc, mem, peer>>

(* Three requests were made: the operator is called once the last wait is over. *)
Exhausted(q, p) ==
  /\ Visit(q, p)
  /\ p \notin seen[q] /\ mem[q][p].attempts >= Limit
  /\ IF p \in due[q] THEN Set(q, p, Limit, "needs_review") ELSE UNCHANGED mem
  /\ UNCHANGED <<outside, file, passed, lock, pc, peer>>

Wait(q, p) ==
  /\ Visit(q, p)
  /\ p \notin seen[q] /\ mem[q][p].attempts < Limit /\ p \notin due[q]
  /\ UNCHANGED <<outside, file, passed, lock, pc, mem, peer>>

(* Counted in memory; written with the answer.                             *)
AttemptUnsaved(q, p) ==                                     \* mutant
  /\ Visit(q, p)
  /\ p \notin seen[q] /\ mem[q][p].attempts < Limit /\ p \in due[q]
  /\ Set(q, p, mem[q][p].attempts + 1, "connecting")
  /\ peer' = [peer EXCEPT ![q] = p]
  /\ Goto(q, "send")
  /\ UNCHANGED <<outside, file, passed, lock>>

AttemptOnceMore(q, p) ==                                    \* mutant
  /\ Visit(q, p)
  /\ p \notin seen[q] /\ mem[q][p].attempts =< Limit /\ p \in due[q]
  /\ Set(q, p, mem[q][p].attempts + 1, "connecting")
  /\ file' = mem'[q]
  /\ passed' = passed \ {p}
  /\ peer' = [peer EXCEPT ![q] = p]
  /\ Goto(q, "send")
  /\ UNCHANGED <<outside, lock>>

(* The attempt is counted on disk before it is made.                       *)
Attempt(q, p) ==
  /\ Visit(q, p)
  /\ p \notin seen[q] /\ mem[q][p].attempts < Limit /\ p \in due[q]
  /\ Set(q, p, mem[q][p].attempts + 1, "connecting")
  /\ file' = mem'[q]
  /\ passed' = passed \ {p}
  /\ peer' = [peer EXCEPT ![q] = p]
  /\ Goto(q, "send")
  /\ UNCHANGED <<outside, lock>>

Send(q) ==
  /\ pc[q] = "send"
  /\ asked' = [asked EXCEPT ![peer[q]] = IF peer[q] \in connected THEN @ ELSE @ + 1]
  /\ Goto(q, "reply")
  /\ UNCHANGED <<connected, approved, approvals, file, passed, lock, mem, seen, due, todo,
                 peer>>

(* An answer proves no connection; an error after the last request calls   *)
(* the operator at once.                                                   *)
Reply(q) ==
  LET attempts == mem[q][peer[q]].attempts
      failed == IF attempts >= Limit THEN "needs_review" ELSE "retry_wait"
  IN
  /\ pc[q] = "reply"
  /\ \E state \in {"requested", failed} : Set(q, peer[q], attempts, state)
  /\ file' = mem'[q]
  /\ peer' = [peer EXCEPT ![q] = None]
  /\ Goto(q, "visit")
  /\ UNCHANGED <<outside, passed, lock, seen, due, todo>>

Finish(q) ==
  /\ pc[q] = "visit" /\ todo[q] = {}
  /\ file' = mem[q]
  /\ Leave(q)
  /\ UNCHANGED <<outside, passed>>

(* An RPC error outside connect, or the pass is killed.                    *)
Stop(q) ==
  /\ pc[q] # "idle"
  /\ Leave(q)
  /\ UNCHANGED <<outside, file, passed>>

-----------------------------------------------------------------------------
(* The network and time.                                                   *)

Connects(p) ==
  /\ p \notin connected
  /\ connected' = connected \cup {p}
  /\ asked' = [asked EXCEPT ![p] = 0]
  /\ UNCHANGED <<approved, approvals, file, passed, lock, pc, mem, seen, due, todo, peer>>

Disconnects(p) ==
  /\ p \in connected
  /\ connected' = connected \ {p}
  /\ UNCHANGED <<asked, approved, approvals, file, passed, lock, pc, mem, seen, due, todo,
                 peer>>

Passes(p) ==
  /\ file[p].attempts > 0 /\ p \notin passed
  /\ passed' = passed \cup {p}
  /\ UNCHANGED <<outside, file, lock, pc, mem, seen, due, todo, peer>>

Consider(q, p) == Connected(q, p) \/ Exhausted(q, p) \/ Wait(q, p) \/ Attempt(q, p)

Step(q) == Send(q) \/ Reply(q) \/ Finish(q) \/ \E p \in Peers : Consider(q, p)

Next ==
  \/ \E p \in Peers, a \in Addresses : Approve(p, a)
  \/ \E q \in Procs : Begin(q) \/ Step(q) \/ Stop(q)
  \/ \E p \in Peers : Connects(p) \/ Disconnects(p) \/ Passes(p)

Spec == Init /\ [][Next]_vars

(* The monitor probes again and again; a pass goes on or is killed, but    *)
(* not at the same place every time; time passes.                          *)
Fairness ==
  /\ WF_vars(\E q \in Procs : Step(q) \/ Stop(q))
  /\ SF_vars(\E q \in Procs : Begin(q))
  /\ \A p \in Peers : SF_vars(\E q \in Procs : Consider(q, p))
  /\ SF_vars(\E q \in Procs : Send(q)) /\ SF_vars(\E q \in Procs : Reply(q))
  /\ SF_vars(\E q \in Procs : Finish(q))
  /\ \A p \in Peers : WF_vars(Passes(p))

LiveSpec == Spec /\ Fairness

-----------------------------------------------------------------------------
(* Properties.                                                             *)

TypeOK ==
  /\ connected \subseteq Peers
  /\ asked \in [Peers -> Nat]
  /\ approved \in [Peers -> Addresses \cup {None}]
  /\ approvals \in 0..MaxApprovals
  /\ file \in [Peers -> Entry]
  /\ passed \subseteq Peers
  /\ lock \subseteq Procs /\ \A q, r \in lock : q = r
  /\ pc \in [Procs -> {"idle", "visit", "send", "reply"}]
  /\ mem \in [Procs -> [Peers -> Entry]]
  /\ seen \in [Procs -> SUBSET Peers]
  /\ due \in [Procs -> SUBSET Peers]
  /\ todo \in [Procs -> SUBSET Peers]
  /\ peer \in [Procs -> Peers \cup {None}]
  /\ \A q \in Procs : pc[q] \in {"send", "reply"} => peer[q] \in Peers

(* "Persist the attempt before connecting so restart cannot reset limits"  *)
(* (router_peers.py:70): however often passes are killed and started, a    *)
(* peer is asked at most three times between two connections or approvals. *)
ConnectBudget == \A p \in Peers : asked[p] =< Limit

(* Only the address approved last is on file and is contacted: no pass     *)
(* that read the file earlier brings an older one back.                    *)
ApprovedAddressOnly ==
  /\ \A p \in Peers : file[p].address = approved[p]
  /\ \A q \in Procs :
       pc[q] \in {"send", "reply"} => mem[q][peer[q]].address = approved[peer[q]]

(* A peer that stays away is not retried for ever, nor forgotten half-way  *)
(* through its budget: the operator is asked to review it.                 *)
AbsenceIsReviewed ==
  \A p \in Peers :
    <>[](p \in Known(file) \ connected) => <>[](file[p].state = "needs_review")

=============================================================================
