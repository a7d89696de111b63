-------------------------------- MODULE LoopOps --------------------------------
(***************************************************************************)
(* Loop swaps: ops/loop_ops.py and the screens of ops/loop_ui.py.  The     *)
(* journal is one ConfigMap that several screens read and replace under    *)
(* Kubernetes' compare-and-swap; a swap is posted to loopd once, after its *)
(* record is in the journal.                                               *)
(*                                                                         *)
(* Abstractions.  A quote is its label: plan's arithmetic and the checks   *)
(* of channels, balances, terms and binding can only refuse, as Stop does. *)
(* Every quote reserves Reserve against one daily budget.  A version of    *)
(* the ConfigMap is whether a screen's copy is stale.  Swaps started       *)
(* outside this tool are left out (the runbook excludes them).             *)
(***************************************************************************)
EXTENDS Naturals, FiniteSetsExt

CONSTANTS
  Procs,      \* loop screens
  Labels,     \* labels of quotes, each drawn once
  Approvals,  \* approval ids of automatic rules, each drawn once
  None,
  Reserve, Budget,
  MaxFee,     \* bound: what a swap can cost
  Window,     \* the budget's 24 hours, in ticks of the clock
  MaxTime     \* bound of the clock

ASSUME LoopAssumption ==
  /\ None \notin Labels \cup Approvals
  /\ IsFiniteSet(Labels)
  /\ {Reserve, Budget, MaxFee, Window, MaxTime} \subseteq Nat

VARIABLES
  swap,       \* loopd and LND: each label's swap
  clock,
  doc,        \* the ConfigMap lnd-ops-loop-operations
  pc, job,    \* where a screen is, and what for
  snap,       \* the copy of doc it read
  stale,      \* whether doc was replaced since (resourceVersion)
  seen,       \* the swaps it read from loopd
  token,      \* the approval a watching screen runs under
  label       \* the quote it submits

world == <<swap, clock>>
screen == <<pc, job, snap, stale, seen, token, label>>
vars == <<swap, clock, doc, pc, job, snap, stale, seen, token, label>>

-----------------------------------------------------------------------------

Terminal == {"SUCCESS", "FAILED"}

(* at: when it last cost something; open: an HTLC or payment of a failed swap *)
(* is unresolved and may still cost.                                       *)
Swap == [state : {"unsent", "posted", "INITIATED"} \cup Terminal,
         fee : 0..MaxFee, at : 0..MaxTime, open : BOOLEAN]
NoSwap == [state |-> "unsent", fee |-> 0, at |-> 0, open |-> FALSE]

(* by: the approval an automatic record was made under; observed:          *)
(* cost_observed_at; settled: budget_settled.                              *)
Record == [status : {"absent", "SUBMITTING", "INITIATED"} \cup Terminal,
           by : Approvals \cup {None}, fee : 0..MaxFee,
           created : 0..MaxTime, observed : 0..MaxTime, settled : BOOLEAN]
NoRecord == [status |-> "absent", by |-> None, fee |-> 0, created |-> 0,
             observed |-> 0, settled |-> FALSE]

Doc == [recs : [Labels -> Record], on : BOOLEAN, approval : Approvals \cup {None}]
NoDoc == [recs |-> [l \in Labels |-> NoRecord], on |-> FALSE, approval |-> None]

Init ==
  /\ swap = [l \in Labels |-> NoSwap]
  /\ clock = 0
  /\ doc = NoDoc
  /\ pc = [p \in Procs |-> "idle"]
  /\ job = [p \in Procs |-> "refresh"]
  /\ snap = [p \in Procs |-> NoDoc]
  /\ stale = [p \in Procs |-> FALSE]
  /\ seen = [p \in Procs |-> swap]
  /\ token = [p \in Procs |-> None]
  /\ label = [p \in Procs |-> None]

Goto(p, l) == pc' = [pc EXCEPT ![p] = l]

(* Back at the menu, or watching while t # None.                           *)
ReturnOnly(p, t) ==
  /\ Goto(p, "idle")
  /\ job' = [job EXCEPT ![p] = "refresh"]
  /\ snap' = [snap EXCEPT ![p] = NoDoc]
  /\ seen' = [seen EXCEPT ![p] = [l \in Labels |-> NoSwap]]
  /\ token' = [token EXCEPT ![p] = t]
  /\ label' = [label EXCEPT ![p] = None]

Return(p, t) == ReturnOnly(p, t) /\ stale' = [stale EXCEPT ![p] = FALSE]

OthersStale(p) == [q \in Procs |-> q # p /\ pc[q] # "idle"]

BlindReplace(p, d) ==                                       \* mutant
  /\ doc' = d
  /\ stale' = OthersStale(p)

(* kubectl replace with the resourceVersion read, or create.               *)
Replace(p, d) ==
  /\ ~stale[p]
  /\ doc' = d
  /\ stale' = OthersStale(p)

-----------------------------------------------------------------------------
(* document, swaps, reconcile.                                             *)

Read(p, j, next) ==
  /\ pc[p] = "idle"
  /\ job' = [job EXCEPT ![p] = j]
  /\ snap' = [snap EXCEPT ![p] = doc]
  /\ stale' = [stale EXCEPT ![p] = FALSE]
  /\ Goto(p, next)
  /\ UNCHANGED <<world, doc, seen, token, label>>

(* A watching screen only ticks, shows and quits.                          *)
Begin(p) ==
  \E j \in IF token[p] = None THEN {"refresh", "manual", "arm"} ELSE {"refresh", "auto"} :
    Read(p, j, "swaps")

Visible(s) == s.state \in {"INITIATED"} \cup Terminal

Listed == [l \in Labels |-> IF Visible(swap[l]) THEN [swap[l] EXCEPT !.open = FALSE]
                                               ELSE NoSwap]

ReadSwaps(p) ==
  /\ pc[p] = "swaps"
  /\ seen' = [seen EXCEPT ![p] = Listed]
  /\ Goto(p, "reconcile")
  /\ UNCHANGED <<world, doc, job, snap, stale, token, label>>

ReleaseOnFailure(s, now) == s.state = "FAILED"              \* mutant

(* Fresh evidence that a failed Out costs no more than it did: its payment *)
(* failed, no payment is in flight, no channel has a pending HTLC.         *)
Evidence(s, now) == s.state = "FAILED" /\ ~now.open

CostIsNews(r, s) ==
  s.fee # r.fee \/ (s.state \in Terminal /\ r.status \notin Terminal)

(* An intent loopd does not show takes the default state of a swap.        *)
DefaultState(r, s, now) ==                                  \* mutant
  [r EXCEPT !.status = IF r.status = "absent" THEN "absent" ELSE s.state]

(* What a record becomes, given the swap s it was told of and the payments *)
(* now; an intent loopd does not show stays as it is.                      *)
Updated(r, s, now) ==
  IF r.status = "absent" \/ ~Visible(s)
    THEN [r EXCEPT !.settled = FALSE]
    ELSE [r EXCEPT !.status = s.state, !.fee = s.fee,
                   !.observed = IF CostIsNews(r, s) THEN clock ELSE r.observed,
                   !.settled = Evidence(s, now)]

(* A swap that ends turns the automatic rule off.                          *)
Reconciled(d, swaps) ==
  [d EXCEPT !.recs = [l \in Labels |-> Updated(d.recs[l], swaps[l], swap[l])],
            !.on = d.on /\ \A l \in Labels :
                     d.recs[l].status \notin {"SUBMITTING", "INITIATED"}
                       \/ swaps[l].state \notin Terminal]

Reconcile(p) ==
  /\ pc[p] = "reconcile"
  /\ LET d == Reconciled(snap[p], seen[p]) IN
       /\ IF d = snap[p] THEN UNCHANGED <<doc, stale>> ELSE Replace(p, d)
       /\ snap' = [snap EXCEPT ![p] = d]
  /\ Goto(p, "decide")
  /\ UNCHANGED <<world, job, seen, token, label>>

Quiet(p) ==
  /\ \A l \in Labels : snap[p].recs[l].status \in {"absent"} \cup Terminal
  /\ \A l \in Labels : Visible(seen[p][l]) => seen[p][l].state \in Terminal

-----------------------------------------------------------------------------
(* submit.                                                                 *)

LargerOf(a, b) == IF a >= b THEN a ELSE b

(* Reserved or spent in the last 24 hours.                                 *)
Charge(r) == IF r.settled THEN r.fee ELSE LargerOf(Reserve, r.fee)
Used(d) ==
  MapThenSumSet(LAMBDA l : Charge(d.recs[l]),
    {l \in Labels : /\ d.recs[l].status # "absent"
                    /\ LargerOf(d.recs[l].created, d.recs[l].observed) + Window >= clock})

Fresh(l) ==
  /\ doc.recs[l].status = "absent" /\ swap[l].state = "unsent"
  /\ \A q \in Procs : label[q] # l /\ snap[q].recs[l].status = "absent"

AsApprovedOnce(p) == TRUE                                        \* mutant

Allowed(p) ==
  job[p] = "auto" => snap[p].on /\ snap[p].approval = token[p]

StaysArmed(d, l, r) == [d EXCEPT !.recs[l] = r]             \* mutant

Claimed(d, l, r) == [d EXCEPT !.recs[l] = r, !.on = FALSE]

(* The claim is in the journal before anything is asked of loopd.          *)
Claim(p, l) ==
  /\ pc[p] = "decide" /\ job[p] \in {"manual", "auto"}
  /\ Quiet(p) /\ Fresh(l) /\ Allowed(p)
  /\ Used(snap[p]) + Reserve =< Budget
  /\ LET r == [NoRecord EXCEPT !.status = "SUBMITTING", !.created = clock,
                               !.by = IF job[p] = "auto" THEN token[p] ELSE None]
         d == Claimed(snap[p], l, r)
     IN Replace(p, d) /\ snap' = [snap EXCEPT ![p] = d]
  /\ label' = [label EXCEPT ![p] = l]
  /\ seen' = [seen EXCEPT ![p] = [m \in Labels |-> NoSwap]]
  /\ Goto(p, "post")
  /\ UNCHANGED <<world, job, token>>

(* Answered or not, it is not posted again: the screen shows the label;    *)
(* after an error an automatic one disarms (BeginDisarm).                  *)
Post(p) ==
  /\ pc[p] = "post"
  /\ swap' = [swap EXCEPT ![label[p]].state = "posted"]
  /\ Return(p, token[p])
  /\ UNCHANGED <<clock, doc>>

-----------------------------------------------------------------------------
(* arm, disarm, leaving.                                                   *)

(* The screen then watches under its approval, unless arm's answer is lost. *)
Arm(p, a) ==
  /\ pc[p] = "decide" /\ job[p] = "arm"
  /\ Quiet(p)
  /\ doc.approval # a
  /\ \A q \in Procs : token[q] # a /\ snap[q].approval # a
  /\ \A l \in Labels : doc.recs[l].by # a
  /\ Replace(p, [snap[p] EXCEPT !.on = TRUE, !.approval = a])
  /\ \E t \in {a, None} : ReturnOnly(p, t)
  /\ UNCHANGED world

(* A tick or a refresh with nothing to do.                                 *)
Done(p) ==
  /\ pc[p] = "decide" /\ job[p] \in {"refresh", "auto"}
  /\ Return(p, token[p])
  /\ UNCHANGED <<world, doc>>

(* disarm, from the menu (any rule), or by a watching screen that quits,   *)
(* was refused or failed (its own).                                        *)
BeginDisarm(p) ==
  \/ Read(p, "disarm", "disarm")
  \/ /\ token[p] # None /\ pc[p] \notin {"idle", "disarm"}
     /\ job' = [job EXCEPT ![p] = "disarm"]
     /\ snap' = [snap EXCEPT ![p] = doc]
     /\ stale' = [stale EXCEPT ![p] = FALSE]
     /\ Goto(p, "disarm")
     /\ label' = [label EXCEPT ![p] = None]
     /\ UNCHANGED <<world, doc, seen, token>>

Disarm(p) ==
  /\ pc[p] = "disarm"
  /\ IF snap[p].on /\ token[p] \in {None, snap[p].approval}
       THEN Replace(p, [snap[p] EXCEPT !.on = FALSE]) /\ ReturnOnly(p, None)
       ELSE Return(p, None) /\ UNCHANGED doc
  /\ UNCHANGED world

(* A check refuses, a conflict or an RPC error is raised, or the screen is *)
(* killed: a rule it armed stays on, but no screen holds its approval.     *)
Stop(p) ==
  /\ pc[p] # "idle" \/ token[p] # None
  /\ Return(p, None)
  /\ UNCHANGED <<world, doc>>

-----------------------------------------------------------------------------
(* loopd, LND, time.                                                       *)

Becomes(l, s) ==
  /\ swap' = [swap EXCEPT ![l] = s]
  /\ UNCHANGED <<clock, doc, screen>>

Starts(l) == swap[l].state = "posted" /\ Becomes(l, [swap[l] EXCEPT !.state = "INITIATED"])

Costs(l) ==
  /\ swap[l].state = "INITIATED" \/ swap[l].open
  /\ swap[l].fee < MaxFee
  /\ Becomes(l, [swap[l] EXCEPT !.fee = @ + 1, !.at = clock])

Ends(l) ==
  /\ swap[l].state = "INITIATED"
  /\ \/ Becomes(l, [swap[l] EXCEPT !.state = "SUCCESS"])
     \/ \E b \in BOOLEAN : Becomes(l, [swap[l] EXCEPT !.state = "FAILED", !.open = b])

Resolves(l) == swap[l].open /\ Becomes(l, [swap[l] EXCEPT !.open = FALSE])

Tick ==
  /\ clock < MaxTime
  /\ clock' = clock + 1
  /\ UNCHANGED <<swap, doc, screen>>

Step(p) ==
  \/ ReadSwaps(p) \/ Reconcile(p) \/ Post(p) \/ Done(p) \/ Disarm(p)
  \/ \E l \in Labels : Claim(p, l)
  \/ \E a \in Approvals : Arm(p, a)

Next ==
  \/ \E p \in Procs : Begin(p) \/ BeginDisarm(p) \/ Step(p) \/ Stop(p)
  \/ \E l \in Labels : Starts(l) \/ Costs(l) \/ Ends(l) \/ Resolves(l)
  \/ Tick

Spec == Init /\ [][Next]_vars

-----------------------------------------------------------------------------
(* Properties.                                                             *)

TypeOK ==
  /\ swap \in [Labels -> Swap]
  /\ clock \in 0..MaxTime
  /\ doc \in Doc
  /\ pc \in [Procs -> {"idle", "swaps", "reconcile", "decide", "post", "disarm"}]
  /\ job \in [Procs -> {"refresh", "manual", "auto", "arm", "disarm"}]
  /\ snap \in [Procs -> Doc]
  /\ stale \in [Procs -> BOOLEAN]
  /\ seen \in [Procs -> [Labels -> Swap]]
  /\ token \in [Procs -> Approvals \cup {None}]
  /\ label \in [Procs -> Labels \cup {None}]

Ledger(l) == CASE doc.recs[l].status = "absent"  -> "none"
               [] doc.recs[l].status = "SUCCESS" -> "done"
               [] doc.recs[l].status = "FAILED"  -> "refused"
               [] OTHER                          -> "open"

Fate(l) == CASE swap[l].state = "unsent"  -> "unsent"
             [] swap[l].state = "SUCCESS" -> "done"
             [] swap[l].state = "FAILED"  -> "refused"
             [] OTHER                     -> "live"

Flight == INSTANCE SingleFlight WITH
            Attempts <- Labels,
            ledger <- [l \in Labels |-> Ledger(l)],
            fate <- [l \in Labels |-> Fate(l)]

(* "durable, single-flight ... Lost responses never trigger retries"       *)
(* (loop_ops.py:1): the journal and loopd implement SingleFlight, whatever *)
(* screens race for the ConfigMap or die between the claim and the post.   *)
ImplementsSingleFlight == Flight!Spec

(* "AUTO 1": one approval starts at most one swap, also when its screen    *)
(* fails between the claim and the post and ticks again; and a rule that   *)
(* is on has nothing undecided in front of it.                             *)
OneSwapPerApproval ==
  /\ \A l, m \in Labels :
       doc.recs[l].by # None /\ doc.recs[l].by = doc.recs[m].by => l = m
  /\ doc.on => \A l \in Labels :
       /\ doc.recs[l].status \in {"absent"} \cup Terminal
       /\ doc.recs[l].by # doc.approval

(* No automatic claim enters the journal unless the journal itself then    *)
(* says the rule is on and approved: a disarm on any screen wins.          *)
DisarmWins ==
  [][\A l \in Labels :
       doc.recs[l].status = "absent" /\ doc'.recs[l].by # None =>
         doc.on /\ doc.approval = doc'.recs[l].by]_doc

(* What the 24 hours before a claim really cost, as loopd last told that   *)
(* screen; a swap that may still cost counts with its reservation.         *)
Exposure(p) ==
  MapThenSumSet(
    LAMBDA l : IF swap[l].open THEN LargerOf(Reserve, seen[p][l].fee) ELSE seen[p][l].fee,
    {l \in Labels : seen[p][l].state # "unsent" /\ seen[p][l].at + Window >= clock})

(* A swap starts only if the budget covers its reservation on top of what  *)
(* the last 24 hours cost and may still cost, however late it was learnt.  *)
BudgetAdmits ==
  [][\A p \in Procs : pc[p] = "decide" /\ pc'[p] = "post" =>
       Exposure(p) + Reserve =< Budget]_vars

=============================================================================
