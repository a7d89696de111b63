----------------------------- MODULE LoopOps_proofs -----------------------------
(***************************************************************************)
(* Proofs about LoopOps, for any number of screens, quotes and approvals,  *)
(* any budget and any clock.  The first part needs nothing of the budget's *)
(* arithmetic; the last three sections open it, down to its sums.          *)
(***************************************************************************)
EXTENDS LoopOps, FiniteSetTheorems, TLAPS

Open(l) == doc.recs[l].status \in {"SUBMITTING", "INITIATED"}

(* The resource version: a copy that is not stale is the journal.          *)
SnapInv == \A p \in Procs : pc[p] # "idle" /\ ~stale[p] => snap[p] = doc

(* What the journal says of a swap.                                        *)
DocInv ==
  /\ \A l \in Labels : doc.recs[l].status = "absent" => doc.recs[l].by = None
  /\ \A l \in Labels : doc.recs[l].status \in Terminal => swap[l].state = doc.recs[l].status
  /\ \A l, m \in Labels : Open(l) /\ Open(m) => l = m

(* What a screen was told of a swap is no more than has happened, and of a *)
(* swap the journal has as ended, it was told the end.                     *)
SeenInv ==
  \A p \in Procs, l \in Labels :
    /\ Visible(seen[p][l]) => Visible(swap[l])
    /\ seen[p][l].state \in Terminal => swap[l].state = seen[p][l].state
    /\ pc[p] = "reconcile" /\ ~stale[p] /\ doc.recs[l].status \in Terminal =>
         seen[p][l].state \in Terminal

(* Between the claim and the post.                                         *)
PostInv ==
  \A p \in Procs :
    /\ pc[p] = "post" => /\ label[p] \in Labels
                         /\ swap[label[p]].state = "unsent"
                         /\ doc.recs[label[p]].status = "SUBMITTING"
    /\ \A q \in Procs : pc[p] = "post" /\ pc[q] = "post" => p = q

IInv == TypeOK /\ SnapInv /\ DocInv /\ SeenInv /\ PostInv /\ OneSwapPerApproval

-----------------------------------------------------------------------------
(* Types.                                                                  *)

(* A record has its fields, and an updated one the status it was told of.  *)
LEMMA UpdatedIs ==
  ASSUME TypeOK, NEW r \in Record, NEW s \in Swap, NEW now \in Swap
  PROVE  LET u == Updated(r, s, now)
         IN  /\ u \in Record /\ u.by = r.by
             /\ u.status = IF r.status = "absent" \/ ~Visible(s) THEN r.status ELSE s.state
<1>1. clock \in 0..MaxTime
  BY DEF TypeOK
<1>2. CASE r.status = "absent" \/ ~Visible(s)
  BY <1>2 DEF Updated, Record
<1>3. CASE ~(r.status = "absent" \/ ~Visible(s))
  <2>1. PICK o \in 0..MaxTime, b \in BOOLEAN :
          Updated(r, s, now) = [r EXCEPT !.status = s.state, !.fee = s.fee,
                                         !.observed = o, !.settled = b]
    <3>1. Evidence(s, now) \in BOOLEAN
      BY DEF Evidence
    <3>2. (IF CostIsNews(r, s) THEN clock ELSE r.observed) \in 0..MaxTime
      BY <1>1 DEF Record
    <3>3. QED  BY <1>3, <3>1, <3>2 DEF Updated
  <2>2. s.state \in {"INITIATED"} \cup Terminal /\ s.fee \in 0..MaxFee
    BY <1>3 DEF Visible, Swap
  <2>3. QED  BY <1>3, <2>1, <2>2 DEF Record
<1>4. QED  BY <1>2, <1>3

(* What loopd lists is a swap for each label.                              *)
LEMMA ListedIs == ASSUME TypeOK, NEW l \in Labels
  PROVE  /\ Listed \in [Labels -> Swap]
         /\ Visible(Listed[l]) <=> Visible(swap[l])
         /\ Visible(swap[l]) => Listed[l].state = swap[l].state
<1>1. NoSwap \in Swap
  BY LoopAssumption DEF NoSwap, Swap
<1>2. \A s \in Swap : [s EXCEPT !.open = FALSE] \in Swap /\ [s EXCEPT !.open = FALSE].state = s.state
  BY DEF Swap
<1>3. \A m \in Labels : swap[m] \in Swap
  BY DEF TypeOK
<1>4. ~Visible(NoSwap)
  BY DEF Visible, NoSwap, Terminal
<1>5. QED  BY <1>1, <1>2, <1>3, <1>4 DEF Listed, Visible

(* Reconciling touches each record by itself, and can only turn the rule   *)
(* off.                                                                    *)
LEMMA ReconciledIs ==
  ASSUME TypeOK, NEW d \in Doc, NEW swaps \in [Labels -> Swap]
  PROVE  LET e == Reconciled(d, swaps)
         IN  /\ e \in Doc /\ e.approval = d.approval
             /\ e.on => d.on
             /\ \A l \in Labels : e.recs[l] = Updated(d.recs[l], swaps[l], swap[l])
<1> DEFINE recs == [l \in Labels |-> Updated(d.recs[l], swaps[l], swap[l])]
           on == d.on /\ \A l \in Labels :
                   d.recs[l].status \notin {"SUBMITTING", "INITIATED"}
                     \/ swaps[l].state \notin Terminal
<1>1. /\ d.recs \in [Labels -> Record] /\ d.on \in BOOLEAN
      /\ d.approval \in Approvals \cup {None} /\ swap \in [Labels -> Swap]
  BY DEF TypeOK, Doc
<1>2. recs \in [Labels -> Record]
  BY <1>1, UpdatedIs
<1>3. PICK b \in BOOLEAN : /\ Reconciled(d, swaps) = [d EXCEPT !.recs = recs, !.on = b]
                           /\ b => d.on
  <2>1. on \in BOOLEAN
    BY <1>1
  <2>2. Reconciled(d, swaps) = [d EXCEPT !.recs = recs, !.on = on]
    BY DEF Reconciled
  <2>3. QED  BY <2>1, <2>2
<1> HIDE DEF on
<1>4. QED  BY <1>1, <1>2, <1>3 DEF Doc

(* A claim is one record put where there was none, with the rule off.      *)
LEMMA ClaimedIs ==
  ASSUME NEW d \in Doc, NEW l \in Labels, NEW r \in Record
  PROVE  LET e == Claimed(d, l, r)
         IN  /\ e \in Doc /\ ~e.on /\ e.approval = d.approval /\ e.recs[l] = r
             /\ \A m \in Labels : m # l => e.recs[m] = d.recs[m]
BY DEF Claimed, Doc

(* The record of a claim.                                                  *)
LEMMA ClaimIs ==
  ASSUME TypeOK, NEW p \in Procs, NEW l \in Labels, Claim(p, l)
  PROVE  \E r \in Record :
           /\ r.status = "SUBMITTING"
           /\ r.by = IF job[p] = "auto" THEN token[p] ELSE None
           /\ ~stale[p] /\ doc' = Claimed(snap[p], l, r) /\ stale' = OthersStale(p)
           /\ snap' = [snap EXCEPT ![p] = Claimed(snap[p], l, r)]
<1> DEFINE by == IF job[p] = "auto" THEN token[p] ELSE None
           r == [NoRecord EXCEPT !.status = "SUBMITTING", !.created = clock, !.by = by]
<1>1. by \in Approvals \cup {None} /\ clock \in 0..MaxTime
  BY DEF TypeOK
<1>2. NoRecord \in Record
  BY LoopAssumption DEF NoRecord, Record
<1> HIDE DEF by
<1>3. r \in Record /\ r.status = "SUBMITTING" /\ r.by = by
  BY <1>1, <1>2 DEF Record
<1>4. /\ ~stale[p] /\ doc' = Claimed(snap[p], l, r) /\ stale' = OthersStale(p)
      /\ snap' = [snap EXCEPT ![p] = Claimed(snap[p], l, r)]
  BY DEF Claim, Replace, by
<1> HIDE DEF r
<1>5. QED  BY <1>3, <1>4 DEF by

(* Coming back to the menu keeps the types of the screens.                 *)
LEMMA ReturnTypes ==
  ASSUME TypeOK, NEW p \in Procs, NEW t \in Approvals \cup {None}, ReturnOnly(p, t)
  PROVE  /\ pc' \in [Procs -> {"idle", "swaps", "reconcile", "decide", "post", "disarm"}]
         /\ job' \in [Procs -> {"refresh", "manual", "auto", "arm", "disarm"}]
         /\ snap' \in [Procs -> Doc]
         /\ seen' \in [Procs -> [Labels -> Swap]]
         /\ token' \in [Procs -> Approvals \cup {None}]
         /\ label' \in [Procs -> Labels \cup {None}]
<1>1. NoSwap \in Swap /\ NoRecord \in Record
  BY LoopAssumption DEF NoSwap, Swap, NoRecord, Record
<1>2. NoDoc \in Doc
  BY <1>1 DEF NoDoc, Doc
<1>3. [l \in Labels |-> NoSwap] \in [Labels -> Swap]
  BY <1>1
<1>4. QED  BY <1>2, <1>3 DEF TypeOK, ReturnOnly, Goto

(* A screen's step keeps the types.                                        *)
LEMMA ScreenTypes ==
  ASSUME TypeOK, PostInv, NEW p \in Procs, Begin(p) \/ BeginDisarm(p) \/ Step(p) \/ Stop(p)
  PROVE  TypeOK'
<1> USE DEF world, screen
<1>1. ASSUME NEW j \in {"refresh", "manual", "auto", "arm", "disarm"},
             NEW next \in {"swaps", "disarm"}, Read(p, j, next)
      PROVE  TypeOK'
  BY <1>1 DEF TypeOK, Read, Goto
<1>2. CASE Begin(p)
  BY <1>1, <1>2 DEF Begin
<1>3. CASE BeginDisarm(p)
  <2>1. CASE Read(p, "disarm", "disarm")
    BY <1>1, <2>1
  <2>2. CASE ~Read(p, "disarm", "disarm")
    <3>1. /\ job' = [job EXCEPT ![p] = "disarm"] /\ snap' = [snap EXCEPT ![p] = doc]
          /\ stale' = [stale EXCEPT ![p] = FALSE] /\ pc' = [pc EXCEPT ![p] = "disarm"]
          /\ label' = [label EXCEPT ![p] = None] /\ UNCHANGED <<swap, clock, doc, seen, token>>
      BY <1>3, <2>2 DEF BeginDisarm, Goto
    <3>2. QED  BY <3>1 DEF TypeOK
  <2>3. QED  BY <2>1, <2>2
<1>4. CASE ReadSwaps(p)
  <2>1. Listed \in [Labels -> Swap]
    BY ListedIs DEF Listed
  <2>2. QED  BY <1>4, <2>1 DEF ReadSwaps, TypeOK, Goto
<1>5. CASE Reconcile(p)
  <2> DEFINE d == Reconciled(snap[p], seen[p])
  <2>1. d \in Doc
    BY ReconciledIs DEF TypeOK
  <2>2. /\ (doc' = doc /\ stale' = stale) \/ (doc' = d /\ stale' = OthersStale(p))
        /\ snap' = [snap EXCEPT ![p] = d]
    BY <1>5 DEF Reconcile, Replace
  <2> HIDE DEF d
  <2>3. doc' \in Doc /\ stale' \in [Procs -> BOOLEAN] /\ snap' \in [Procs -> Doc]
    BY <2>1, <2>2 DEF TypeOK, OthersStale
  <2>4. QED  BY <1>5, <2>3 DEF Reconcile, TypeOK, Goto
<1>6. ASSUME NEW l \in Labels, Claim(p, l)  PROVE TypeOK'
  <2>1. PICK d \in Doc : doc' = d /\ stale' = OthersStale(p) /\ snap' = [snap EXCEPT ![p] = d]
    BY <1>6, ClaimIs, ClaimedIs DEF TypeOK
  <2>2. [m \in Labels |-> NoSwap] \in [Labels -> Swap]
    BY LoopAssumption DEF NoSwap, Swap
  <2>3. /\ label' = [label EXCEPT ![p] = l] /\ pc' = [pc EXCEPT ![p] = "post"]
        /\ seen' = [seen EXCEPT ![p] = [m \in Labels |-> NoSwap]]
        /\ UNCHANGED <<swap, clock, job, token>>
    BY <1>6 DEF Claim, Goto
  <2>4. QED  BY <2>1, <2>2, <2>3 DEF TypeOK, OthersStale
<1>7. CASE Post(p)
  <2>1. swap' \in [Labels -> Swap]
    <3>1. \A s \in Swap : [s EXCEPT !.state = "posted"] \in Swap
      BY DEF Swap
    <3>2. swap \in [Labels -> Swap] /\ swap' = [swap EXCEPT ![label[p]].state = "posted"]
      BY <1>7 DEF Post, TypeOK
    <3>3. QED  BY <3>1, <3>2
  <2>2. token[p] \in Approvals \cup {None} /\ ReturnOnly(p, token[p])
    BY <1>7 DEF Post, TypeOK, Return
  <2>3. UNCHANGED <<clock, doc>> /\ stale' = [stale EXCEPT ![p] = FALSE]
    BY <1>7 DEF Post, Return
  <2>4. QED  BY <2>1, <2>2, <2>3, ReturnTypes DEF TypeOK
<1>8. ASSUME NEW a \in Approvals, Arm(p, a)  PROVE TypeOK'
  <2>1. PICK t \in Approvals \cup {None} : ReturnOnly(p, t)
    BY <1>8 DEF Arm
  <2>2. doc' \in Doc
    BY <1>8 DEF Arm, Replace, TypeOK, Doc
  <2>3. QED  BY <1>8, <2>1, <2>2, ReturnTypes DEF Arm, Replace, TypeOK, OthersStale
<1>9. CASE Done(p) \/ Stop(p)
  <2>1. PICK t \in Approvals \cup {None} : Return(p, t)
    BY <1>9 DEF Done, Stop, TypeOK
  <2>2. QED  BY <1>9, <2>1, ReturnTypes DEF Done, Stop, Return, TypeOK
<1>10. CASE Disarm(p)
  <2>1. ReturnOnly(p, None) /\ UNCHANGED <<swap, clock>>
    BY <1>10 DEF Disarm, Return
  <2>2. doc' \in Doc
    BY <1>10 DEF Disarm, Replace, TypeOK, Doc
  <2>3. stale' \in [Procs -> BOOLEAN]
    BY <1>10 DEF Disarm, Replace, Return, TypeOK, OthersStale
  <2>4. QED  BY <2>1, <2>2, <2>3, ReturnTypes DEF TypeOK
<1>11. QED
  BY <1>2, <1>3, <1>4, <1>5, <1>6, <1>7, <1>8, <1>9, <1>10 DEF Step

(* A step of loopd or of time keeps the types.                             *)
LEMMA WorldTypes ==
  ASSUME TypeOK, NEW l \in Labels, Starts(l) \/ Costs(l) \/ Ends(l) \/ Resolves(l)
  PROVE  /\ TypeOK'
         /\ UNCHANGED <<doc, pc, snap, stale, seen, label>>
         /\ \A m \in Labels : m # l => swap'[m] = swap[m]
         /\ \/ swap[l].state = "posted" /\ swap'[l].state = "INITIATED"
            \/ swap'[l].state = swap[l].state
            \/ swap[l].state = "INITIATED" /\ swap'[l].state \in Terminal
<1>1. swap[l] \in Swap /\ swap \in [Labels -> Swap]
  BY DEF TypeOK
<1>2. PICK s \in Swap :
        /\ Becomes(l, s)
        /\ \/ swap[l].state = "posted" /\ s.state = "INITIATED"
           \/ s.state = swap[l].state
           \/ swap[l].state = "INITIATED" /\ s.state \in Terminal
  <2>1. CASE Starts(l)
    BY <1>1, <2>1 DEF Starts, Swap
  <2>2. CASE Costs(l)
    <3> DEFINE s == [swap[l] EXCEPT !.fee = @ + 1, !.at = clock]
    <3>1. swap[l].fee \in Nat /\ swap[l].fee < MaxFee /\ clock \in 0..MaxTime /\ MaxFee \in Nat
      BY <1>1, <2>2, LoopAssumption DEF Costs, Swap, TypeOK
    <3>2. swap[l].fee + 1 \in 0..MaxFee
      BY <3>1
    <3>3. s \in Swap /\ s.state = swap[l].state
      BY <1>1, <3>1, <3>2 DEF Swap
    <3>4. QED  BY <2>2, <3>3 DEF Costs
  <2>3. CASE Ends(l)
    <3>1. [swap[l] EXCEPT !.state = "SUCCESS"] \in Swap
      BY <1>1 DEF Swap, Terminal
    <3>2. \A b \in BOOLEAN : [swap[l] EXCEPT !.state = "FAILED", !.open = b] \in Swap
      BY <1>1 DEF Swap, Terminal
    <3>3. QED  BY <1>1, <2>3, <3>1, <3>2 DEF Ends, Terminal, Swap
  <2>4. CASE Resolves(l)
    <3>1. [swap[l] EXCEPT !.open = FALSE] \in Swap
      BY <1>1 DEF Swap
    <3>2. [swap[l] EXCEPT !.open = FALSE].state = swap[l].state
      BY <1>1 DEF Swap
    <3>3. QED  BY <2>4, <3>1, <3>2 DEF Resolves
  <2>5. QED  BY <2>1, <2>2, <2>3, <2>4
<1>3. QED  BY <1>1, <1>2 DEF Becomes, screen, TypeOK

-----------------------------------------------------------------------------
(* The invariant, one lemma per kind of step.                              *)

(* A screen that reads the journal, to look or to disarm.                  *)
LEMMA ReadInv == ASSUME IInv, NEW p \in Procs, Begin(p) \/ BeginDisarm(p)
  PROVE  IInv' /\ UNCHANGED <<swap, doc>>
<1> USE DEF IInv, world
<1>1. TypeOK'
  BY ScreenTypes
<1>2. /\ pc'[p] \in {"swaps", "disarm"} /\ snap'[p] = doc /\ UNCHANGED <<swap, doc, seen>>
      /\ \A q \in Procs : q # p => /\ pc'[q] = pc[q] /\ snap'[q] = snap[q]
                                   /\ stale'[q] = stale[q] /\ label'[q] = label[q]
  BY DEF Begin, BeginDisarm, Read, Goto, TypeOK
<1>3. SnapInv' /\ DocInv' /\ SeenInv' /\ PostInv'
  BY <1>2 DEF SnapInv, DocInv, Open, SeenInv, PostInv
<1>4. OneSwapPerApproval'
  BY <1>2 DEF OneSwapPerApproval
<1>5. QED  BY <1>1, <1>2, <1>3, <1>4

(* loopd shows what has happened: an ended swap as ended.                  *)
LEMMA ReadSwapsInv == ASSUME IInv, NEW p \in Procs, ReadSwaps(p)
  PROVE  IInv' /\ UNCHANGED <<swap, doc>>
<1> USE DEF IInv, world
<1>1. TypeOK'
  BY ScreenTypes DEF Step
<1>2. /\ pc[p] = "swaps" /\ pc'[p] = "reconcile" /\ UNCHANGED <<swap, doc, snap, stale, label>>
      /\ seen'[p] = Listed
      /\ \A q \in Procs : q # p => pc'[q] = pc[q] /\ seen'[q] = seen[q]
  BY DEF ReadSwaps, Goto, TypeOK
<1>3. SnapInv' /\ DocInv' /\ PostInv' /\ OneSwapPerApproval'
  BY <1>2 DEF SnapInv, DocInv, Open, PostInv, OneSwapPerApproval
<1>4. \A l \in Labels :
        /\ Visible(Listed[l]) => Visible(swap[l])
        /\ Listed[l].state \in Terminal => swap[l].state = Listed[l].state
        /\ doc.recs[l].status \in Terminal => Listed[l].state \in Terminal
  BY ListedIs DEF DocInv, Visible
<1>5. SeenInv'
  <2> SUFFICES ASSUME NEW q \in Procs, NEW l \in Labels
               PROVE  /\ Visible(seen'[q][l]) => Visible(swap[l])
                      /\ seen'[q][l].state \in Terminal => swap[l].state = seen'[q][l].state
                      /\ pc'[q] = "reconcile" /\ ~stale[q] /\ doc.recs[l].status \in Terminal =>
                           seen'[q][l].state \in Terminal
    BY <1>2 DEF SeenInv, Visible
  <2>1. CASE q = p
    <3>1. seen'[q] = Listed
      BY <1>2, <2>1
    <3>2. QED  BY <1>4, <3>1
  <2>2. CASE q # p
    BY <1>2, <2>2 DEF SeenInv
  <2>3. QED  BY <2>1, <2>2
<1>6. QED  BY <1>1, <1>2, <1>3, <1>5

(* What reconciling the current journal makes of each record.              *)
LEMMA ReconciledRecord ==
  ASSUME IInv, NEW p \in Procs, pc[p] = "reconcile", ~stale[p], NEW l \in Labels
  PROVE  LET d == Reconciled(doc, seen[p])
         IN  /\ d.recs[l].by = doc.recs[l].by
             /\ \/ d.recs[l].status = doc.recs[l].status
                \/ Open(l) /\ d.recs[l].status = "INITIATED"
                \/ Open(l) /\ d.recs[l].status \in Terminal /\ d.recs[l].status = swap[l].state
             /\ d.recs[l].status # doc.recs[l].status => Visible(swap[l])
<1>1. /\ doc \in Doc /\ seen[p] \in [Labels -> Swap] /\ doc.recs[l] \in Record
      /\ seen[p][l] \in Swap /\ swap[l] \in Swap
  BY DEF IInv, TypeOK, Doc
<1>2. Reconciled(doc, seen[p]).recs[l] = Updated(doc.recs[l], seen[p][l], swap[l])
  BY <1>1, ReconciledIs DEF IInv
<1>3. LET u == Updated(doc.recs[l], seen[p][l], swap[l])
      IN  /\ u.by = doc.recs[l].by
          /\ u.status = IF doc.recs[l].status = "absent" \/ ~Visible(seen[p][l])
                          THEN doc.recs[l].status ELSE seen[p][l].state
  BY <1>1, UpdatedIs DEF IInv
<1>4. doc.recs[l].status \in {"absent", "SUBMITTING", "INITIATED"} \cup Terminal
  BY <1>1 DEF Record
<1>5. /\ Visible(seen[p][l]) => Visible(swap[l])
      /\ seen[p][l].state \in Terminal => swap[l].state = seen[p][l].state
      /\ doc.recs[l].status \in Terminal =>
           seen[p][l].state \in Terminal /\ swap[l].state = doc.recs[l].status
  BY DEF IInv, SeenInv, DocInv
<1>6. QED  BY <1>2, <1>3, <1>4, <1>5 DEF Open, Visible, Terminal

(* Reconciling closes records with what happened, and only from a copy     *)
(* that is current.                                                        *)
LEMMA ReconcileInv == ASSUME IInv, NEW p \in Procs, Reconcile(p)
  PROVE  /\ IInv' /\ UNCHANGED swap
         /\ \/ doc' = doc
            \/ pc[p] = "reconcile" /\ ~stale[p] /\ doc' = Reconciled(doc, seen[p])
<1> USE DEF IInv, world
<1> DEFINE d == Reconciled(snap[p], seen[p])
<1>1. TypeOK'
  BY ScreenTypes DEF Step
<1>2. /\ pc[p] = "reconcile" /\ pc'[p] = "decide" /\ UNCHANGED <<swap, seen, label>>
      /\ snap'[p] = d
      /\ \A q \in Procs : q # p => pc'[q] = pc[q] /\ snap'[q] = snap[q]
  BY DEF Reconcile, Goto, TypeOK
<1>3. \/ d = snap[p] /\ doc' = doc /\ stale' = stale
      \/ ~stale[p] /\ snap[p] = doc /\ doc' = d /\ stale' = OthersStale(p)
  BY <1>2 DEF Reconcile, Replace, SnapInv
<1> HIDE DEF d
<1>4. CASE d = snap[p] /\ doc' = doc /\ stale' = stale
  <2>1. SnapInv' /\ DocInv' /\ SeenInv' /\ PostInv' /\ OneSwapPerApproval'
    BY <1>2, <1>4 DEF SnapInv, DocInv, Open, SeenInv, PostInv, OneSwapPerApproval
  <2>2. QED  BY <1>1, <1>2, <1>4, <2>1
<1>5. CASE ~stale[p] /\ snap[p] = doc /\ doc' = d /\ stale' = OthersStale(p)
  <2>1. doc' = Reconciled(doc, seen[p])
    BY <1>5 DEF d
  <2>2. \A l \in Labels :
          /\ doc'.recs[l].by = doc.recs[l].by
          /\ \/ doc'.recs[l].status = doc.recs[l].status
             \/ Open(l) /\ doc'.recs[l].status = "INITIATED"
             \/ Open(l) /\ doc'.recs[l].status \in Terminal /\ doc'.recs[l].status = swap[l].state
          /\ doc'.recs[l].status # doc.recs[l].status => Visible(swap[l])
    BY <1>2, <1>5, <2>1, ReconciledRecord
  <2>3. doc'.approval = doc.approval /\ (doc'.on => doc.on)
    BY <2>1, ReconciledIs DEF TypeOK
  <2>4. SnapInv'
    BY <1>2, <1>5 DEF SnapInv, OthersStale, TypeOK
  <2>5. DocInv'
    BY <1>2, <2>2 DEF DocInv, Open, Terminal
  <2>6. SeenInv'
    BY <1>2, <1>5 DEF SeenInv, OthersStale
  <2>7. PostInv'
    BY <1>2, <2>2 DEF PostInv, Visible, Terminal
  <2>8. OneSwapPerApproval'
    BY <2>2, <2>3 DEF OneSwapPerApproval, Open, Terminal
  <2>9. QED  BY <1>1, <1>2, <1>5, <2>1, <2>4, <2>5, <2>6, <2>7, <2>8
<1>6. QED  BY <1>3, <1>4, <1>5

(* Quiet, from a copy that is the journal: nothing is open.                *)
LEMMA QuietIs == ASSUME IInv, NEW p \in Procs, snap[p] = doc, Quiet(p)
  PROVE  \A l \in Labels : doc.recs[l].status \in {"absent"} \cup Terminal /\ ~Open(l)
BY DEF Quiet, Open, Terminal

(* The claim puts one new record into a journal with nothing open.         *)
LEMMA ClaimInv == ASSUME IInv, NEW p \in Procs, NEW l \in Labels, Claim(p, l)
  PROVE  /\ IInv' /\ UNCHANGED swap
         /\ doc.recs[l].status = "absent" /\ doc'.recs[l].status = "SUBMITTING"
         /\ \A m \in Labels : ~Open(m)
         /\ \A m \in Labels : m # l => doc'.recs[m] = doc.recs[m]
         /\ doc'.recs[l].by # None => doc.on /\ doc.approval = doc'.recs[l].by
<1> USE DEF IInv, world
<1>1. TypeOK'
  BY ScreenTypes DEF Step
<1>2. PICK r \in Record :
        /\ r.status = "SUBMITTING"
        /\ r.by = IF job[p] = "auto" THEN token[p] ELSE None
        /\ ~stale[p] /\ doc' = Claimed(snap[p], l, r) /\ stale' = OthersStale(p)
        /\ snap' = [snap EXCEPT ![p] = Claimed(snap[p], l, r)]
  BY ClaimIs
<1>3. /\ pc[p] = "decide" /\ Quiet(p) /\ Fresh(l) /\ Allowed(p) /\ UNCHANGED swap
      /\ pc' = [pc EXCEPT ![p] = "post"] /\ label' = [label EXCEPT ![p] = l]
      /\ seen' = [seen EXCEPT ![p] = [m \in Labels |-> NoSwap]]
  BY DEF Claim, Goto
<1>4. snap[p] = doc
  BY <1>2, <1>3 DEF SnapInv
<1>5. /\ doc' \in Doc /\ ~doc'.on /\ doc'.recs[l] = r
      /\ \A m \in Labels : m # l => doc'.recs[m] = doc.recs[m]
  BY <1>2, <1>4, ClaimedIs DEF TypeOK
<1>6. /\ pc'[p] = "post" /\ label'[p] = l /\ snap'[p] = doc' /\ seen'[p] = [m \in Labels |-> NoSwap]
      /\ \A q \in Procs : q # p =>
           /\ pc'[q] = pc[q] /\ label'[q] = label[q] /\ snap'[q] = snap[q] /\ seen'[q] = seen[q]
           /\ stale'[q] <=> pc[q] # "idle"
  BY <1>2, <1>3 DEF OthersStale, TypeOK
<1>7. \A m \in Labels : doc.recs[m].status \in {"absent"} \cup Terminal /\ ~Open(m)
  BY <1>3, <1>4, QuietIs
<1>8. \A q \in Procs : pc[q] # "post"
  BY <1>7 DEF PostInv, Open
<1>9. doc.recs[l].status = "absent" /\ swap[l].state = "unsent"
  BY <1>3 DEF Fresh
<1>10. r.by # None => doc.on /\ doc.approval = r.by /\ job[p] = "auto"
  BY <1>2, <1>3, <1>4 DEF Allowed
<1>11. SnapInv'
  BY <1>5, <1>6 DEF SnapInv
<1>12. DocInv'
  BY <1>2, <1>3, <1>5, <1>7 DEF DocInv, Open, Terminal
<1>13. SeenInv'
  <2> SUFFICES ASSUME NEW q \in Procs, NEW m \in Labels
               PROVE  /\ Visible(seen'[q][m]) => Visible(swap[m])
                      /\ seen'[q][m].state \in Terminal => swap[m].state = seen'[q][m].state
                      /\ pc'[q] = "reconcile" /\ ~stale'[q] /\ doc'.recs[m].status \in Terminal =>
                           seen'[q][m].state \in Terminal
    BY <1>3 DEF SeenInv, Visible
  <2>1. CASE q = p
    BY <1>6, <2>1 DEF Visible, NoSwap, Terminal
  <2>2. CASE q # p
    BY <1>6, <2>2 DEF SeenInv
  <2>3. QED  BY <2>1, <2>2
<1>14. PostInv'
  BY <1>2, <1>3, <1>5, <1>6, <1>8, <1>9 DEF PostInv
<1>15. OneSwapPerApproval'
  BY <1>5, <1>10 DEF OneSwapPerApproval
<1>16. QED
  BY <1>1, <1>2, <1>3, <1>5, <1>7, <1>9, <1>10, <1>11, <1>12, <1>13, <1>14, <1>15

(* A screen that comes back to the menu, the records as they were.         *)
LEMMA ReturnInv ==
  ASSUME IInv, NEW p \in Procs, NEW t, ReturnOnly(p, t),
         \A l \in Labels : doc'.recs[l] = doc.recs[l],
         UNCHANGED swap,
         \/ doc' = doc /\ stale' = [stale EXCEPT ![p] = FALSE]
         \/ stale' = OthersStale(p)
  PROVE  /\ SnapInv' /\ DocInv' /\ SeenInv' /\ PostInv'
<1> USE DEF IInv
<1>1. /\ pc'[p] = "idle" /\ seen'[p] = [l \in Labels |-> NoSwap]
      /\ \A q \in Procs : q # p =>
           /\ pc'[q] = pc[q] /\ label'[q] = label[q] /\ snap'[q] = snap[q] /\ seen'[q] = seen[q]
           /\ \/ doc' = doc /\ stale'[q] = stale[q]
              \/ stale'[q] <=> pc[q] # "idle"
  BY DEF ReturnOnly, Goto, TypeOK, OthersStale
<1>2. SnapInv'
  BY <1>1 DEF SnapInv
<1>3. DocInv' /\ PostInv'
  BY <1>1 DEF DocInv, Open, PostInv
<1>4. SeenInv'
  <2> SUFFICES ASSUME NEW q \in Procs, NEW m \in Labels
               PROVE  /\ Visible(seen'[q][m]) => Visible(swap[m])
                      /\ seen'[q][m].state \in Terminal => swap[m].state = seen'[q][m].state
                      /\ pc'[q] = "reconcile" /\ ~stale'[q] /\ doc.recs[m].status \in Terminal =>
                           seen'[q][m].state \in Terminal
    BY DEF SeenInv, Visible
  <2>1. CASE q = p
    BY <1>1, <2>1 DEF Visible, NoSwap, Terminal
  <2>2. CASE q # p
    BY <1>1, <2>2 DEF SeenInv
  <2>3. QED  BY <2>1, <2>2
<1>5. QED  BY <1>2, <1>3, <1>4

(* Ticking, leaving and disarming take a rule away, never a record.        *)
LEMMA BackInv == ASSUME IInv, NEW p \in Procs, Done(p) \/ Stop(p) \/ Disarm(p)
  PROVE  IInv' /\ UNCHANGED swap /\ \A l \in Labels : doc'.recs[l] = doc.recs[l]
<1> USE DEF IInv, world
<1>1. TypeOK'
  BY ScreenTypes DEF Step
<1>2. PICK t : ReturnOnly(p, t)
  BY DEF Done, Stop, Disarm, Return
<1>3. UNCHANGED swap
  BY DEF Done, Stop, Disarm
<1>4. \/ doc' = doc /\ stale' = [stale EXCEPT ![p] = FALSE]
      \/ doc' = [doc EXCEPT !.on = FALSE] /\ stale' = OthersStale(p)
  <2>1. CASE Done(p) \/ Stop(p)
    BY <2>1 DEF Done, Stop, Return
  <2>2. CASE Disarm(p)
    BY <2>2 DEF Disarm, Return, Replace, SnapInv
  <2>3. QED  BY <2>1, <2>2
<1>5. /\ \A l \in Labels : doc'.recs[l] = doc.recs[l]
      /\ doc'.approval = doc.approval /\ (doc'.on => doc.on)
  BY <1>4 DEF TypeOK, Doc
<1>6. SnapInv' /\ DocInv' /\ SeenInv' /\ PostInv'
  BY <1>2, <1>3, <1>4, <1>5, ReturnInv
<1>7. OneSwapPerApproval'
  BY <1>5 DEF OneSwapPerApproval
<1>8. QED  BY <1>1, <1>3, <1>5, <1>6, <1>7

(* Arming, with nothing open and an approval no record was made under.     *)
LEMMA ArmInv == ASSUME IInv, NEW p \in Procs, NEW a \in Approvals, Arm(p, a)
  PROVE  IInv' /\ UNCHANGED swap /\ \A l \in Labels : doc'.recs[l] = doc.recs[l]
<1> USE DEF IInv, world
<1>1. TypeOK'
  BY ScreenTypes DEF Step
<1>2. PICK t : ReturnOnly(p, t)
  BY DEF Arm
<1>3. /\ UNCHANGED swap /\ snap[p] = doc /\ stale' = OthersStale(p)
      /\ doc' = [doc EXCEPT !.on = TRUE, !.approval = a]
  BY DEF Arm, Replace, SnapInv
<1>4. doc'.approval = a /\ \A l \in Labels : doc'.recs[l] = doc.recs[l]
  BY <1>3 DEF TypeOK, Doc
<1>5. SnapInv' /\ DocInv' /\ SeenInv' /\ PostInv'
  BY <1>2, <1>3, <1>4, ReturnInv
<1>6. \A l \in Labels : doc.recs[l].status \in {"absent"} \cup Terminal /\ doc.recs[l].by # a
  BY <1>3, QuietIs DEF Arm
<1>7. OneSwapPerApproval'
  BY <1>4, <1>6 DEF OneSwapPerApproval
<1>8. QED  BY <1>1, <1>3, <1>4, <1>5, <1>7

(* The one post of a claim: of a swap that was never sent.                 *)
LEMMA PostStepInv == ASSUME IInv, NEW p \in Procs, Post(p)
  PROVE  /\ IInv' /\ UNCHANGED doc
         /\ label[p] \in Labels /\ swap[label[p]].state = "unsent" /\ Open(label[p])
         /\ swap'[label[p]].state = "posted"
         /\ \A l \in Labels : l # label[p] => swap'[l] = swap[l]
<1> USE DEF IInv, world
<1> DEFINE a == label[p]
<1>1. TypeOK'
  BY ScreenTypes DEF Step
<1>2. /\ pc[p] = "post" /\ a \in Labels /\ swap[a].state = "unsent"
      /\ doc.recs[a].status = "SUBMITTING"
  BY DEF Post, PostInv
<1>3. /\ UNCHANGED doc /\ ReturnOnly(p, token[p]) /\ stale' = [stale EXCEPT ![p] = FALSE]
      /\ swap' = [swap EXCEPT ![a].state = "posted"]
  BY DEF Post, Return
<1>4. swap'[a].state = "posted" /\ \A l \in Labels : l # a => swap'[l] = swap[l]
  BY <1>2, <1>3 DEF TypeOK, Swap
<1>5. /\ pc'[p] = "idle" /\ seen'[p] = [l \in Labels |-> NoSwap]
      /\ \A q \in Procs : q # p =>
           /\ pc'[q] = pc[q] /\ label'[q] = label[q] /\ snap'[q] = snap[q] /\ seen'[q] = seen[q]
           /\ stale'[q] = stale[q]
  BY <1>3 DEF ReturnOnly, Goto, TypeOK
<1>6. SnapInv'
  BY <1>3, <1>5 DEF SnapInv
<1>7. DocInv' /\ OneSwapPerApproval'
  BY <1>2, <1>3, <1>4 DEF DocInv, Open, Terminal, OneSwapPerApproval
<1>8. SeenInv'
  <2> SUFFICES ASSUME NEW q \in Procs, NEW m \in Labels
               PROVE  /\ Visible(seen'[q][m]) => Visible(swap'[m])
                      /\ seen'[q][m].state \in Terminal => swap'[m].state = seen'[q][m].state
                      /\ pc'[q] = "reconcile" /\ ~stale'[q] /\ doc.recs[m].status \in Terminal =>
                           seen'[q][m].state \in Terminal
    BY <1>3 DEF SeenInv, Visible
  <2>1. CASE q = p
    BY <1>5, <2>1 DEF Visible, NoSwap, Terminal
  <2>2. CASE q # p
    BY <1>2, <1>4, <1>5, <2>2 DEF SeenInv, Visible, Terminal
  <2>3. QED  BY <2>1, <2>2
<1>9. PostInv'
  <2>1. \A q \in Procs : q # p => pc[q] # "post"
    BY <1>2 DEF PostInv
  <2>2. QED  BY <1>5, <2>1 DEF PostInv
<1>10. QED  BY <1>1, <1>2, <1>3, <1>4, <1>6, <1>7, <1>8, <1>9 DEF Open

(* loopd and LND move a swap forward; what is recorded as ended has ended. *)
LEMMA WorldInv ==
  ASSUME IInv, NEW l \in Labels, Starts(l) \/ Costs(l) \/ Ends(l) \/ Resolves(l)
  PROVE  IInv'
<1> USE DEF IInv
<1>1. /\ TypeOK' /\ UNCHANGED <<doc, pc, snap, stale, seen, label>>
      /\ \A m \in Labels : m # l => swap'[m] = swap[m]
      /\ \/ swap[l].state = "posted" /\ swap'[l].state = "INITIATED"
         \/ swap'[l].state = swap[l].state
         \/ swap[l].state = "INITIATED" /\ swap'[l].state \in Terminal
  BY WorldTypes
<1>2. \A m \in Labels :
        \/ swap'[m].state = swap[m].state
        \/ /\ swap[m].state \in {"posted", "INITIATED"}
           /\ swap'[m].state \in {"INITIATED"} \cup Terminal
  BY <1>1
<1>3. SnapInv' /\ OneSwapPerApproval'
  BY <1>1 DEF SnapInv, OneSwapPerApproval
<1>4. DocInv'
  BY <1>1, <1>2 DEF DocInv, Open, Terminal
<1>5. SeenInv'
  BY <1>1, <1>2 DEF SeenInv, Visible, Terminal
<1>6. PostInv'
  BY <1>1, <1>2 DEF PostInv
<1>7. QED  BY <1>1, <1>3, <1>4, <1>5, <1>6

(* Time passes, or nothing does.                                           *)
LEMMA RestInv == ASSUME IInv, Tick \/ UNCHANGED vars
  PROVE  IInv' /\ UNCHANGED <<swap, doc>>
<1> USE DEF IInv, screen
<1>1. UNCHANGED <<swap, doc, pc, job, snap, stale, seen, token, label>>
  BY DEF Tick, vars
<1>2. clock' \in 0..MaxTime
  BY LoopAssumption DEF Tick, vars, TypeOK
<1>3. TypeOK'
  BY <1>1, <1>2 DEF TypeOK
<1>4. SnapInv' /\ DocInv' /\ SeenInv' /\ PostInv' /\ OneSwapPerApproval'
  BY <1>1 DEF SnapInv, DocInv, Open, SeenInv, Visible, PostInv, OneSwapPerApproval
<1>5. QED  BY <1>1, <1>3, <1>4

(* The invariant is inductive.                                             *)
LEMMA InitInv == Init => IInv
<1> SUFFICES ASSUME Init  PROVE IInv
  OBVIOUS
<1>1. NoSwap \in Swap /\ NoRecord \in Record
  BY LoopAssumption DEF NoSwap, Swap, NoRecord, Record
<1>2. NoDoc \in Doc /\ ~NoDoc.on /\ \A l \in Labels : NoDoc.recs[l] = NoRecord
  BY <1>1 DEF NoDoc, Doc
<1>3. clock \in 0..MaxTime
  BY LoopAssumption DEF Init
<1>4. swap \in [Labels -> Swap]
  BY <1>1 DEF Init
<1>5. TypeOK
  BY <1>2, <1>3, <1>4 DEF TypeOK, Init
<1>6. NoRecord.status = "absent" /\ NoRecord.by = None /\ NoSwap.state = "unsent"
  BY DEF NoRecord, NoSwap
<1>7. SnapInv /\ DocInv /\ PostInv /\ OneSwapPerApproval
  BY <1>2, <1>6 DEF Init, SnapInv, DocInv, Open, Terminal, PostInv, OneSwapPerApproval
<1>8. SeenInv
  BY <1>6 DEF Init, SeenInv, Visible, Terminal
<1>9. QED  BY <1>5, <1>7, <1>8 DEF IInv

(* Every step keeps it.                                                    *)
LEMMA NextInv == IInv /\ [Next]_vars => IInv'
BY ReadInv, ReadSwapsInv, ReconcileInv, ClaimInv, PostStepInv, BackInv, ArmInv, WorldInv, RestInv
   DEF Next, Step

-----------------------------------------------------------------------------
(* The theorems.                                                           *)

(* Every reachable state is well typed.                                    *)
THEOREM Typing == Spec => []TypeOK
<1>1. IInv => TypeOK
  BY DEF IInv
<1>2. QED  BY InitInv, NextInv, <1>1, PTL DEF Spec

(* One approval starts at most one swap, and a rule that is on has nothing *)
(* undecided in front of it, whatever the screens do.                      *)
THEOREM OnePerApproval == Spec => []OneSwapPerApproval
<1>1. IInv => OneSwapPerApproval
  BY DEF IInv
<1>2. QED  BY InitInv, NextInv, <1>1, PTL DEF Spec

(* No automatic claim enters the journal after a disarm: the journal it    *)
(* replaces says the rule is on, under that very approval.                 *)
THEOREM Disarmed == Spec => DisarmWins
<1> DEFINE A == \A l \in Labels :
                  doc.recs[l].status = "absent" /\ doc'.recs[l].by # None =>
                    doc.on /\ doc.approval = doc'.recs[l].by
<1>1. ASSUME IInv, [Next]_vars, doc' # doc  PROVE A
  <2> SUFFICES ASSUME NEW l \in Labels, doc.recs[l].status = "absent", doc'.recs[l].by # None
               PROVE  doc.on /\ doc.approval = doc'.recs[l].by
    OBVIOUS
  <2>1. doc.recs[l].by = None
    BY <1>1 DEF IInv, DocInv
  <2>2. ASSUME NEW p \in Procs, Reconcile(p)  PROVE FALSE
    BY <1>1, <2>1, <2>2, ReconcileInv, ReconciledRecord
  <2>3. ASSUME NEW p \in Procs, NEW m \in Labels, Claim(p, m)
        PROVE  doc.on /\ doc.approval = doc'.recs[l].by
    BY <1>1, <2>1, <2>3, ClaimInv
  <2>4. QED
    BY <1>1, <2>1, <2>2, <2>3, ReadInv, ReadSwapsInv, PostStepInv, BackInv, ArmInv, WorldTypes,
       RestInv DEF Next, Step, IInv
<1>2. IInv /\ [Next]_vars => [A]_doc
  BY <1>1
<1>3. QED  BY InitInv, NextInv, <1>2, PTL DEF Spec, DisarmWins

-----------------------------------------------------------------------------
(* The refinement.                                                         *)

(* What nobody touches is the same to the abstract specification.          *)
LEMMA Stutter ==
  ASSUME \A l \in Labels : Ledger(l)' = Ledger(l), \A l \in Labels : Fate(l)' = Fate(l)
  PROVE  UNCHANGED Flight!vars
BY DEF Flight!vars

(* The abstract ledger of a record.                                        *)
LEMMA LedgerIs == ASSUME IInv, NEW l \in Labels
  PROVE  /\ Ledger(l) = "open" <=> Open(l)
         /\ Ledger(l) = "none" <=> doc.recs[l].status = "absent"
         /\ doc.recs[l].status \in Terminal => Ledger(l) = Fate(l) /\ Fate(l) \in {"done", "refused"}
<1>1. doc.recs[l].status \in {"absent", "SUBMITTING", "INITIATED"} \cup Terminal
  BY DEF IInv, TypeOK, Doc, Record
<1>2. doc.recs[l].status \in Terminal => swap[l].state = doc.recs[l].status
  BY DEF IInv, DocInv
<1>3. QED  BY <1>1, <1>2 DEF Ledger, Fate, Open, Terminal

(* The claim is the abstract intention.                                    *)
LEMMA ClaimIntends == ASSUME IInv, NEW p \in Procs, NEW a \in Labels, Claim(p, a)
  PROVE  Flight!Next
<1>1. /\ swap' = swap /\ doc.recs[a].status = "absent" /\ doc'.recs[a].status = "SUBMITTING"
      /\ \A l \in Labels : ~Open(l)
      /\ \A l \in Labels : l # a => doc'.recs[l] = doc.recs[l]
  BY ClaimInv
<1>2. Ledger(a) = "none" /\ Ledger(a)' = "open" /\ \A l \in Labels : Ledger(l) # "open"
  BY <1>1, LedgerIs DEF Ledger
<1>3. \A l \in Labels : l # a => Ledger(l)' = Ledger(l)
  BY <1>1 DEF Ledger
<1>4. \A l \in Labels : Fate(l)' = Fate(l)
  BY <1>1 DEF Fate
<1>5. Flight!Intend(a)
  BY <1>2, <1>3, <1>4 DEF Flight!Intend
<1>6. QED  BY <1>5 DEF Flight!Next

(* The post is the abstract sending.                                       *)
LEMMA PostSends == ASSUME IInv, NEW p \in Procs, Post(p)  PROVE Flight!Next
<1>1. PICK a \in Labels :
        /\ doc' = doc /\ swap[a].state = "unsent" /\ Open(a)
        /\ swap'[a].state = "posted" /\ \A l \in Labels : l # a => swap'[l] = swap[l]
  BY PostStepInv
<1>2. Ledger(a) = "open" /\ Fate(a) = "unsent" /\ Fate(a)' = "live"
  BY <1>1, LedgerIs DEF Fate
<1>3. \A l \in Labels : l # a => Fate(l)' = Fate(l)
  BY <1>1 DEF Fate
<1>4. \A l \in Labels : Ledger(l)' = Ledger(l)
  BY <1>1 DEF Ledger
<1>5. Flight!Send(a)
  BY <1>1, <1>2, <1>3, <1>4 DEF Flight!Send
<1>6. QED  BY <1>1, <1>5 DEF Flight!Next

(* A swap that ends is settled; anything else loopd does is inside "live". *)
LEMMA WorldSettles ==
  ASSUME IInv, NEW a \in Labels, Starts(a) \/ Costs(a) \/ Ends(a) \/ Resolves(a)
  PROVE  [Flight!Next]_(Flight!vars)
<1>1. /\ doc' = doc /\ \A l \in Labels : l # a => swap'[l] = swap[l]
      /\ \/ swap[a].state = "posted" /\ swap'[a].state = "INITIATED"
         \/ swap'[a].state = swap[a].state
         \/ swap[a].state = "INITIATED" /\ swap'[a].state \in Terminal
  BY WorldTypes DEF IInv
<1>2. \A l \in Labels : Ledger(l)' = Ledger(l)
  BY <1>1 DEF Ledger
<1>3. \A l \in Labels : l # a => Fate(l)' = Fate(l)
  BY <1>1 DEF Fate
<1>4. CASE swap[a].state = "INITIATED" /\ swap'[a].state \in Terminal
  <2>1. Fate(a) = "live" /\ Fate(a)' \in {"done", "refused"}
    BY <1>4 DEF Fate, Terminal
  <2>2. Flight!Settle(a)
    BY <1>2, <1>3, <2>1 DEF Flight!Settle, Flight!Outcomes
  <2>3. QED  BY <2>2 DEF Flight!Next
<1>5. CASE ~(swap[a].state = "INITIATED" /\ swap'[a].state \in Terminal)
  <2>1. Fate(a)' = Fate(a)
    BY <1>1, <1>5 DEF Fate
  <2>2. QED  BY <1>2, <1>3, <2>1, Stutter
<1>6. QED  BY <1>4, <1>5

(* A reconciling screen learns the end of the one open swap, or nothing.   *)
LEMMA ReconcileLearns == ASSUME IInv, NEW p \in Procs, Reconcile(p)
  PROVE  [Flight!Next]_(Flight!vars)
<1>1. /\ swap' = swap /\ IInv'
      /\ \A l \in Labels :
           \/ doc'.recs[l].status = doc.recs[l].status
           \/ Open(l) /\ doc'.recs[l].status = "INITIATED"
           \/ Open(l) /\ doc'.recs[l].status \in Terminal
  BY ReconcileInv, ReconciledRecord
<1>2. \A l \in Labels : Fate(l)' = Fate(l)
  BY <1>1 DEF Fate
<1>3. ASSUME NEW l \in Labels, ~(Open(l) /\ doc'.recs[l].status \in Terminal)
      PROVE  Ledger(l)' = Ledger(l)
  BY <1>1, <1>3 DEF Ledger, Open, Terminal
<1>4. CASE \E a \in Labels : Open(a) /\ doc'.recs[a].status \in Terminal
  <2>1. PICK a \in Labels : Open(a) /\ doc'.recs[a].status \in Terminal
    BY <1>4
  <2>2. \A l \in Labels : l # a => Ledger(l)' = Ledger(l)
    BY <1>3, <2>1 DEF IInv, DocInv
  <2>3. Ledger(a) = "open"
    BY <2>1, LedgerIs
  <2>4. swap'[a].state = doc'.recs[a].status
    BY <1>1, <2>1 DEF IInv, DocInv
  <2>5. Ledger(a)' = Fate(a) /\ Fate(a) \in {"done", "refused"}
    BY <1>1, <2>1, <2>4 DEF Ledger, Fate, Terminal
  <2>6. Flight!Learn(a)
    BY <1>2, <2>2, <2>3, <2>5 DEF Flight!Learn, Flight!Outcomes
  <2>7. QED  BY <2>6 DEF Flight!Next
<1>5. CASE ~\E a \in Labels : Open(a) /\ doc'.recs[a].status \in Terminal
  BY <1>2, <1>3, <1>5, Stutter
<1>6. QED  BY <1>4, <1>5

(* Every other step leaves swaps and records alone.                        *)
LEMMA OthersStutter ==
  ASSUME UNCHANGED swap, \A l \in Labels : doc'.recs[l] = doc.recs[l]
  PROVE  UNCHANGED Flight!vars
BY Stutter DEF Ledger, Fate

(* The journal and loopd implement the abstract single flight: whatever    *)
(* screens race for the ConfigMap or die between the claim and the post, a *)
(* swap is recorded before it is posted, posted once, alone, and closed    *)
(* only by its own end.                                                    *)
THEOREM Refinement == Spec => ImplementsSingleFlight
<1>1. Init => Flight!Init
  <2> SUFFICES ASSUME Init  PROVE Flight!Init
    OBVIOUS
  <2>1. \A l \in Labels : Ledger(l) = "none" /\ Fate(l) = "unsent"
    BY DEF Init, NoDoc, NoRecord, NoSwap, Ledger, Fate
  <2>2. QED  BY <2>1 DEF Flight!Init
<1>2. IInv /\ [Next]_vars => [Flight!Next]_(Flight!vars)
  BY ReadInv, ReadSwapsInv, ReconcileLearns, ClaimIntends, PostSends, BackInv, ArmInv,
     WorldSettles, RestInv, OthersStutter DEF Next, Step
<1>3. QED
  BY InitInv, NextInv, <1>1, <1>2, PTL DEF Spec, ImplementsSingleFlight, Flight!Spec

-----------------------------------------------------------------------------
(* Sums of numbers over a finite set, as MapThenSumSet takes them: by      *)
(* induction over subsets, in the form of a smallest counterexample.       *)

Pick(s) == CHOOSE x \in s : TRUE
IsSum(h, F, S) ==
  h = [s \in SUBSET S |-> IF s = {} THEN 0 ELSE F[Pick(s)] + h[s \ {Pick(s)}]]

(* Of some subsets of a finite set, one has no other within it.            *)
LEMMA SmallestSubset ==
  ASSUME NEW S, IsFiniteSet(S), NEW Bad, Bad \subseteq SUBSET S, Bad # {}
  PROVE  \E T \in Bad : \A U \in Bad : U \subseteq T => U = T
<1>1. IsWellFoundedOn(StrictSubsetOrdering(S), SUBSET S)
  BY FS_StrictSubsetOrderingWellFounded, FS_FiniteSubsetsOfFinite
<1>2. \E T \in Bad : \A U \in Bad : <<U, T>> \notin StrictSubsetOrdering(S)
  BY <1>1, WFMin
<1>3. QED  BY <1>2 DEF StrictSubsetOrdering

(* The sum of nothing, and the sum with the element that is picked.        *)
LEMMA SumIs ==
  ASSUME NEW h, NEW F, NEW S, IsSum(h, F, S)
  PROVE  /\ h[{}] = 0
         /\ \A s \in SUBSET S : s # {} =>
              /\ Pick(s) \in s /\ s \ {Pick(s)} \in SUBSET S
              /\ h[s] = F[Pick(s)] + h[s \ {Pick(s)}]
<1>1. \A s \in SUBSET S : s # {} => Pick(s) \in s
  BY DEF Pick
<1>2. \A s \in SUBSET S :
        h[s] = IF s = {} THEN 0 ELSE F[Pick(s)] + h[s \ {Pick(s)}]
  BY DEF IsSum
<1>3. {} \in SUBSET S
  OBVIOUS
<1>4. QED  BY <1>1, <1>2, <1>3

(* Natural numbers add up to one.                                          *)
LEMMA SumIsNat ==
  ASSUME NEW S, IsFiniteSet(S), NEW F \in [S -> Nat], NEW h, IsSum(h, F, S)
  PROVE  \A s \in SUBSET S : h[s] \in Nat
<1> DEFINE Bad == {s \in SUBSET S : h[s] \notin Nat}
<1> SUFFICES ASSUME Bad # {}  PROVE FALSE
  OBVIOUS
<1>1. PICK s \in Bad : \A u \in Bad : u \subseteq s => u = s
  <2>1. Bad \subseteq SUBSET S
    OBVIOUS
  <2> HIDE DEF Bad
  <2>2. QED  BY <2>1, SmallestSubset
<1>2. s \in SUBSET S /\ h[s] \notin Nat
  BY <1>1
<1>3. s # {}
  <2>1. h[{}] \in Nat
    BY SumIs
  <2>2. QED  BY <1>2, <2>1, Zenon
<1>4. /\ Pick(s) \in s /\ s \ {Pick(s)} \in SUBSET S
      /\ h[s] = F[Pick(s)] + h[s \ {Pick(s)}]
  BY <1>2, <1>3, SumIs
<1>5. h[s \ {Pick(s)}] \in Nat
  BY <1>1, <1>4
<1>6. F[Pick(s)] \in Nat
  BY <1>2, <1>4
<1>7. QED  BY <1>2, <1>4, <1>5, <1>6

(* It does not matter which element is taken out first.                    *)
LEMMA SumWith ==
  ASSUME NEW S, IsFiniteSet(S), NEW F \in [S -> Nat], NEW h, IsSum(h, F, S)
  PROVE  \A s \in SUBSET S : \A x \in s : h[s] = F[x] + h[s \ {x}]
<1> DEFINE Bad == {s \in SUBSET S : \E x \in s : h[s] # F[x] + h[s \ {x}]}
<1> SUFFICES ASSUME Bad # {}  PROVE FALSE
  OBVIOUS
<1>1. PICK s \in Bad : \A u \in Bad : u \subseteq s => u = s
  <2>1. Bad \subseteq SUBSET S
    OBVIOUS
  <2> HIDE DEF Bad
  <2>2. QED  BY <2>1, SmallestSubset
<1>2. PICK x \in s : h[s] # F[x] + h[s \ {x}]
  BY <1>1
<1> DEFINE y == Pick(s)
<1>3. y \in s /\ s \in SUBSET S /\ h[s] = F[y] + h[s \ {y}] /\ y # x
  <2>1. s \in SUBSET S /\ s # {}
    BY <1>1, <1>2
  <2>2. y \in s /\ h[s] = F[y] + h[s \ {y}]
    BY <2>1, SumIs
  <2>3. QED  BY <1>2, <2>1, <2>2, Zenon
<1> HIDE DEF y
<1>4. ASSUME NEW z \in s, NEW v \in s \ {z}  PROVE h[s \ {z}] = F[v] + h[(s \ {z}) \ {v}]
  <2>1. s \ {z} \in SUBSET S /\ s \ {z} \subseteq s /\ s \ {z} # s
    BY <1>3
  <2>2. s \ {z} \notin Bad
    <3> HIDE DEF Bad
    <3>1. QED  BY <1>1, <2>1
  <2>3. QED  BY <2>1, <2>2
<1>5. /\ h[s \ {y}] = F[x] + h[(s \ {y}) \ {x}]
      /\ h[s \ {x}] = F[y] + h[(s \ {x}) \ {y}]
  BY <1>2, <1>3, <1>4
<1>6. (s \ {y}) \ {x} = (s \ {x}) \ {y}
  OBVIOUS
<1>7. F[x] \in Nat /\ F[y] \in Nat /\ h[(s \ {x}) \ {y}] \in Nat
  BY <1>2, <1>3, SumIsNat
<1>8. h[(s \ {y}) \ {x}] = h[(s \ {x}) \ {y}]
  BY <1>6, Zenon
<1>9. QED  BY <1>2, <1>3, <1>5, <1>7, <1>8

(* With one element more there still is a sum.                             *)
LEMMA SumWithOneMore ==
  ASSUME NEW U, IsFiniteSet(U), NEW x, x \notin U,
         NEW F \in [U \cup {x} -> Nat], NEW D \in [U -> Nat], \A z \in U : D[z] = F[z],
         NEW g, IsSum(g, D, U)
  PROVE  \E h : IsSum(h, F, U \cup {x})
<1> DEFINE T == U \cup {x}
           h == [s \in SUBSET T |-> IF x \in s THEN F[x] + g[s \ {x}] ELSE g[s]]
<1>1. \A s \in SUBSET U : g[s] \in Nat
  BY SumIsNat
<1>2. \A t \in SUBSET U : \A z \in t : g[t] = D[z] + g[t \ {z}]
  <2> TAKE t \in SUBSET U
  <2> TAKE z \in t
  <2>1. QED  BY SumWith
<1>3. ASSUME NEW s \in SUBSET T, s # {}  PROVE h[s] = F[Pick(s)] + h[s \ {Pick(s)}]
  <2> DEFINE y == Pick(s)
  <2>1. y \in s
    BY <1>3 DEF Pick
  <2>2. CASE x \notin s
    <3>1. s \in SUBSET U /\ s \ {y} \in SUBSET U /\ x \notin s \ {y}
      BY <2>2
    <3>2. g[s] = D[y] + g[s \ {y}]
      BY <1>2, <2>1, <3>1
    <3>3. h[s] = g[s] /\ h[s \ {y}] = g[s \ {y}] /\ D[y] = F[y]
      BY <2>1, <2>2, <3>1
    <3>4. QED  BY <3>2, <3>3
  <2>3. CASE x = y
    <3>1. s \ {y} \in SUBSET T /\ x \notin s \ {y} /\ x \in s
      BY <2>1, <2>3
    <3>2. h[s] = F[x] + g[s \ {x}] /\ h[s \ {y}] = g[s \ {y}]
      BY <3>1
    <3>3. QED  BY <2>3, <3>2, Zenon
  <2>4. CASE x \in s /\ x # y
    <3> HIDE DEF y
    <3>1. y \in s \ {x} /\ s \ {x} \in SUBSET U /\ y \in U
      BY <2>1, <2>4
    <3>2. g[s \ {x}] = D[y] + g[(s \ {x}) \ {y}]
      BY <1>2, <3>1
    <3>3. (s \ {x}) \ {y} = (s \ {y}) \ {x} /\ (s \ {x}) \ {y} \in SUBSET U
      BY <3>1
    <3>4. g[(s \ {y}) \ {x}] = g[(s \ {x}) \ {y}]
      BY <3>3, Zenon
    <3>5. h[s] = F[x] + g[s \ {x}] /\ h[s \ {y}] = F[x] + g[(s \ {y}) \ {x}]
      BY <2>4, <3>1
    <3>6. F[x] \in Nat /\ F[y] \in Nat /\ D[y] = F[y] /\ g[(s \ {x}) \ {y}] \in Nat
      BY <1>1, <3>1, <3>3
    <3> HIDE DEF h
    <3>7. h[s] = F[y] + h[s \ {y}]
      BY <3>2, <3>4, <3>5, <3>6
    <3>8. QED  BY <3>7 DEF y
  <2>5. QED  BY <2>2, <2>3, <2>4
<1>4. h[{}] = 0
  BY SumIs
<1>5. h = [s \in SUBSET T |-> IF s = {} THEN 0 ELSE F[Pick(s)] + h[s \ {Pick(s)}]]
  <2>1. \A s \in SUBSET T :
          h[s] = IF s = {} THEN 0 ELSE F[Pick(s)] + h[s \ {Pick(s)}]
    <3> HIDE DEF h
    <3>1. \A s \in SUBSET T : s = {} => h[s] = 0
      BY <1>4, Zenon
    <3>2. QED  BY <1>3, <3>1
  <2>2. QED  BY <2>1
<1>6. QED  BY <1>5, Zenon DEF IsSum

(* A finite set has a sum.                                                 *)
LEMMA SumExists ==
  ASSUME NEW S, IsFiniteSet(S), NEW F \in [S -> Nat]
  PROVE  \E h : IsSum(h, F, S)
<1> DEFINE On(s) == [z \in s |-> F[z]]
           Has(s) == \E h : IsSum(h, On(s), s)
           Bad == {s \in SUBSET S : ~Has(s)}
<1>1. ASSUME NEW T \in SUBSET S, NEW x \in T, Has(T \ {x})  PROVE Has(T)
  <2>1. PICK g : IsSum(g, On(T \ {x}), T \ {x})
    BY <1>1
  <2>2. /\ IsFiniteSet(T \ {x}) /\ (T \ {x}) \cup {x} = T /\ x \notin T \ {x}
        /\ On(T) \in [T -> Nat] /\ On(T \ {x}) \in [T \ {x} -> Nat]
        /\ \A z \in T \ {x} : On(T \ {x})[z] = On(T)[z]
    BY FS_Subset
  <2>3. On(T) \in [(T \ {x}) \cup {x} -> Nat]
    BY <2>2, Zenon
  <2> HIDE DEF On
  <2>4. \E h : IsSum(h, On(T), (T \ {x}) \cup {x})
    BY <2>1, <2>2, <2>3, SumWithOneMore
  <2>5. QED  BY <2>2, <2>4, Zenon
<1>2. Has({})
  <2> DEFINE h == [s \in SUBSET {} |-> 0]
  <2>1. IsSum(h, On({}), {})
    BY DEF IsSum
  <2>2. QED  BY <2>1
<1> HIDE DEF Has
<1>3. Bad = {}
  <2> SUFFICES ASSUME Bad # {}  PROVE FALSE
    OBVIOUS
  <2>1. PICK T \in Bad : \A u \in Bad : u \subseteq T => u = T
    <3>1. Bad \subseteq SUBSET S
      OBVIOUS
    <3> HIDE DEF Bad
    <3>2. QED  BY <3>1, SmallestSubset
  <2>2. T # {}
    BY <1>2, <2>1, Zenon
  <2>3. PICK x \in T : TRUE
    BY <2>2
  <2>4. Has(T \ {x})
    BY <2>1, <2>3
  <2>5. QED  BY <1>1, <2>1, <2>3, <2>4
<1>4. On(S) = F
  OBVIOUS
<1>5. Has(S)
  BY <1>3
<1>6. QED  BY <1>4, <1>5, Zenon DEF Has

(* More elements, each with as much or more, add up to as much or more.    *)
LEMMA SumGrows ==
  ASSUME NEW T, IsFiniteSet(T), NEW S \in SUBSET T,
         NEW F \in [S -> Nat], NEW G \in [T -> Nat], \A x \in S : F[x] <= G[x],
         NEW g, IsSum(g, F, S), NEW h, IsSum(h, G, T)
  PROVE  g[S] <= h[T]
<1>1. IsFiniteSet(S)
  BY FS_Subset
<1>2. (\A s \in SUBSET S : g[s] \in Nat) /\ \A s \in SUBSET T : h[s] \in Nat
  BY <1>1, SumIsNat
<1>3. \A s \in SUBSET S : g[s] <= h[s]
  <2> DEFINE Bad == {s \in SUBSET S : ~(g[s] <= h[s])}
  <2> SUFFICES ASSUME Bad # {}  PROVE FALSE
    OBVIOUS
  <2>1. PICK s \in Bad : \A u \in Bad : u \subseteq s => u = s
    <3>1. Bad \subseteq SUBSET S
      OBVIOUS
    <3> HIDE DEF Bad
    <3>2. QED  BY <1>1, <3>1, SmallestSubset
  <2>2. s # {}
    <3>1. g[{}] = 0 /\ h[{}] = 0
      BY SumIs
    <3>2. g[{}] <= h[{}] /\ ~(g[s] <= h[s])
      BY <2>1, <3>1
    <3>3. QED  BY <3>2, Zenon
  <2> DEFINE y == Pick(s)
             u == s \ {y}
  <2>3. y \in s /\ g[s] = F[y] + g[u] /\ h[s] = G[y] + h[u]
    <3>1. s \in SUBSET S /\ s \in SUBSET T
      BY <2>1
    <3>2. y \in s /\ g[s] = F[y] + g[u]
      BY <2>2, <3>1, SumIs
    <3>3. h[s] = G[y] + h[u]
      BY <2>2, <3>1, SumIs
    <3>4. QED  BY <3>2, <3>3
  <2> HIDE DEF y
  <2>4. g[u] <= h[u] /\ u \in SUBSET S
    BY <2>1, <2>3
  <2>5. F[y] \in Nat /\ G[y] \in Nat /\ F[y] <= G[y] /\ g[u] \in Nat /\ h[u] \in Nat
    BY <1>2, <2>1, <2>3, <2>4
  <2> HIDE DEF u
  <2>6. g[s] <= h[s]
    BY <2>3, <2>4, <2>5
  <2>7. QED  BY <2>1, <2>6
<1>4. \A s \in SUBSET T : S \subseteq s => h[S] <= h[s]
  <2> DEFINE Bad == {s \in SUBSET T : S \subseteq s /\ ~(h[S] <= h[s])}
  <2> SUFFICES ASSUME Bad # {}  PROVE FALSE
    OBVIOUS
  <2>1. PICK s \in Bad : \A u \in Bad : u \subseteq s => u = s
    <3>1. Bad \subseteq SUBSET T
      OBVIOUS
    <3> HIDE DEF Bad
    <3>2. QED  BY <3>1, SmallestSubset
  <2>2. PICK x \in s : x \notin S
    <3>1. h[S] <= h[S] /\ S \subseteq s /\ ~(h[S] <= h[s])
      BY <1>2, <2>1
    <3>2. S # s
      BY <3>1, Zenon
    <3>3. QED  BY <3>1, <3>2
  <2>3. h[s] = G[x] + h[s \ {x}]
    BY <2>1, SumWith
  <2>4. h[S] <= h[s \ {x}]
    BY <2>1, <2>2
  <2>5. h[S] \in Nat /\ G[x] \in Nat /\ h[s \ {x}] \in Nat
    BY <1>2, <2>1
  <2>6. h[S] <= h[s]
    BY <2>3, <2>4, <2>5
  <2>7. QED  BY <2>1, <2>6
<1>5. g[S] <= h[S] /\ h[S] <= h[T] /\ g[S] \in Nat /\ h[S] \in Nat /\ h[T] \in Nat
  BY <1>2, <1>3, <1>4
<1>6. QED  BY <1>5

-----------------------------------------------------------------------------
(* What is charged to the budget, and what swaps cost.                     *)

Last(r) == LargerOf(r.created, r.observed)

(* A swap costs nothing before it has started, nor after it has ended but  *)
(* for what a failed one left open.                                        *)
WorldCost ==
  \A l \in Labels :
    /\ swap[l].fee = 0 => swap[l].at = 0
    /\ swap[l].at <= clock
    /\ swap[l].state \in {"unsent", "posted"} => swap[l].fee = 0
    /\ swap[l].open => swap[l].state = "FAILED"

(* The journal lags behind: when it has the whole cost of a swap, it has a *)
(* time no earlier than the last cost; what is settled costs no more.      *)
DocCost ==
  \A l \in Labels :
    /\ swap[l].state # "unsent" => doc.recs[l].status # "absent"
    /\ doc.recs[l].status = "absent" => doc.recs[l].fee = 0
    /\ doc.recs[l].fee <= swap[l].fee
    /\ doc.recs[l].fee = swap[l].fee => swap[l].at <= Last(doc.recs[l])
    /\ doc.recs[l].settled => swap[l].state = "FAILED" /\ ~swap[l].open

(* What a screen was told lies between the journal, while its copy is      *)
(* current, and what has happened.                                         *)
ToldCost(p, l) ==
  /\ seen[p][l].state # "unsent" => Visible(seen[p][l])
  /\ Visible(seen[p][l]) =>
       /\ seen[p][l].fee <= swap[l].fee
       /\ seen[p][l].fee = swap[l].fee => seen[p][l].at = swap[l].at
  /\ seen[p][l].at <= clock
CopyCost(p, l) ==
  Visible(seen[p][l]) /\ ~stale[p] =>
    /\ pc[p] = "reconcile" =>
         /\ doc.recs[l].fee <= seen[p][l].fee
         /\ doc.recs[l].fee = seen[p][l].fee => seen[p][l].at <= Last(doc.recs[l])
    /\ pc[p] = "decide" =>
         doc.recs[l].fee = seen[p][l].fee /\ seen[p][l].at <= Last(doc.recs[l])
SeenCost == \A p \in Procs, l \in Labels : ToldCost(p, l) /\ CopyCost(p, l)

CostInv == WorldCost /\ DocCost /\ SeenCost

(* The numbers of swaps and records are natural.                           *)
LEMMA Amounts ==
  ASSUME TypeOK
  PROVE  /\ clock \in Nat /\ Reserve \in Nat /\ Budget \in Nat /\ Window \in Nat
         /\ \A l \in Labels :
              /\ swap[l].fee \in Nat /\ swap[l].at \in Nat /\ swap[l].open \in BOOLEAN
              /\ doc.recs[l].fee \in Nat /\ doc.recs[l].created \in Nat
              /\ doc.recs[l].observed \in Nat /\ doc.recs[l].settled \in BOOLEAN
         /\ \A p \in Procs, l \in Labels : seen[p][l].fee \in Nat /\ seen[p][l].at \in Nat
BY LoopAssumption DEF TypeOK, Doc, Record, Swap

(* The later of two times.                                                 *)
LEMMA LastIs ==
  \A a, b, t \in Nat : /\ LargerOf(a, b) \in Nat /\ LargerOf(a, b) >= a /\ LargerOf(a, b) >= b
                       /\ LargerOf(a, b) \in {a, b}
BY DEF LargerOf

(* What loopd lists of the costs.                                          *)
LEMMA ListedCost ==
  ASSUME TypeOK, NEW l \in Labels
  PROVE  /\ Visible(swap[l]) => Listed[l].fee = swap[l].fee /\ Listed[l].at = swap[l].at
         /\ ~Visible(swap[l]) => Listed[l] = NoSwap
<1>1. swap[l] \in Swap
  BY DEF TypeOK
<1>2. [swap[l] EXCEPT !.open = FALSE].fee = swap[l].fee
      /\ [swap[l] EXCEPT !.open = FALSE].at = swap[l].at
  BY <1>1 DEF Swap
<1>3. QED  BY <1>2 DEF Listed

(* What reconciling makes of the costs of a record.                        *)
LEMMA UpdatedCost ==
  ASSUME TypeOK, NEW r \in Record, NEW s \in Swap, NEW now \in Swap
  PROVE  LET u == Updated(r, s, now)
         IN  /\ u.created = r.created
             /\ r.status = "absent" \/ ~Visible(s) =>
                  u.fee = r.fee /\ u.observed = r.observed /\ ~u.settled
             /\ r.status # "absent" /\ Visible(s) =>
                  /\ u.fee = s.fee
                  /\ u.observed = clock \/ (u.observed = r.observed /\ s.fee = r.fee)
                  /\ u.settled => s.state = "FAILED" /\ ~now.open
<1>1. CASE r.status = "absent" \/ ~Visible(s)
  BY <1>1 DEF Updated, Record
<1>2. CASE r.status # "absent" /\ Visible(s)
  <2>1. PICK o \in 0..MaxTime, b \in BOOLEAN :
          /\ Updated(r, s, now) = [r EXCEPT !.status = s.state, !.fee = s.fee,
                                            !.observed = o, !.settled = b]
          /\ o = clock \/ (o = r.observed /\ s.fee = r.fee)
          /\ b => s.state = "FAILED" /\ ~now.open
    <3>1. Evidence(s, now) \in BOOLEAN
      BY DEF Evidence
    <3>2. Updated(r, s, now) =
            [r EXCEPT !.status = s.state, !.fee = s.fee,
                      !.observed = IF CostIsNews(r, s) THEN clock ELSE r.observed,
                      !.settled = Evidence(s, now)]
      BY <1>2 DEF Updated
    <3>3. LET o == IF CostIsNews(r, s) THEN clock ELSE r.observed
          IN  o \in 0..MaxTime /\ (o = clock \/ (o = r.observed /\ s.fee = r.fee))
      BY DEF CostIsNews, TypeOK, Record
    <3>4. Evidence(s, now) => s.state = "FAILED" /\ ~now.open
      BY DEF Evidence
    <3>5. QED  BY <3>1, <3>2, <3>3, <3>4
  <2>2. QED  BY <1>2, <2>1 DEF Record
<1>3. QED  BY <1>1, <1>2

(* A screen that reads the journal or comes back to the menu leaves what   *)
(* is known of costs as it was.                                            *)
LEMMA KeptCost ==
  ASSUME IInv, CostInv, NEW p \in Procs, UNCHANGED <<swap, clock>>,
         \A l \in Labels : doc'.recs[l] = doc.recs[l],
         pc'[p] \notin {"reconcile", "decide"},
         seen'[p] = seen[p] \/ seen'[p] = [l \in Labels |-> NoSwap],
         \A q \in Procs : q # p => /\ pc'[q] = pc[q] /\ seen'[q] = seen[q]
                                   /\ pc[q] # "idle" /\ ~stale'[q] => ~stale[q]
  PROVE  CostInv'
<1>1. WorldCost' /\ DocCost'
  BY DEF CostInv, WorldCost, DocCost, Last
<1>2. clock \in Nat
  BY Amounts DEF IInv
<1>3. ASSUME NEW q \in Procs, NEW l \in Labels  PROVE ToldCost(q, l)' /\ CopyCost(q, l)'
  <2>1. ToldCost(q, l) /\ CopyCost(q, l)
    BY DEF CostInv, SeenCost
  <2>2. CASE q = p /\ seen'[p] = seen[p]
    BY <2>1, <2>2 DEF ToldCost, CopyCost, Visible
  <2>3. CASE q = p /\ seen'[p] = [m \in Labels |-> NoSwap]
    BY <1>2, <2>3 DEF ToldCost, CopyCost, Visible, NoSwap, Terminal
  <2>4. CASE q # p
    BY <2>1, <2>4 DEF ToldCost, CopyCost, Visible, Last
  <2>5. QED  BY <2>2, <2>3, <2>4
<1>4. QED  BY <1>1, <1>3 DEF CostInv, SeenCost

(* So do looking, arming, disarming and leaving.                           *)
LEMMA MenuCost ==
  ASSUME IInv, CostInv, NEW p \in Procs,
         \/ Begin(p) \/ BeginDisarm(p) \/ Done(p) \/ Stop(p) \/ Disarm(p)
         \/ \E a \in Approvals : Arm(p, a)
  PROVE  CostInv'
<1> USE DEF IInv, world
<1>1. CASE Begin(p) \/ BeginDisarm(p)
  <2>1. /\ pc'[p] \in {"swaps", "disarm"} /\ UNCHANGED <<swap, clock, doc, seen>>
        /\ \A q \in Procs : q # p => pc'[q] = pc[q] /\ stale'[q] = stale[q]
    BY <1>1 DEF Begin, BeginDisarm, Read, Goto, TypeOK
  <2>2. QED  BY <2>1, KeptCost
<1>2. CASE Done(p) \/ Stop(p) \/ Disarm(p) \/ \E a \in Approvals : Arm(p, a)
  <2>1. PICK t : ReturnOnly(p, t)
    BY <1>2 DEF Done, Stop, Disarm, Arm, Return
  <2>2. UNCHANGED <<swap, clock>> /\ \A l \in Labels : doc'.recs[l] = doc.recs[l]
    BY <1>2, BackInv, ArmInv DEF Done, Stop, Disarm, Arm
  <2>3. stale' = [stale EXCEPT ![p] = FALSE] \/ stale' = OthersStale(p)
    BY <1>2 DEF Done, Stop, Disarm, Arm, Return, Replace
  <2>4. /\ pc'[p] = "idle" /\ seen'[p] = [l \in Labels |-> NoSwap]
        /\ \A q \in Procs : q # p => /\ pc'[q] = pc[q] /\ seen'[q] = seen[q]
                                     /\ pc[q] # "idle" /\ ~stale'[q] => ~stale[q]
    BY <2>1, <2>3 DEF ReturnOnly, Goto, TypeOK, OthersStale
  <2>5. QED  BY <2>2, <2>4, KeptCost
<1>3. QED  BY <1>1, <1>2

(* What is read from loopd is what has happened.                           *)
LEMMA ReadSwapsCost == ASSUME IInv, CostInv, NEW p \in Procs, ReadSwaps(p)  PROVE CostInv'
<1> USE DEF IInv, world
<1>1. /\ pc'[p] = "reconcile" /\ UNCHANGED <<swap, clock, doc, stale>> /\ seen'[p] = Listed
      /\ \A q \in Procs : q # p => pc'[q] = pc[q] /\ seen'[q] = seen[q]
  BY DEF ReadSwaps, Goto, TypeOK
<1>2. WorldCost' /\ DocCost'
  BY <1>1 DEF CostInv, WorldCost, DocCost, Last
<1>3. ASSUME NEW l \in Labels  PROVE ToldCost(p, l)' /\ CopyCost(p, l)'
  <2>1. /\ swap[l].at <= clock /\ clock \in Nat /\ swap[l].fee \in Nat
        /\ doc.recs[l].fee <= swap[l].fee
        /\ doc.recs[l].fee = swap[l].fee => swap[l].at <= Last(doc.recs[l])
    BY Amounts DEF CostInv, WorldCost, DocCost
  <2>2. CASE Visible(swap[l])
    <3>1. Listed[l].fee = swap[l].fee /\ Listed[l].at = swap[l].at /\ Visible(Listed[l])
      BY <2>2, ListedCost, ListedIs
    <3>2. QED  BY <1>1, <2>1, <3>1 DEF ToldCost, CopyCost, Last, Visible
  <2>3. CASE ~Visible(swap[l])
    <3>1. Listed[l] = NoSwap /\ ~Visible(NoSwap) /\ NoSwap.state = "unsent" /\ NoSwap.at = 0
      BY <2>3, ListedCost DEF NoSwap, Visible, Terminal
    <3>2. QED  BY <1>1, <2>1, <3>1 DEF ToldCost, CopyCost, Visible
  <2>4. QED  BY <2>2, <2>3
<1>4. ASSUME NEW q \in Procs \ {p}, NEW l \in Labels  PROVE ToldCost(q, l)' /\ CopyCost(q, l)'
  <2>1. ToldCost(q, l) /\ CopyCost(q, l)
    BY DEF CostInv, SeenCost
  <2>2. QED  BY <1>1, <2>1 DEF ToldCost, CopyCost, Last, Visible
<1>5. QED  BY <1>2, <1>3, <1>4 DEF CostInv, SeenCost

(* What reconciling the current journal makes of the cost of each record.  *)
LEMMA ReconciledCost ==
  ASSUME IInv, CostInv, NEW p \in Procs, pc[p] = "reconcile", ~stale[p], NEW l \in Labels
  PROVE  LET u == Reconciled(doc, seen[p]).recs[l]
         IN  /\ swap[l].state # "unsent" => u.status # "absent"
             /\ u.status = "absent" => u.fee = 0
             /\ u.fee <= swap[l].fee
             /\ u.fee = swap[l].fee => swap[l].at <= Last(u)
             /\ u.settled => swap[l].state = "FAILED" /\ ~swap[l].open
             /\ Visible(seen[p][l]) => u.fee = seen[p][l].fee /\ seen[p][l].at <= Last(u)
<1> DEFINE r == doc.recs[l]
           s == seen[p][l]
           w == swap[l]
           u == Reconciled(doc, seen[p]).recs[l]
<1>1. /\ r \in Record /\ s \in Swap /\ w \in Swap /\ doc \in Doc
      /\ seen[p] \in [Labels -> Swap]
  BY DEF IInv, TypeOK, Doc
<1>2. u = Updated(r, s, w)
  BY <1>1, ReconciledIs DEF IInv
<1>3. /\ clock \in Nat /\ w.fee \in Nat /\ w.at \in Nat /\ s.fee \in Nat /\ s.at \in Nat
      /\ r.fee \in Nat /\ r.created \in Nat /\ r.observed \in Nat
  BY Amounts DEF IInv
<1>4. /\ w.state # "unsent" => r.status # "absent"
      /\ r.status = "absent" => r.fee = 0
      /\ r.fee <= w.fee
      /\ r.fee = w.fee => w.at <= Last(r)
      /\ r.settled => w.state = "FAILED" /\ ~w.open
  BY DEF CostInv, DocCost
<1>5. /\ s.state # "unsent" => Visible(s)
      /\ Visible(s) => s.fee <= w.fee /\ (s.fee = w.fee => s.at = w.at)
      /\ s.at <= clock
      /\ Visible(s) => r.fee <= s.fee /\ (r.fee = s.fee => s.at <= Last(r))
  BY DEF CostInv, SeenCost, ToldCost, CopyCost
<1>6. /\ Visible(s) => Visible(w)
      /\ s.state \in Terminal => w.state = s.state
      /\ Visible(w) => w.state # "unsent"
  BY DEF IInv, SeenInv, Visible, Terminal
<1> HIDE DEF r, s, w, u
<1>7. u.status = IF r.status = "absent" \/ ~Visible(s) THEN r.status ELSE s.state
  BY <1>1, <1>2, UpdatedIs DEF IInv
<1>8. /\ u.created = r.created
      /\ r.status = "absent" \/ ~Visible(s) =>
           u.fee = r.fee /\ u.observed = r.observed /\ ~u.settled
      /\ r.status # "absent" /\ Visible(s) =>
           /\ u.fee = s.fee
           /\ u.observed = clock \/ (u.observed = r.observed /\ s.fee = r.fee)
           /\ u.settled => s.state = "FAILED" /\ ~w.open
  BY <1>1, <1>2, UpdatedCost DEF IInv
<1>9. CASE ~Visible(s)
  BY <1>4, <1>7, <1>8, <1>9 DEF Last, r, s, w, u
<1>10. CASE Visible(s)
  <2>1. r.status # "absent"
    BY <1>4, <1>6, <1>10
  <2>2. s.at <= Last(u)
    <3>1. CASE u.observed = clock
      BY <1>3, <1>5, <1>8, <3>1 DEF Last, LargerOf
    <3>2. CASE u.observed = r.observed /\ s.fee = r.fee
      BY <1>5, <1>8, <1>10, <3>2 DEF Last
    <3>3. QED  BY <1>8, <1>10, <2>1, <3>1, <3>2
  <2>3. /\ u.fee = s.fee /\ u.fee <= w.fee
        /\ u.fee = w.fee => w.at <= Last(u)
    BY <1>5, <1>8, <1>10, <2>1, <2>2
  <2>4. u.status # "absent"
    BY <1>7, <1>10, <2>1 DEF Visible, Terminal
  <2>5. u.settled => w.state = "FAILED" /\ ~w.open
    BY <1>6, <1>8, <1>10, <2>1 DEF Terminal
  <2>6. QED  BY <2>2, <2>3, <2>4, <2>5 DEF r, s, w, u
<1>11. QED  BY <1>9, <1>10

(* A screen whose copy is the journal then decides on what it was told.    *)
LEMMA ReconcileCost == ASSUME IInv, CostInv, NEW p \in Procs, Reconcile(p)  PROVE CostInv'
<1> USE DEF IInv, world
<1> DEFINE d == Reconciled(snap[p], seen[p])
<1>1. /\ pc[p] = "reconcile" /\ pc'[p] = "decide" /\ UNCHANGED <<swap, clock, seen>>
      /\ \A q \in Procs : q # p => pc'[q] = pc[q]
  BY DEF Reconcile, Goto, TypeOK
<1>2. \/ d = snap[p] /\ doc' = doc /\ stale' = stale
      \/ ~stale[p] /\ snap[p] = doc /\ doc' = d /\ stale' = OthersStale(p)
  BY <1>1 DEF Reconcile, Replace, SnapInv
<1>3. ~stale[p] => snap[p] = doc
  BY <1>1 DEF SnapInv
<1> HIDE DEF d
<1>4. \/ stale[p] /\ doc' = doc /\ stale' = stale
      \/ ~stale[p] /\ doc' = doc /\ stale' = stale /\ doc = Reconciled(doc, seen[p])
      \/ ~stale[p] /\ doc' = Reconciled(doc, seen[p]) /\ stale' = OthersStale(p)
  BY <1>2, <1>3 DEF d
<1>5. CASE stale[p] /\ doc' = doc /\ stale' = stale
  <2>1. ASSUME NEW q \in Procs, NEW l \in Labels  PROVE ToldCost(q, l)' /\ CopyCost(q, l)'
    <3>1. ToldCost(q, l) /\ CopyCost(q, l)
      BY DEF CostInv, SeenCost
    <3>2. QED  BY <1>1, <1>5, <3>1 DEF ToldCost, CopyCost, Last, Visible
  <2>2. QED
    BY <1>1, <1>5, <2>1 DEF CostInv, WorldCost, DocCost, SeenCost, Last
<1>6. CASE ~stale[p] /\ doc' = Reconciled(doc, seen[p])
           /\ (stale' = OthersStale(p) \/ (doc' = doc /\ stale' = stale))
  <2>1. \A l \in Labels :
          LET u == doc'.recs[l]
          IN  /\ swap[l].state # "unsent" => u.status # "absent"
              /\ u.status = "absent" => u.fee = 0
              /\ u.fee <= swap[l].fee
              /\ u.fee = swap[l].fee => swap[l].at <= Last(u)
              /\ u.settled => swap[l].state = "FAILED" /\ ~swap[l].open
              /\ Visible(seen[p][l]) => u.fee = seen[p][l].fee /\ seen[p][l].at <= Last(u)
    BY <1>1, <1>6, ReconciledCost
  <2>2. WorldCost' /\ DocCost'
    BY <1>1, <2>1 DEF CostInv, WorldCost, DocCost, Last
  <2>3. ASSUME NEW q \in Procs, NEW l \in Labels  PROVE ToldCost(q, l)' /\ CopyCost(q, l)'
    <3>1. ToldCost(q, l) /\ CopyCost(q, l)
      BY DEF CostInv, SeenCost
    <3>2. ToldCost(q, l)'
      BY <1>1, <3>1 DEF ToldCost, Visible
    <3>3. CASE q = p
      <4>1. pc'[q] = "decide" /\ seen'[q] = seen[q]
        BY <1>1, <3>3
      <4>2. Visible(seen[q][l]) =>
              doc'.recs[l].fee = seen[q][l].fee /\ seen[q][l].at <= Last(doc'.recs[l])
        BY <2>1, <3>3
      <4>3. QED  BY <3>2, <4>1, <4>2 DEF CopyCost, Last, Visible
    <3>4. CASE q # p /\ stale' = OthersStale(p)
      <4>1. pc[q] # "idle" => stale'[q]
        BY <3>4 DEF OthersStale
      <4>2. pc'[q] = pc[q]
        BY <1>1, <3>4
      <4>3. ~stale'[q] => pc'[q] \notin {"reconcile", "decide"}
        BY <4>1, <4>2
      <4>4. QED  BY <3>2, <4>3 DEF CopyCost, Last, Visible
    <3>5. CASE q # p /\ doc' = doc /\ stale' = stale
      <4>1. /\ pc'[q] = pc[q] /\ seen'[q][l] = seen[q][l] /\ doc'.recs[l] = doc.recs[l]
            /\ stale'[q] = stale[q]
        BY <1>1, <3>5
      <4>2. QED  BY <3>1, <3>2, <4>1 DEF CopyCost, Last, Visible
    <3>6. QED  BY <1>6, <3>2, <3>3, <3>4, <3>5
  <2>4. QED  BY <2>2, <2>3 DEF CostInv, SeenCost
<1>7. QED  BY <1>4, <1>5, <1>6

(* A claim is a record of a swap that has cost nothing.                    *)
LEMMA ClaimCost ==
  ASSUME IInv, CostInv, NEW p \in Procs, NEW l \in Labels, Claim(p, l)  PROVE CostInv'
<1> USE DEF IInv, world
<1> DEFINE r == [NoRecord EXCEPT !.status = "SUBMITTING", !.created = clock,
                                 !.by = IF job[p] = "auto" THEN token[p] ELSE None]
<1>1. /\ pc[p] = "decide" /\ UNCHANGED <<swap, clock>> /\ stale' = OthersStale(p)
      /\ swap[l].state = "unsent" /\ snap[p] = doc
      /\ pc' = [pc EXCEPT ![p] = "post"]
      /\ seen' = [seen EXCEPT ![p] = [m \in Labels |-> NoSwap]]
      /\ doc' = Claimed(snap[p], l, r)
  BY DEF Claim, Goto, Fresh, Replace, SnapInv
<1>2. r.fee = 0 /\ r.status = "SUBMITTING" /\ ~r.settled /\ r \in Record
      /\ r.observed = 0 /\ r.created = clock
  <2>1. NoRecord \in Record
    BY LoopAssumption DEF NoRecord, Record
  <2>2. (IF job[p] = "auto" THEN token[p] ELSE None) \in Approvals \cup {None}
        /\ clock \in 0..MaxTime
    BY DEF TypeOK
  <2>3. QED  BY <2>1, <2>2 DEF Record, NoRecord
<1> HIDE DEF r
<1>3. doc'.recs[l] = r /\ \A m \in Labels : m # l => doc'.recs[m] = doc.recs[m]
  BY <1>1, <1>2, ClaimedIs DEF TypeOK
<1>4. swap[l].fee = 0 /\ swap[l].at = 0 /\ clock \in Nat
  BY <1>1, Amounts DEF CostInv, WorldCost
<1>5. swap[l].at <= Last(r)
  BY <1>2, <1>4 DEF Last, LargerOf
<1>6. WorldCost' /\ DocCost'
  BY <1>1, <1>2, <1>3, <1>4, <1>5 DEF CostInv, WorldCost, DocCost, Last
<1>7. ASSUME NEW q \in Procs, NEW m \in Labels  PROVE ToldCost(q, m)' /\ CopyCost(q, m)'
  <2>1. ToldCost(q, m) /\ CopyCost(q, m)
    BY DEF CostInv, SeenCost
  <2>2. CASE q = p
    <3>1. seen'[q] = [k \in Labels |-> NoSwap] /\ pc'[q] = "post"
      BY <1>1, <2>2 DEF TypeOK
    <3>2. QED
      BY <1>1, <1>4, <3>1 DEF ToldCost, CopyCost, Visible, NoSwap, Terminal
  <2>3. CASE q # p
    <3>1. seen'[q] = seen[q] /\ pc'[q] = pc[q] /\ (pc[q] # "idle" => stale'[q])
      BY <1>1, <2>3 DEF TypeOK, OthersStale
    <3>2. QED  BY <1>1, <2>1, <3>1 DEF ToldCost, CopyCost, Visible
  <2>4. QED  BY <2>2, <2>3
<1>8. QED  BY <1>6, <1>7 DEF CostInv, SeenCost

(* What a swap does by itself: it may cost more, later, until it ends, and *)
(* a failed one until it is resolved.                                      *)
LEMMA MovedCost ==
  ASSUME IInv, CostInv, NEW l \in Labels, UNCHANGED <<clock, doc, pc, stale, seen>>,
         \A m \in Labels : m # l => swap'[m] = swap[m],
         swap'[l].fee = 0 => swap'[l].at = 0,
         swap'[l].at <= clock,
         swap'[l].state \in {"unsent", "posted"} => swap'[l].fee = 0,
         swap'[l].open => swap'[l].state = "FAILED",
         swap'[l].state # "unsent" => doc.recs[l].status # "absent",
         \/ swap'[l].fee = swap[l].fee /\ swap'[l].at = swap[l].at
         \/ swap'[l].fee = swap[l].fee + 1,
         swap[l].state = "FAILED" /\ ~swap[l].open =>
           swap'[l].state = "FAILED" /\ ~swap'[l].open
  PROVE  CostInv'
<1>1. WorldCost'
  BY DEF CostInv, WorldCost
<1>2. swap[l].fee \in Nat /\ doc.recs[l].fee \in Nat
  BY Amounts DEF IInv
<1>3. ASSUME NEW m \in Labels
      PROVE  /\ swap'[m].state # "unsent" => doc.recs[m].status # "absent"
             /\ doc.recs[m].status = "absent" => doc.recs[m].fee = 0
             /\ doc.recs[m].fee <= swap'[m].fee
             /\ doc.recs[m].fee = swap'[m].fee => swap'[m].at <= Last(doc.recs[m])
             /\ doc.recs[m].settled => swap'[m].state = "FAILED" /\ ~swap'[m].open
  <2>1. /\ swap[m].state # "unsent" => doc.recs[m].status # "absent"
        /\ doc.recs[m].status = "absent" => doc.recs[m].fee = 0
        /\ doc.recs[m].fee <= swap[m].fee
        /\ doc.recs[m].fee = swap[m].fee => swap[m].at <= Last(doc.recs[m])
        /\ doc.recs[m].settled => swap[m].state = "FAILED" /\ ~swap[m].open
    BY DEF CostInv, DocCost
  <2>2. CASE m = l /\ swap'[l].fee = swap[l].fee /\ swap'[l].at = swap[l].at
    BY <2>1, <2>2
  <2>3. CASE m = l /\ swap'[l].fee = swap[l].fee + 1
    BY <1>2, <2>1, <2>3
  <2>4. CASE m # l
    BY <2>1, <2>4
  <2>5. QED  BY <2>2, <2>3, <2>4
<1>4. DocCost'
  BY <1>3 DEF DocCost, Last
<1>5. ASSUME NEW q \in Procs, NEW m \in Labels  PROVE ToldCost(q, m)' /\ CopyCost(q, m)'
  <2>1. ToldCost(q, m) /\ CopyCost(q, m)
    BY DEF CostInv, SeenCost
  <2>2. /\ seen[q][m].fee <= swap[m].fee =>
             seen[q][m].fee <= swap'[m].fee
        /\ seen[q][m].fee <= swap[m].fee /\ seen[q][m].fee = swap'[m].fee =>
             seen[q][m].fee = swap[m].fee /\ swap'[m].at = swap[m].at
    <3>1. seen[q][m].fee \in Nat
      BY Amounts DEF IInv
    <3>2. QED  BY <1>2, <3>1
  <2>3. QED  BY <2>1, <2>2 DEF ToldCost, CopyCost, Last, Visible
<1>6. QED  BY <1>1, <1>4, <1>5 DEF CostInv, SeenCost

(* loopd and LND.                                                          *)
LEMMA WorldStepCost ==
  ASSUME IInv, CostInv, NEW l \in Labels, Starts(l) \/ Costs(l) \/ Ends(l) \/ Resolves(l)
  PROVE  CostInv'
<1>1. /\ swap[l] \in Swap /\ swap[l].fee \in Nat /\ clock \in Nat
      /\ \A m \in Labels : m # l => swap'[m] = swap[m]
  BY Amounts, WorldTypes DEF IInv, TypeOK
<1>2. UNCHANGED <<clock, doc, pc, stale, seen>>
  BY DEF Starts, Costs, Ends, Resolves, Becomes, screen
<1>3. /\ swap[l].fee = 0 => swap[l].at = 0
      /\ swap[l].at <= clock
      /\ swap[l].state \in {"unsent", "posted"} => swap[l].fee = 0
      /\ swap[l].open => swap[l].state = "FAILED"
      /\ swap[l].state # "unsent" => doc.recs[l].status # "absent"
  BY DEF CostInv, WorldCost, DocCost
<1>4. CASE Starts(l)
  <2>1. /\ swap[l].state = "posted" /\ swap'[l].state = "INITIATED"
        /\ swap'[l].fee = swap[l].fee /\ swap'[l].at = swap[l].at /\ swap'[l].open = swap[l].open
    BY <1>1, <1>4 DEF Starts, Becomes, TypeOK, IInv, Swap
  <2>2. QED  BY <1>1, <1>2, <1>3, <2>1, MovedCost
<1>5. CASE Costs(l)
  <2>1. /\ swap[l].state = "INITIATED" \/ swap[l].open
        /\ swap'[l].state = swap[l].state /\ swap'[l].open = swap[l].open
        /\ swap'[l].fee = swap[l].fee + 1 /\ swap'[l].at = clock
    BY <1>1, <1>5 DEF Costs, Becomes, TypeOK, IInv, Swap
  <2>2. swap'[l].fee # 0 /\ swap'[l].at <= clock
        /\ swap'[l].state \notin {"unsent", "posted"}
    BY <1>1, <1>3, <2>1
  <2>3. QED  BY <1>1, <1>2, <1>3, <2>1, <2>2, MovedCost
<1>6. CASE Ends(l)
  <2>1. /\ swap[l].state = "INITIATED" /\ swap'[l].state \in Terminal
        /\ swap'[l].fee = swap[l].fee /\ swap'[l].at = swap[l].at
        /\ swap'[l].state = "FAILED" \/ swap'[l].open = swap[l].open
    <3> DEFINE s == [swap[l] EXCEPT !.state = "SUCCESS"]
               f(b) == [swap[l] EXCEPT !.state = "FAILED", !.open = b]
    <3>1. swap[l].state = "INITIATED" /\ (swap'[l] = s \/ \E b \in BOOLEAN : swap'[l] = f(b))
      BY <1>6 DEF Ends, Becomes, TypeOK, IInv
    <3>2. s.state = "SUCCESS" /\ s.fee = swap[l].fee /\ s.at = swap[l].at /\ s.open = swap[l].open
      BY <1>1 DEF Swap
    <3>3. \A b \in BOOLEAN :
            f(b).state = "FAILED" /\ f(b).fee = swap[l].fee /\ f(b).at = swap[l].at
      BY <1>1 DEF Swap
    <3>4. QED  BY <3>1, <3>2, <3>3 DEF Terminal
  <2>2. QED  BY <1>1, <1>2, <1>3, <2>1, MovedCost DEF Terminal
<1>7. CASE Resolves(l)
  <2>1. /\ swap[l].open /\ swap'[l].state = swap[l].state /\ swap'[l].open = FALSE
        /\ swap'[l].fee = swap[l].fee /\ swap'[l].at = swap[l].at
    BY <1>1, <1>7 DEF Resolves, Becomes, TypeOK, IInv, Swap
  <2>2. QED  BY <1>1, <1>2, <1>3, <2>1, MovedCost
<1>8. QED  BY <1>4, <1>5, <1>6, <1>7

(* A post costs nothing yet.                                               *)
LEMMA PostCost == ASSUME IInv, CostInv, NEW p \in Procs, Post(p)  PROVE CostInv'
<1> USE DEF IInv
<1> DEFINE a == label[p]
<1>1. /\ a \in Labels /\ swap[a].state = "unsent" /\ doc.recs[a].status = "SUBMITTING"
      /\ \A m \in Labels : m # a => swap'[m] = swap[m]
  BY PostStepInv DEF Post, PostInv
<1>2. /\ UNCHANGED <<clock, doc>> /\ ReturnOnly(p, token[p])
      /\ stale' = [stale EXCEPT ![p] = FALSE]
      /\ swap' = [swap EXCEPT ![a].state = "posted"]
  BY DEF Post, Return
<1>3. /\ pc'[p] = "idle" /\ seen'[p] = [m \in Labels |-> NoSwap]
      /\ \A q \in Procs : q # p => /\ pc'[q] = pc[q] /\ seen'[q] = seen[q]
                                   /\ stale'[q] = stale[q]
  BY <1>2 DEF ReturnOnly, Goto, TypeOK
<1>4. /\ swap'[a].state = "posted" /\ swap'[a].fee = swap[a].fee
      /\ swap'[a].at = swap[a].at /\ swap'[a].open = swap[a].open
  BY <1>1, <1>2 DEF TypeOK, Swap
<1>5. \A m \in Labels : swap'[m].fee = swap[m].fee /\ swap'[m].at = swap[m].at
                        /\ swap'[m].open = swap[m].open
  BY <1>1, <1>4
<1>6. swap[a].fee = 0 /\ ~swap[a].open
  BY <1>1 DEF CostInv, WorldCost
<1> HIDE DEF a
<1>7. WorldCost'
  BY <1>1, <1>2, <1>4, <1>5, <1>6 DEF CostInv, WorldCost
<1>8. DocCost'
  BY <1>1, <1>2, <1>4, <1>5 DEF CostInv, DocCost, Last
<1>9. clock \in Nat
  BY Amounts
<1>10. ASSUME NEW q \in Procs, NEW m \in Labels  PROVE ToldCost(q, m)' /\ CopyCost(q, m)'
  <2>1. ToldCost(q, m) /\ CopyCost(q, m)
    BY DEF CostInv, SeenCost
  <2>2. CASE q = p
    BY <1>2, <1>3, <1>9, <2>2 DEF ToldCost, CopyCost, Visible, NoSwap, Terminal
  <2>3. CASE q # p
    <3>1. pc'[q] = pc[q] /\ seen'[q] = seen[q] /\ stale'[q] = stale[q]
      BY <1>3, <2>3
    <3>2. QED  BY <1>2, <1>5, <2>1, <3>1 DEF ToldCost, CopyCost, Last, Visible
  <2>4. QED  BY <2>2, <2>3
<1>11. QED  BY <1>7, <1>8, <1>10 DEF CostInv, SeenCost

(* Time passes, or nothing does.                                           *)
LEMMA RestCost == ASSUME IInv, CostInv, Tick \/ UNCHANGED vars  PROVE CostInv'
<1>1. UNCHANGED <<swap, doc, pc, stale, seen>> /\ clock \in Nat
      /\ (clock' = clock + 1 \/ clock' = clock)
  BY Amounts DEF Tick, vars, screen, IInv
<1>2. \A l \in Labels : swap[l].at \in Nat /\ swap[l].at <= clock
  BY Amounts DEF IInv, CostInv, WorldCost
<1>3. \A l \in Labels : swap[l].at <= clock'
  BY <1>1, <1>2
<1>4. WorldCost' /\ DocCost'
  BY <1>1, <1>3 DEF CostInv, WorldCost, DocCost, Last
<1>5. ASSUME NEW q \in Procs, NEW m \in Labels  PROVE ToldCost(q, m)' /\ CopyCost(q, m)'
  <2>1. ToldCost(q, m) /\ CopyCost(q, m)
    BY DEF CostInv, SeenCost
  <2>2. seen[q][m].at \in Nat /\ seen[q][m].at <= clock
    BY <2>1, Amounts DEF IInv, ToldCost
  <2>3. seen[q][m].at <= clock'
    BY <1>1, <2>2
  <2>4. QED  BY <1>1, <2>1, <2>3 DEF ToldCost, CopyCost, Last, Visible
<1>6. QED  BY <1>4, <1>5 DEF CostInv, SeenCost

(* At first nothing costs anything.                                        *)
LEMMA InitCost == Init => CostInv
<1> SUFFICES ASSUME Init  PROVE CostInv
  OBVIOUS
<1>1. \A l \in Labels : NoDoc.recs[l] = NoRecord
  BY DEF NoDoc
<1>2. NoRecord.fee = 0 /\ NoRecord.status = "absent" /\ ~NoRecord.settled
      /\ Last(NoRecord) = 0
  BY DEF NoRecord, Last, LargerOf
<1>3. NoSwap.state = "unsent" /\ NoSwap.fee = 0 /\ NoSwap.at = 0 /\ ~NoSwap.open
  BY DEF NoSwap
<1>4. ~Visible(NoSwap)
  BY <1>3 DEF Visible, Terminal
<1>5. WorldCost
  BY <1>3 DEF Init, WorldCost
<1>6. DocCost
  BY <1>1, <1>2, <1>3 DEF Init, DocCost
<1>7. SeenCost
  BY <1>3, <1>4 DEF Init, SeenCost, ToldCost, CopyCost
<1>8. QED  BY <1>5, <1>6, <1>7 DEF CostInv

(* Every step keeps it.                                                    *)
LEMMA NextCost == IInv /\ CostInv /\ [Next]_vars => CostInv'
BY MenuCost, ReadSwapsCost, ReconcileCost, ClaimCost, PostCost, WorldStepCost, RestCost
   DEF Next, Step

-----------------------------------------------------------------------------
(* The budget.                                                             *)

Charged(d) ==
  {l \in Labels : d.recs[l].status # "absent" /\ Last(d.recs[l]) + Window >= clock}
Cost(p, l) ==
  IF swap[l].open THEN LargerOf(Reserve, seen[p][l].fee) ELSE seen[p][l].fee
Costing(p) == {l \in Labels : seen[p][l].state # "unsent" /\ seen[p][l].at + Window >= clock}

(* What is used of the budget is the sum of what its records are charged.  *)
LEMMA UsedIs ==
  ASSUME NEW d, NEW F \in [Charged(d) -> Nat],
         \A l \in Charged(d) : F[l] = Charge(d.recs[l])
  PROVE  \E h : IsSum(h, F, Charged(d)) /\ Used(d) = h[Charged(d)]
<1> DEFINE S == {l \in Labels : /\ d.recs[l].status # "absent"
                                /\ LargerOf(d.recs[l].created, d.recs[l].observed) + Window >= clock}
           P(g) == g = [s \in SUBSET S |-> IF s = {} THEN 0
                          ELSE Charge(d.recs[CHOOSE x \in s : TRUE]) + g[s \ {CHOOSE x \in s : TRUE}]]
<1>1. S = Charged(d) /\ S \subseteq Labels
  BY DEF Charged, Last
<1>2. IsFiniteSet(S)
  BY <1>1, FS_Subset, LoopAssumption
<1>3. Used(d) = MapThenSumSet(LAMBDA l : Charge(d.recs[l]), S)
  BY Zenon DEF Used
<1> HIDE DEF S
<1>4. \A s \in SUBSET S : s # {} => Pick(s) \in S
  BY DEF Pick
<1>5. \A h : IsSum(h, F, S) <=> P(h)
  <2> TAKE h
  <2> DEFINE f == [s \in SUBSET S |-> IF s = {} THEN 0 ELSE F[Pick(s)] + h[s \ {Pick(s)}]]
             c == [s \in SUBSET S |-> IF s = {} THEN 0
                     ELSE Charge(d.recs[CHOOSE x \in s : TRUE]) + h[s \ {CHOOSE x \in s : TRUE}]]
  <2>1. \A s \in SUBSET S : s # {} => F[Pick(s)] = Charge(d.recs[Pick(s)])
    BY <1>1, <1>4
  <2>2. f = c
    BY <2>1 DEF Pick
  <2>3. QED  BY <2>2, Zenon DEF IsSum
<1> HIDE DEF P
<1>6. \E h : IsSum(h, F, S)
  BY <1>1, <1>2, SumExists
<1>7. MapThenSumSet(LAMBDA l : Charge(d.recs[l]), S) = (CHOOSE h : P(h))[S]
  BY Zenon DEF MapThenSumSet, MapThenFoldSet, P
<1>8. P(CHOOSE h : P(h))
  BY <1>5, <1>6, Zenon
<1>9. QED  BY <1>1, <1>3, <1>5, <1>7, <1>8

(* The exposure is the sum of what swaps cost and may still cost.          *)
LEMMA ExposureIs ==
  ASSUME NEW p, NEW F \in [Costing(p) -> Nat], \A l \in Costing(p) : F[l] = Cost(p, l)
  PROVE  \E h : IsSum(h, F, Costing(p)) /\ Exposure(p) = h[Costing(p)]
<1> DEFINE S == {l \in Labels : seen[p][l].state # "unsent" /\ seen[p][l].at + Window >= clock}
           C(l) == IF swap[l].open THEN LargerOf(Reserve, seen[p][l].fee) ELSE seen[p][l].fee
           P(g) == g = [s \in SUBSET S |-> IF s = {} THEN 0
                          ELSE C(CHOOSE x \in s : TRUE) + g[s \ {CHOOSE x \in s : TRUE}]]
<1>1. S = Costing(p) /\ S \subseteq Labels /\ \A l : C(l) = Cost(p, l)
  BY DEF Costing, Cost
<1>2. IsFiniteSet(S)
  BY <1>1, FS_Subset, LoopAssumption
<1>3. Exposure(p) =
        MapThenSumSet(LAMBDA l : IF swap[l].open THEN LargerOf(Reserve, seen[p][l].fee)
                                                 ELSE seen[p][l].fee, S)
  BY Zenon DEF Exposure
<1> HIDE DEF S
<1>4. \A s \in SUBSET S : s # {} => Pick(s) \in S
  BY DEF Pick
<1>5. \A h : IsSum(h, F, S) <=> P(h)
  <2> TAKE h
  <2> HIDE DEF C
  <2> DEFINE f == [s \in SUBSET S |-> IF s = {} THEN 0 ELSE F[Pick(s)] + h[s \ {Pick(s)}]]
             c == [s \in SUBSET S |-> IF s = {} THEN 0
                     ELSE C(CHOOSE x \in s : TRUE) + h[s \ {CHOOSE x \in s : TRUE}]]
  <2>1. \A s \in SUBSET S : s # {} => F[Pick(s)] = C(Pick(s))
    BY <1>1, <1>4
  <2>2. f = c
    BY <2>1 DEF Pick
  <2>3. QED  BY <2>2, Zenon DEF IsSum
<1> HIDE DEF P
<1>6. \E h : IsSum(h, F, S)
  BY <1>1, <1>2, SumExists
<1>7. MapThenSumSet(LAMBDA l : IF swap[l].open THEN LargerOf(Reserve, seen[p][l].fee)
                                               ELSE seen[p][l].fee, S)
        = (CHOOSE h : P(h))[S]
  BY Zenon DEF MapThenSumSet, MapThenFoldSet, P, C
<1>8. P(CHOOSE h : P(h))
  BY <1>5, <1>6, Zenon
<1>9. QED  BY <1>1, <1>3, <1>5, <1>7, <1>8

(* A screen that decides on the current journal: whatever costs is charged,*)
(* and with as much or more.                                               *)
LEMMA CostIsCharged ==
  ASSUME IInv, CostInv, NEW p \in Procs, pc[p] = "decide", ~stale[p],
         NEW l \in Costing(p)
  PROVE  /\ l \in Charged(doc)
         /\ Cost(p, l) \in Nat /\ Charge(doc.recs[l]) \in Nat
         /\ Cost(p, l) <= Charge(doc.recs[l])
<1>1. /\ l \in Labels /\ seen[p][l].state # "unsent" /\ seen[p][l].at + Window >= clock
  BY DEF Costing
<1>2. /\ clock \in Nat /\ Reserve \in Nat /\ Window \in Nat
      /\ doc.recs[l].fee \in Nat /\ doc.recs[l].created \in Nat /\ doc.recs[l].observed \in Nat
      /\ doc.recs[l].settled \in BOOLEAN /\ swap[l].open \in BOOLEAN
      /\ seen[p][l].fee \in Nat /\ seen[p][l].at \in Nat
  BY <1>1, Amounts DEF IInv
<1>3. Visible(seen[p][l]) /\ ToldCost(p, l) /\ CopyCost(p, l)
  BY <1>1 DEF CostInv, SeenCost, ToldCost
<1>4. doc.recs[l].fee = seen[p][l].fee /\ seen[p][l].at <= Last(doc.recs[l])
  BY <1>3 DEF CopyCost
<1>5. swap[l].state # "unsent"
  BY <1>1, <1>3 DEF IInv, SeenInv, Visible, Terminal
<1>6. doc.recs[l].status # "absent" /\ (doc.recs[l].settled => ~swap[l].open)
  BY <1>1, <1>5 DEF CostInv, DocCost
<1>7. Last(doc.recs[l]) \in Nat
  BY <1>2 DEF Last, LargerOf
<1>8. Last(doc.recs[l]) + Window >= clock
  BY <1>1, <1>2, <1>4, <1>7
<1>9. Cost(p, l) \in Nat /\ Charge(doc.recs[l]) \in Nat /\ Cost(p, l) <= Charge(doc.recs[l])
  BY <1>2, <1>4, <1>6 DEF Cost, Charge, LargerOf
<1>10. QED  BY <1>1, <1>6, <1>8, <1>9 DEF Charged

(* So the exposure of a screen is no more than what is used.               *)
LEMMA ExposureIsUsed ==
  ASSUME IInv, CostInv, NEW p \in Procs, pc[p] = "decide", ~stale[p]
  PROVE  Exposure(p) \in Nat /\ Used(doc) \in Nat /\ Exposure(p) <= Used(doc)
<1> DEFINE T == Charged(doc)
           S == Costing(p)
           F == [l \in S |-> Cost(p, l)]
           G == [l \in T |-> Charge(doc.recs[l])]
<1>1. \A l \in S : /\ l \in T /\ Cost(p, l) \in Nat
                   /\ Cost(p, l) <= Charge(doc.recs[l])
  BY CostIsCharged
<1>2. \A l \in T : Charge(doc.recs[l]) \in Nat
  BY Amounts DEF Charged, Charge, LargerOf, IInv
<1>3. IsFiniteSet(T) /\ S \in SUBSET T
  <2>1. T \subseteq Labels
    BY DEF Charged
  <2>2. QED  BY <1>1, <2>1, FS_Subset, LoopAssumption
<1>4. /\ F \in [S -> Nat] /\ \A l \in S : F[l] = Cost(p, l)
      /\ G \in [T -> Nat] /\ \A l \in T : G[l] = Charge(doc.recs[l])
  BY <1>1, <1>2
<1> HIDE DEF F, G
<1>5. PICK g : IsSum(g, F, S) /\ Exposure(p) = g[S]
  BY <1>4, ExposureIs
<1>6. PICK h : IsSum(h, G, T) /\ Used(doc) = h[T]
  BY <1>4, UsedIs
<1> HIDE DEF S, T
<1>7. \A x \in S : F[x] <= G[x]
  BY <1>1, <1>4
<1>8. g[S] <= h[T]
  BY <1>3, <1>4, <1>5, <1>6, <1>7, SumGrows
<1>9. g[S] \in Nat /\ h[T] \in Nat
  <2>1. IsFiniteSet(S)
    BY <1>3, FS_Subset
  <2>2. \A s \in SUBSET S : g[s] \in Nat
    BY <1>4, <1>5, <2>1, SumIsNat
  <2>3. \A s \in SUBSET T : h[s] \in Nat
    BY <1>3, <1>4, <1>6, SumIsNat
  <2>4. QED  BY <2>2, <2>3
<1>10. QED  BY <1>5, <1>6, <1>8, <1>9

(* Only a claim leads from a decision to a post, and it counts what is     *)
(* used.                                                                   *)
LEMMA OnlyAClaimPosts ==
  ASSUME IInv, [Next]_vars, NEW p \in Procs, pc[p] = "decide", pc'[p] = "post"
  PROVE  ~stale[p] /\ snap[p] = doc /\ Used(snap[p]) + Reserve =< Budget
<1> USE DEF IInv
<1>1. PICK q \in Procs : \E l \in Labels : Claim(q, l)
  <2>1. pc' # pc
    OBVIOUS
  <2>2. ASSUME NEW q \in Procs, NEW t, pc' = [pc EXCEPT ![q] = t], t # "post"  PROVE FALSE
    BY <2>2 DEF TypeOK
  <2>3. QED
    BY <2>1, <2>2 DEF Next, Step, Begin, BeginDisarm, Read, ReadSwaps, Reconcile, Post, Done,
       Disarm, Stop, Arm, Return, ReturnOnly, Goto, Starts, Costs, Ends, Resolves, Becomes,
       screen, Tick, vars
<1>2. q = p
  BY <1>1 DEF Claim, Goto, TypeOK
<1>3. ~stale[p] /\ Used(snap[p]) + Reserve =< Budget
  BY <1>1, <1>2 DEF Claim, Replace
<1>4. QED  BY <1>3 DEF SnapInv

(* A swap starts only if the budget covers its reservation on top of what  *)
(* the last 24 hours cost and may still cost, as loopd last told it.       *)
THEOREM BudgetHolds == Spec => BudgetAdmits
<1>1. IInv /\ CostInv /\ [Next]_vars =>
        [\A p \in Procs : pc[p] = "decide" /\ pc'[p] = "post" =>
           Exposure(p) + Reserve =< Budget]_vars
  <2> SUFFICES ASSUME IInv, CostInv, [Next]_vars, NEW p \in Procs,
                      pc[p] = "decide", pc'[p] = "post"
               PROVE  Exposure(p) + Reserve =< Budget
    OBVIOUS
  <2>1. ~stale[p] /\ snap[p] = doc /\ Used(doc) + Reserve =< Budget
    BY OnlyAClaimPosts
  <2>2. Exposure(p) \in Nat /\ Used(doc) \in Nat /\ Exposure(p) <= Used(doc)
    BY <2>1, ExposureIsUsed
  <2>3. Reserve \in Nat /\ Budget \in Nat
    BY LoopAssumption
  <2>4. QED  BY <2>1, <2>2, <2>3
<1>2. QED  BY InitInv, NextInv, InitCost, NextCost, <1>1, PTL DEF Spec, BudgetAdmits

(* What SingleFlight is for: at most one swap may still take effect, and   *)
(* the journal's verdicts are loopd's.                                     *)
THEOREM OneLiveSwap == Spec => [](Flight!AtMostOneLive /\ Flight!VerdictsAreTrue)
<1>1. IInv /\ CostInv => Flight!AtMostOneLive /\ Flight!VerdictsAreTrue
  <2> SUFFICES ASSUME IInv, CostInv  PROVE Flight!AtMostOneLive /\ Flight!VerdictsAreTrue
    OBVIOUS
  <2>1. ASSUME NEW l \in Labels, Fate(l) = "live"  PROVE Open(l)
    <3>1. swap[l].state \in {"posted", "INITIATED"}
      <4>1. swap[l] \in Swap
        BY DEF IInv, TypeOK
      <4>2. QED  BY <2>1, <4>1 DEF Fate, Swap, Terminal
    <3>2. doc.recs[l].status \notin {"absent"} \cup Terminal
      BY <3>1 DEF IInv, DocInv, CostInv, DocCost, Terminal
    <3>3. doc.recs[l] \in Record
      BY DEF IInv, TypeOK, Doc
    <3>4. QED  BY <3>2, <3>3 DEF Open, Record, Terminal
  <2>2. Flight!AtMostOneLive
    BY <2>1 DEF Flight!AtMostOneLive, IInv, DocInv
  <2>3. ASSUME NEW l \in Labels, Ledger(l) \in {"done", "refused"}  PROVE Fate(l) = Ledger(l)
    <3>1. \/ doc.recs[l].status = "SUCCESS" /\ Ledger(l) = "done"
          \/ doc.recs[l].status = "FAILED" /\ Ledger(l) = "refused"
      BY <2>3 DEF Ledger
    <3>2. swap[l].state = doc.recs[l].status
      BY <3>1 DEF IInv, DocInv, Terminal
    <3>3. QED  BY <3>1, <3>2 DEF Fate
  <2>4. Flight!VerdictsAreTrue
    BY <2>3 DEF Flight!VerdictsAreTrue, Flight!Outcomes
  <2>5. QED  BY <2>2, <2>4
<1>2. QED  BY InitInv, NextInv, InitCost, NextCost, <1>1, PTL DEF Spec

=============================================================================
