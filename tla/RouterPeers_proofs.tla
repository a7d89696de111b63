-------------------------- MODULE RouterPeers_proofs --------------------------
(***************************************************************************)
(* Proofs about RouterPeers, for any number of passes, peers, addresses    *)
(* and approvals.                                                          *)
(***************************************************************************)
EXTENDS RouterPeers, TLAPS

LockInv == \A q \in Procs : q \in lock <=> pc[q] # "idle"

(* Every request to a peer that is away is covered by an attempt on file;  *)
(* the one about to be sent is already counted.                            *)
Covered ==
  \A p \in Peers :
    /\ asked[p] =< file[p].attempts
    /\ p \in connected => asked[p] = 0

(* A pass knows the addresses on file, and gives a budget back only to a   *)
(* peer that was not asked since it was connected.                         *)
Copy(q) ==
  pc[q] # "idle" =>
    /\ \A p \in Peers :
         /\ mem[q][p].address = file[p].address
         /\ \/ mem[q][p].attempts = file[p].attempts
            \/ mem[q][p].attempts = 0 /\ asked[p] = 0
         /\ p \in seen[q] => asked[p] = 0
    /\ pc[q] \in {"send", "reply"} =>
         /\ peer[q] \in Peers \ seen[q]
         /\ mem[q][peer[q]].attempts = file[peer[q]].attempts
         /\ pc[q] = "send" => asked[peer[q]] < file[peer[q]].attempts

CopyInv == \A q \in Procs : Copy(q)

AddressInv == \A p \in Peers : file[p].address = approved[p]

IInv == TypeOK /\ LockInv /\ Covered /\ CopyInv /\ AddressInv

-----------------------------------------------------------------------------
(* Types.                                                                  *)

(* Leaving a pass keeps the types of what a pass is made of.               *)
LEMMA LeaveTypes == ASSUME TypeOK, NEW q \in Procs, Leave(q)
  PROVE /\ \A r \in Procs : pc'[r] \in {"send", "reply"} => peer'[r] \in Peers
        /\ lock' \subseteq Procs /\ \A r, s \in lock' : r = s
        /\ pc' \in [Procs -> {"idle", "visit", "send", "reply"}]
        /\ mem' \in [Procs -> [Peers -> Entry]]
        /\ seen' \in [Procs -> SUBSET Peers]
        /\ due' \in [Procs -> SUBSET Peers]
        /\ todo' \in [Procs -> SUBSET Peers]
        /\ peer' \in [Procs -> Peers \cup {None}]
<1>1. NoEntries \in [Peers -> Entry]
  BY DEF NoEntries, NoEntry, Blank, Entry, Limit
<1>2. QED  BY <1>1 DEF TypeOK, Leave, Goto

(* Writing one peer's attempts and state leaves a well-typed copy.         *)
LEMMA SetTypes ==
  ASSUME TypeOK, NEW q \in Procs, NEW p \in Peers, NEW n \in 0..Limit,
         NEW s \in {"needs_review", "connected"} \cup Waiting, Set(q, p, n, s)
  PROVE  mem' \in [Procs -> [Peers -> Entry]]
<1>1. mem \in [Procs -> [Peers -> Entry]]
  BY DEF TypeOK
<1>2. [address |-> mem[q][p].address, attempts |-> n, state |-> s] \in Entry
  BY <1>1 DEF Entry
<1>3. QED  BY <1>1, <1>2 DEF Set

(* What it leaves alone, and what it writes.                               *)
LEMMA SetValues ==
  ASSUME TypeOK, NEW q \in Procs, NEW p \in Peers, NEW n, NEW s, Set(q, p, n, s)
  PROVE  /\ \A r \in Procs \ {q} : mem'[r] = mem[r]
         /\ \A o \in Peers \ {p} : mem'[q][o] = mem[q][o]
         /\ mem'[q][p].address = mem[q][p].address
         /\ mem'[q][p].attempts = n
<1>1. mem \in [Procs -> [Peers -> Entry]]
  BY DEF TypeOK
<1>2. QED  BY <1>1 DEF Set

(* The first state is well typed.                                          *)
LEMMA InitTypes == Init => TypeOK
<1> SUFFICES ASSUME Init PROVE TypeOK
  OBVIOUS
<1>1. NoEntries \in [Peers -> Entry]
  BY DEF NoEntries, NoEntry, Blank, Entry, Limit
<1>2. approvals \in 0..MaxApprovals
  BY PeersAssumption DEF Init
<1>3. QED  BY <1>1, <1>2 DEF Init, TypeOK

(* Every step keeps the types.                                             *)
LEMMA TypeStep == TypeOK /\ [Next]_vars => TypeOK'
<1> SUFFICES ASSUME TypeOK, [Next]_vars PROVE TypeOK'
  OBVIOUS
<1>1. ASSUME NEW p \in Peers, NEW a \in Addresses, Approve(p, a) PROVE TypeOK'
  <2>1. Blank(a) \in Entry
    BY DEF Blank, Entry, Limit
  <2>2. QED  BY <1>1, <2>1, PeersAssumption DEF Approve, TypeOK
<1>2. ASSUME NEW q \in Procs, Begin(q) PROVE TypeOK'
  BY <1>2 DEF Begin, TypeOK, outside, Goto, Known
<1>3. ASSUME NEW q \in Procs, NEW p \in Peers, Connected(q, p) PROVE TypeOK'
  <2>1. 0 \in 0..Limit /\ Set(q, p, 0, "connected")
    BY <1>3 DEF Connected, Limit
  <2>2. mem' \in [Procs -> [Peers -> Entry]]
    BY <2>1, SetTypes
  <2>3. QED  BY <1>3, <2>2 DEF Connected, Visit, TypeOK, outside
<1>4. ASSUME NEW q \in Procs, NEW p \in Peers, Exhausted(q, p) PROVE TypeOK'
  <2>1. Limit \in 0..Limit
    BY DEF Limit
  <2>2. mem' = mem \/ Set(q, p, Limit, "needs_review")
    BY <1>4 DEF Exhausted
  <2>3. mem' \in [Procs -> [Peers -> Entry]]
    BY <2>1, <2>2, SetTypes DEF TypeOK
  <2>4. QED  BY <1>4, <2>3 DEF Exhausted, Visit, TypeOK, outside
<1>5. ASSUME NEW q \in Procs, NEW p \in Peers, Wait(q, p) PROVE TypeOK'
  BY <1>5 DEF Wait, Visit, TypeOK, outside
<1>6. ASSUME NEW q \in Procs, NEW p \in Peers, Attempt(q, p) PROVE TypeOK'
  <2>1. mem[q][p].attempts \in 0..Limit /\ mem[q][p].attempts < Limit
    BY <1>6 DEF Attempt, TypeOK, Entry
  <2>2. mem[q][p].attempts + 1 \in 0..Limit
    BY <2>1 DEF Limit
  <2>3. mem' \in [Procs -> [Peers -> Entry]]
    BY <1>6, <2>2, SetTypes DEF Attempt, Waiting
  <2>4. QED  BY <1>6, <2>3 DEF Attempt, Visit, TypeOK, outside, Goto
<1>7. ASSUME NEW q \in Procs, Send(q) PROVE TypeOK'
  BY <1>7 DEF Send, TypeOK, Goto
<1>8. ASSUME NEW q \in Procs, Reply(q) PROVE TypeOK'
  <2>1. peer[q] \in Peers
    BY <1>8 DEF Reply, TypeOK
  <2>2. mem[q][peer[q]].attempts \in 0..Limit
    BY <2>1 DEF TypeOK, Entry
  <2>3. mem' \in [Procs -> [Peers -> Entry]]
    BY <1>8, <2>1, <2>2, SetTypes DEF Reply, Waiting
  <2>4. QED  BY <1>8, <2>3 DEF Reply, TypeOK, outside, Goto
<1>9. ASSUME NEW q \in Procs, Finish(q) \/ Stop(q) PROVE TypeOK'
  <2>1. Leave(q) /\ UNCHANGED <<connected, asked, approved, approvals, passed>>
    BY <1>9 DEF Finish, Stop, outside
  <2>2. file' \in [Peers -> Entry]
    BY <1>9 DEF Finish, Stop, TypeOK
  <2>3. QED  BY <2>1, <2>2, LeaveTypes DEF TypeOK
<1>10. ASSUME NEW p \in Peers, Connects(p) \/ Disconnects(p) \/ Passes(p) PROVE TypeOK'
  BY <1>10 DEF Connects, Disconnects, Passes, TypeOK, outside
<1>11. CASE UNCHANGED vars
  BY <1>11 DEF vars, outside, TypeOK
<1>12. QED
  BY <1>1, <1>2, <1>3, <1>4, <1>5, <1>6, <1>7, <1>8, <1>9, <1>10, <1>11
  DEF Next, Step, Consider

(* A pass never leaves the types, whichever are running, killed or started. *)
THEOREM TypeCorrect == Spec => []TypeOK
<1>1. QED  BY InitTypes, TypeStep, PTL DEF Spec

-----------------------------------------------------------------------------
(* Attempts and addresses.                                                 *)

(* The operations lock runs one pass at a time.                            *)
LEMMA Alone ==
  ASSUME TypeOK, LockInv, NEW q \in Procs, pc[q] # "idle"
  PROVE  /\ lock = {q}
         /\ \A r \in Procs \ {q} : pc[r] = "idle"
<1>1. q \in lock /\ lock \subseteq Procs /\ \A r, s \in lock : r = s
  BY DEF TypeOK, LockInv
<1>2. lock = {q}
  BY <1>1
<1>3. QED  BY <1>2 DEF LockInv

(* What the types say of one peer's counts.                                *)
LEMMA Counts ==
  ASSUME TypeOK, NEW p \in Peers
  PROVE  /\ asked[p] \in Nat /\ file[p].attempts \in 0..Limit
         /\ \A q \in Procs : mem[q][p].attempts \in 0..Limit
BY DEF TypeOK, Entry

(* Every step keeps who holds the lock.                                    *)
LEMMA LockStep == TypeOK /\ LockInv /\ [Next]_vars => LockInv'
<1> SUFFICES ASSUME TypeOK, LockInv, [Next]_vars PROVE LockInv'
  OBVIOUS
<1>1. ASSUME NEW p \in Peers, NEW a \in Addresses, Approve(p, a) PROVE LockInv'
  BY <1>1 DEF Approve, LockInv
<1>2. ASSUME NEW q \in Procs, Begin(q) PROVE LockInv'
  BY <1>2 DEF Begin, LockInv, TypeOK, Goto
<1>3. ASSUME NEW q \in Procs, NEW p \in Peers, Connected(q, p) \/ Exhausted(q, p) \/ Wait(q, p)
      PROVE LockInv'
  BY <1>3 DEF Connected, Exhausted, Wait, LockInv
<1>4. ASSUME NEW q \in Procs, NEW p \in Peers, Attempt(q, p) PROVE LockInv'
  BY <1>4 DEF Attempt, Visit, LockInv, TypeOK, Goto
<1>5. ASSUME NEW q \in Procs, Send(q) \/ Reply(q) PROVE LockInv'
  BY <1>5 DEF Send, Reply, LockInv, TypeOK, Goto
<1>6. ASSUME NEW q \in Procs, Finish(q) \/ Stop(q) PROVE LockInv'
  BY <1>6 DEF Finish, Stop, Leave, LockInv, TypeOK, Goto
<1>7. ASSUME NEW p \in Peers, Connects(p) \/ Disconnects(p) \/ Passes(p) PROVE LockInv'
  BY <1>7 DEF Connects, Disconnects, Passes, LockInv
<1>8. CASE UNCHANGED vars
  BY <1>8 DEF vars, LockInv
<1>9. QED
  BY <1>1, <1>2, <1>3, <1>4, <1>5, <1>6, <1>7, <1>8 DEF Next, Step, Consider

(* A step of a pass that changes its own copy only concerns that pass.     *)
LEMMA OwnCopy ==
  ASSUME TypeOK, LockInv, NEW q \in Procs, pc[q] # "idle",
         \A r \in Procs \ {q} : pc'[r] = pc[r], Copy(q)'
  PROVE  CopyInv'
<1>1. \A r \in Procs \ {q} : pc'[r] = "idle"
  BY Alone
<1>2. QED  BY <1>1 DEF CopyInv, Copy

(* Approving gives a budget back and leaves no pass with an older address. *)
LEMMA ApproveStep ==
  ASSUME IInv, NEW p \in Peers, NEW a \in Addresses, Approve(p, a)
  PROVE  Covered' /\ CopyInv' /\ AddressInv'
<1>1. TypeOK /\ \A q \in Procs : pc'[q] = "idle"
  BY DEF IInv, LockInv, Approve, TypeOK
<1>2. file'[p].address = a /\ file'[p].attempts = 0 /\ asked'[p] = 0 /\ approved'[p] = a
  BY <1>1 DEF Approve, TypeOK, Blank
<1>3. /\ \A o \in Peers \ {p} : file'[o] = file[o] /\ asked'[o] = asked[o] /\ approved'[o] = approved[o]
      /\ connected' = connected
  BY <1>1 DEF Approve, TypeOK
<1>4. Covered'
  BY <1>2, <1>3 DEF IInv, Covered
<1>5. CopyInv'
  BY <1>1 DEF CopyInv, Copy
<1>6. AddressInv'
  BY <1>2, <1>3 DEF IInv, AddressInv
<1>7. QED  BY <1>4, <1>5, <1>6

(* A pass begins with what is on file, and sees connected peers only.      *)
LEMMA BeginStep ==
  ASSUME IInv, NEW q \in Procs, Begin(q)
  PROVE  Covered' /\ CopyInv' /\ AddressInv'
<1>1. /\ file' = file /\ connected' = connected /\ asked' = asked /\ approved' = approved
      /\ lock = {} /\ TypeOK
  BY DEF Begin, outside, IInv
<1>2. Covered' /\ AddressInv'
  BY <1>1 DEF IInv, Covered, AddressInv
<1>3. /\ mem'[q] = file /\ seen'[q] \subseteq connected /\ pc'[q] = "visit"
      /\ \A r \in Procs \ {q} : pc'[r] = "idle"
  BY <1>1 DEF Begin, TypeOK, Goto, IInv, LockInv
<1>4. Copy(q)'
  BY <1>1, <1>3 DEF Copy, IInv, Covered
<1>5. CopyInv'
  BY <1>3, <1>4 DEF CopyInv, Copy
<1>6. QED  BY <1>2, <1>5

(* A peer seen connected gets its budget back: it was not asked since.     *)
LEMMA ConnectedStep ==
  ASSUME IInv, NEW q \in Procs, NEW p \in Peers, Connected(q, p)
  PROVE  Covered' /\ CopyInv' /\ AddressInv'
<1>1. /\ file' = file /\ connected' = connected /\ asked' = asked /\ approved' = approved
      /\ pc' = pc /\ pc[q] = "visit" /\ p \in seen[q] /\ TypeOK /\ LockInv /\ Copy(q)
  BY DEF Connected, Visit, outside, IInv, CopyInv
<1>2. Covered' /\ AddressInv'
  BY <1>1 DEF IInv, Covered, AddressInv
<1>3. seen'[q] \subseteq seen[q]
  BY <1>1 DEF Connected, Visit, TypeOK
<1>4. /\ \A o \in Peers \ {p} : mem'[q][o] = mem[q][o]
      /\ mem'[q][p].address = mem[q][p].address /\ mem'[q][p].attempts = 0
  BY <1>1, SetValues DEF Connected
<1>5. asked[p] = 0
  BY <1>1 DEF Copy
<1>6. Copy(q)'
  BY <1>1, <1>3, <1>4, <1>5 DEF Copy
<1>7. QED  BY <1>1, <1>2, <1>6, OwnCopy

(* Giving up on a peer, or waiting, changes no count.                      *)
LEMMA SkipStep ==
  ASSUME IInv, NEW q \in Procs, NEW p \in Peers, Exhausted(q, p) \/ Wait(q, p)
  PROVE  Covered' /\ CopyInv' /\ AddressInv'
<1>1. /\ file' = file /\ connected' = connected /\ asked' = asked /\ approved' = approved
      /\ pc' = pc /\ pc[q] = "visit" /\ TypeOK /\ LockInv /\ Copy(q)
  BY DEF Exhausted, Wait, Visit, outside, IInv, CopyInv
<1>2. Covered' /\ AddressInv'
  BY <1>1 DEF IInv, Covered, AddressInv
<1>3. seen'[q] \subseteq seen[q]
  BY <1>1 DEF Exhausted, Wait, Visit, TypeOK
<1>4. \A o \in Peers : /\ mem'[q][o].address = mem[q][o].address
                       /\ mem'[q][o].attempts = mem[q][o].attempts
  <2>1. CASE mem' = mem
    BY <2>1
  <2>2. CASE mem[q][p].attempts >= Limit /\ Set(q, p, Limit, "needs_review")
    <3>1. mem[q][p].attempts = Limit
      BY <1>1, <2>2, Counts DEF Limit
    <3>2. QED  BY <1>1, <2>2, <3>1, SetValues
  <2>3. QED  BY <2>1, <2>2 DEF Exhausted, Wait
<1>5. Copy(q)'
  BY <1>1, <1>3, <1>4 DEF Copy
<1>6. QED  BY <1>1, <1>2, <1>5, OwnCopy

(* The attempt that is filed covers the request that follows.              *)
LEMMA AttemptStep ==
  ASSUME IInv, NEW q \in Procs, NEW p \in Peers, Attempt(q, p)
  PROVE  Covered' /\ CopyInv' /\ AddressInv'
<1>1. /\ connected' = connected /\ asked' = asked /\ approved' = approved
      /\ pc[q] = "visit" /\ p \notin seen[q] /\ TypeOK /\ LockInv /\ Copy(q)
  BY DEF Attempt, Visit, outside, IInv, CopyInv
<1>2. /\ pc'[q] = "send" /\ peer'[q] = p /\ \A r \in Procs \ {q} : pc'[r] = pc[r]
      /\ file' = mem'[q] /\ seen'[q] \subseteq seen[q]
  BY <1>1 DEF Attempt, Visit, TypeOK, Goto
<1>3. /\ \A o \in Peers \ {p} : mem'[q][o] = mem[q][o]
      /\ mem'[q][p].address = mem[q][p].address
      /\ mem'[q][p].attempts = mem[q][p].attempts + 1
  BY <1>1, SetValues DEF Attempt
<1>4. \A o \in Peers : asked[o] =< mem[q][o].attempts
  BY <1>1, Counts DEF Copy, IInv, Covered
<1>5. asked[p] < mem'[q][p].attempts
  BY <1>1, <1>3, <1>4, Counts
<1>6. Covered'
  BY <1>1, <1>2, <1>3, <1>4, <1>5, Counts DEF IInv, Covered
<1>7. Copy(q)'
  BY <1>1, <1>2, <1>5 DEF Copy
<1>8. AddressInv'
  BY <1>1, <1>2, <1>3 DEF IInv, AddressInv, Copy
<1>9. QED  BY <1>1, <1>2, <1>6, <1>7, <1>8, OwnCopy

(* The request uses up the attempt that covers it.                         *)
LEMMA SendStep ==
  ASSUME IInv, NEW q \in Procs, Send(q)
  PROVE  Covered' /\ CopyInv' /\ AddressInv'
<1> DEFINE p == peer[q]
<1>1. /\ connected' = connected /\ file' = file /\ approved' = approved
      /\ mem' = mem /\ seen' = seen /\ peer' = peer
      /\ pc[q] = "send" /\ TypeOK /\ LockInv /\ Copy(q) /\ p \in Peers
  BY DEF Send, IInv, CopyInv, TypeOK
<1>2. /\ pc'[q] = "reply" /\ \A r \in Procs \ {q} : pc'[r] = pc[r]
      /\ \A o \in Peers \ {p} : asked'[o] = asked[o]
      /\ asked'[p] = IF p \in connected THEN asked[p] ELSE asked[p] + 1
  BY <1>1 DEF Send, TypeOK, Goto
<1>3. asked[p] < file[p].attempts
  BY <1>1 DEF Copy
<1>4. Covered'
  BY <1>1, <1>2, <1>3, Counts DEF IInv, Covered
<1>5. Copy(q)'
  BY <1>1, <1>2 DEF Copy
<1>6. QED  BY <1>1, <1>2, <1>4, <1>5, OwnCopy DEF IInv, AddressInv

(* The answer changes no count.                                            *)
LEMMA ReplyStep ==
  ASSUME IInv, NEW q \in Procs, Reply(q)
  PROVE  Covered' /\ CopyInv' /\ AddressInv'
<1> DEFINE p == peer[q]
<1>1. /\ connected' = connected /\ asked' = asked /\ approved' = approved /\ seen' = seen
      /\ pc[q] = "reply" /\ TypeOK /\ LockInv /\ Copy(q) /\ p \in Peers
  BY DEF Reply, outside, IInv, CopyInv, TypeOK
<1>2. pc'[q] = "visit" /\ file' = mem'[q] /\ \A r \in Procs \ {q} : pc'[r] = pc[r]
  BY <1>1 DEF Reply, TypeOK, Goto
<1>3. \A o \in Peers : /\ mem'[q][o].address = mem[q][o].address
                       /\ mem'[q][o].attempts = mem[q][o].attempts
  BY <1>1, SetValues DEF Reply
<1>4. Covered' /\ AddressInv'
  BY <1>1, <1>2, <1>3, Counts DEF IInv, Covered, AddressInv, Copy
<1>5. Copy(q)'
  BY <1>1, <1>2, <1>3 DEF Copy
<1>6. QED  BY <1>1, <1>2, <1>4, <1>5, OwnCopy

(* The last write changes no count, and a killed pass writes nothing.      *)
LEMMA LeaveStep ==
  ASSUME IInv, NEW q \in Procs, Finish(q) \/ Stop(q)
  PROVE  Covered' /\ CopyInv' /\ AddressInv'
<1>1. /\ connected' = connected /\ asked' = asked /\ approved' = approved
      /\ file' = file \/ file' = mem[q]
      /\ pc[q] # "idle" /\ TypeOK /\ LockInv /\ Copy(q)
  BY DEF Finish, Stop, outside, IInv, CopyInv
<1>2. pc'[q] = "idle" /\ \A r \in Procs \ {q} : pc'[r] = pc[r]
  BY <1>1 DEF Finish, Stop, Leave, Goto, TypeOK
<1>3. Covered' /\ AddressInv'
  BY <1>1, Counts DEF IInv, Covered, AddressInv, Copy
<1>4. Copy(q)'
  BY <1>2 DEF Copy
<1>5. QED  BY <1>1, <1>2, <1>3, <1>4, OwnCopy

(* Neither the network nor time spends an attempt.                         *)
LEMMA OutsideStep ==
  ASSUME IInv, NEW p \in Peers, Connects(p) \/ Disconnects(p) \/ Passes(p)
  PROVE  Covered' /\ CopyInv' /\ AddressInv'
<1>1. /\ file' = file /\ approved' = approved /\ pc' = pc /\ mem' = mem /\ seen' = seen
      /\ peer' = peer /\ TypeOK
  BY DEF Connects, Disconnects, Passes, outside, IInv
<1>2. \A o \in Peers : /\ asked'[o] = asked[o] \/ asked'[o] = 0
                       /\ o \in connected' => o \in connected \/ asked'[o] = 0
  BY <1>1 DEF Connects, Disconnects, Passes, outside, TypeOK
<1>3. Covered' /\ AddressInv'
  BY <1>1, <1>2, Counts DEF IInv, Covered, AddressInv, Limit
<1>4. ASSUME NEW q \in Procs PROVE Copy(q)'
  <2>1. Copy(q)
    BY DEF IInv, CopyInv
  <2>2. pc[q] \in {"send", "reply"} => peer[q] \in Peers
    BY <1>1 DEF TypeOK
  <2>3. pc[q] = "send" => asked'[peer[q]] < file[peer[q]].attempts
    BY <1>1, <1>2, <2>1, <2>2, Counts DEF Copy, Limit
  <2>4. QED  BY <1>1, <1>2, <2>1, <2>3 DEF Copy
<1>5. QED  BY <1>3, <1>4 DEF CopyInv

(* The invariant holds at first and is kept by every step.                 *)
LEMMA Inductive == Spec => []IInv
<1>1. Init => IInv
  <2> SUFFICES ASSUME Init PROVE IInv
    OBVIOUS
  <2>1. TypeOK /\ LockInv /\ CopyInv
    BY InitTypes DEF Init, LockInv, CopyInv, Copy
  <2>2. Covered /\ AddressInv
    BY DEF Init, Covered, AddressInv, NoEntries, NoEntry, Blank
  <2>3. QED  BY <2>1, <2>2 DEF IInv
<1>2. IInv /\ [Next]_vars => IInv'
  <2> SUFFICES ASSUME IInv, [Next]_vars PROVE IInv'
    OBVIOUS
  <2>1. TypeOK' /\ LockInv'
    BY TypeStep, LockStep DEF IInv
  <2>2. CASE UNCHANGED vars
    BY <2>1, <2>2 DEF vars, outside, IInv, Covered, CopyInv, Copy, AddressInv
  <2>3. CASE Next
    <3>1. Covered' /\ CopyInv' /\ AddressInv'
      BY <2>3, ApproveStep, BeginStep, ConnectedStep, SkipStep, AttemptStep, SendStep,
         ReplyStep, LeaveStep, OutsideStep DEF Next, Step, Consider
    <3>2. QED  BY <2>1, <3>1 DEF IInv
  <2>4. QED  BY <2>2, <2>3
<1>3. QED  BY <1>1, <1>2, PTL DEF Spec

(* However often passes are killed and started, and however many run, an   *)
(* absent peer is asked at most three times between two connections or     *)
(* approvals.                                                              *)
THEOREM BudgetHolds == Spec => []ConnectBudget
<1>1. IInv => ConnectBudget
  <2> SUFFICES ASSUME IInv, NEW p \in Peers PROVE asked[p] =< Limit
    BY DEF ConnectBudget
  <2>1. TypeOK /\ asked[p] =< file[p].attempts
    BY DEF IInv, Covered
  <2>2. QED  BY <2>1, Counts DEF Limit
<1>2. QED  BY <1>1, Inductive, PTL

(* The file and every request carry the address approved last.             *)
THEOREM AddressHolds == Spec => []ApprovedAddressOnly
<1>1. IInv => ApprovedAddressOnly
  BY DEF IInv, AddressInv, CopyInv, Copy, ApprovedAddressOnly
<1>2. QED  BY <1>1, Inductive, PTL

=============================================================================
