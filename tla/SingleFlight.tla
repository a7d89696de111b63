----------------------------- MODULE SingleFlight -----------------------------
(***************************************************************************)
(* What every journaled operation of the router tooling promises: an       *)
(* attempt is written down before it is sent, at most one attempt is       *)
(* undecided at a time, an attempt is sent at most once, and the verdict   *)
(* that is written down later is what really happened.  A lost answer is   *)
(* no verdict.                                                             *)
(***************************************************************************)

CONSTANT Attempts

VARIABLES
  ledger,   \* what the operator's records say of each attempt
  fate      \* what really became of it, on the other side of the RPC

vars == <<ledger, fate>>

Outcomes == {"done", "refused"}

Init ==
  /\ ledger \in [Attempts -> {"none", "open"}]
  /\ fate \in [Attempts -> {"unsent", "refused"}]
  /\ \A a \in Attempts : ledger[a] = "none" => fate[a] = "unsent"
  /\ \A a, b \in Attempts : ledger[a] = "open" /\ ledger[b] = "open" => a = b

(* The attempt is recorded, with every earlier one decided. *)
Intend(a) ==
  /\ ledger[a] = "none"
  /\ \A b \in Attempts : ledger[b] # "open"
  /\ ledger' = [ledger EXCEPT ![a] = "open"]
  /\ UNCHANGED fate

Send(a) ==
  /\ ledger[a] = "open"
  /\ fate[a] = "unsent"
  /\ fate' = [fate EXCEPT ![a] = "live"]
  /\ UNCHANGED ledger

(* The other side decides, whether or not anybody hears of it. *)
Settle(a) ==
  /\ fate[a] = "live"
  /\ \E o \in Outcomes : fate' = [fate EXCEPT ![a] = o]
  /\ UNCHANGED ledger

Learn(a) ==
  /\ ledger[a] = "open"
  /\ fate[a] \in Outcomes
  /\ ledger' = [ledger EXCEPT ![a] = fate[a]]
  /\ UNCHANGED fate

Next == \E a \in Attempts : Intend(a) \/ Send(a) \/ Settle(a) \/ Learn(a)

Spec == Init /\ [][Next]_vars

-----------------------------------------------------------------------------

(* At most one attempt can still take effect. *)
AtMostOneLive ==
  \A a, b \in Attempts : fate[a] = "live" /\ fate[b] = "live" => a = b

(* A recorded verdict is the truth. *)
VerdictsAreTrue ==
  \A a \in Attempts : ledger[a] \in Outcomes => fate[a] = ledger[a]

=============================================================================
