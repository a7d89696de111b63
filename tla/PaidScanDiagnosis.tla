--------------------------- MODULE PaidScanDiagnosis ---------------------------
(***************************************************************************)
(* The read-only diagnosis of paid scans, agent/paid_scan_diagnostics.py:  *)
(* where a paid order stopped (diagnose over project's facts) and whether  *)
(* the L402 gate sells (funnel_status over the counters of Prometheus).    *)
(* The server's records and the counters move on their own, one part at a  *)
(* time, into any combination a backend that lost a step can leave.        *)
(*                                                                         *)
(* Abstractions.  A malformed answer is an answer that is not "ok"; the    *)
(* optional reasons, names and ages it carries along are left out.  Values *)
(* no branch tells apart are one.  Of the funnel, the count per reason and *)
(* the component behind a failed probe are left out.                       *)
(***************************************************************************)
EXTENDS Integers

CONSTANTS
  Ages,      \* of an observation, in seconds: now - observed_at
  Counts,    \* of rejected tokens in a window
  Baselines, \* their mean over 15 minutes
  Absent

ASSUME DiagnosisAssumption ==
  /\ Ages \subseteq Int /\ Counts \cup Baselines \subseteq Nat
  /\ Absent \notin {"issued", "settled", "pending", "committed", "queued", "running",
                    "completed", "failed", "cancelled", "registered", "dispatched", "blocked"}

VARIABLES
  answer,  \* the order service's answer
  gate     \* Prometheus' answers to the funnel queries

dgVars == <<answer, gate>>

AnswerParts ==
  [served    |-> {"ok", "access_denied"},
   age       |-> Ages,
   order     |-> {"awaiting_payment", "paid", "expired"},
   challenge |-> {Absent, "issued", "settled"},
   event     |-> BOOLEAN,
   commit    |-> {Absent, "pending", "committed"},
   scan      |-> {Absent, "queued", "running", "completed", "failed", "cancelled"},
   result    |-> BOOLEAN,
   dispatch  |-> {Absent, "pending", "registered", "dispatched", "blocked"}]

GateParts ==
  [queries    |-> {"answered", "failed"},
   up         |-> 0..1,
   issued     |-> 0..1,
   presented  |-> 0..1,  \* tokens accepted, or found unsettled
   lookup     |-> 0..1,
   tokenless  |-> 0..2,
   mintFailed |-> 0..1,
   rejected   |-> Counts,
   baseline   |-> Baselines,
   fastBurn   |-> SUBSET {"1h", "5m"}]  \* windows that burn the budget fast

DiagnosisInit ==
  /\ answer = [served |-> "ok", age |-> 0, order |-> "awaiting_payment", challenge |-> Absent,
               event |-> FALSE, commit |-> Absent, scan |-> Absent, result |-> FALSE,
               dispatch |-> Absent]
  /\ gate = [queries |-> "answered", up |-> 1, issued |-> 0, presented |-> 0,
             lookup |-> 0, tokenless |-> 0, mintFailed |-> 0, rejected |-> 0, baseline |-> 0,
             fastBurn |-> {}]

-----------------------------------------------------------------------------
(* diagnose *)

\* project: why the answer is no evidence, or "facts".
Projected ==
  IF answer.served # "ok" THEN answer.served
  ELSE IF answer.age < -5 \/ answer.age > 30 THEN "stale_or_future_observation"
  ELSE "facts"

\* result_available_at is a column of the scan.
ResultRecorded == answer.scan # Absent /\ answer.result

\* Mutant: an unpaid order is never looked at further.
StagesPaymentFirst ==
  << <<answer.order # "paid", "payment">>,
     <<~answer.event \/ (ResultRecorded /\ answer.scan # "completed"), "inconsistent_records">>,
     <<answer.commit = "pending" \/ answer.challenge \notin {Absent, "settled"},
         "payment_records_need_review">>,
     <<answer.scan = Absent, "scan_creation">>,
     <<answer.scan \in {"failed", "cancelled"}, "scan_terminal_without_result">>,
     <<answer.scan = "completed" /\ ResultRecorded, "result_recorded">>,
     <<answer.scan = "completed", "result_persistence">>,
     <<answer.scan = "running", "scan_running">>,
     <<answer.dispatch = "registered", "dispatch_registration">>,
     <<answer.dispatch = "dispatched", "worker_start">>,
     <<TRUE, "dispatch">> >>

\* The branches of diagnose, in their order.
Stages ==
  << <<(answer.order = "paid" /\ ~answer.event) \/
         (ResultRecorded /\ answer.scan # "completed"), "inconsistent_records">>,
     <<answer.order # "paid", "payment">>,
     <<answer.commit = "pending" \/ answer.challenge \notin {Absent, "settled"},
         "payment_records_need_review">>,
     <<answer.scan = Absent, "scan_creation">>,
     <<answer.scan \in {"failed", "cancelled"}, "scan_terminal_without_result">>,
     <<answer.scan = "completed" /\ ResultRecorded, "result_recorded">>,
     <<answer.scan = "completed", "result_persistence">>,
     <<answer.scan = "running", "scan_running">>,
     <<answer.dispatch = "registered", "dispatch_registration">>,
     <<answer.dispatch = "dispatched", "worker_start">>,
     <<TRUE, "dispatch">> >>

FirstOf(branches) ==
  LET bs == branches
      i  == CHOOSE n \in DOMAIN bs : bs[n][1] /\ \A m \in 1..n - 1 : ~bs[m][1]
  IN bs[i][2]

Escalation(stage) ==
  CASE stage = "worker_start"                 -> "inconsistent_dispatch_state"
    [] stage = "scan_terminal_without_result" -> "customer_remediation"
    [] stage = "inconsistent_records"         -> "inconsistent_records"
    [] stage = "payment_records_need_review"  -> "payment_records_review"
    [] OTHER                                  -> Absent

Diagnose ==
  IF Projected # "facts"
  THEN [status |-> "unknown", stage |-> Projected, escalation |-> Absent]
  ELSE LET stage == FirstOf(Stages) IN
       [status |-> "observed", stage |-> stage, escalation |-> Escalation(stage)]

-----------------------------------------------------------------------------
(* funnel_status *)

NoInvoiceMin   == 2
SecurityMin    == 20
SecurityFactor == 10

Signals ==
  {s \in {"mint_failed", "secret_store_error", "probe_fast_burn", "requests_without_invoice"} :
     \/ s = "mint_failed" /\ gate.mintFailed > 0
     \/ s = "secret_store_error" /\ gate.lookup > 0
     \/ s = "probe_fast_burn" /\ gate.fastBurn = {"1h", "5m"}
     \/ /\ s = "requests_without_invoice" /\ gate.tokenless >= NoInvoiceMin
        /\ gate.issued = 0 /\ gate.mintFailed = 0}

Security ==
  IF gate.rejected = 0 THEN "none"
  ELSE IF /\ gate.rejected >= SecurityMin
          /\ gate.baseline = 0 \/ gate.rejected >= SecurityFactor * gate.baseline
       THEN "elevated" ELSE "present"

Traffic == gate.issued + gate.presented + gate.rejected

\* A failed query, or no scraped Aperture, is no verdict.
Scraped == gate.queries = "answered" /\ gate.up >= 1

Verdict ==
  IF ~Scraped THEN "unknown"
  ELSE IF Signals # {} THEN "incident"
  ELSE IF Traffic + gate.tokenless = 0 THEN "no_l402_traffic"
  ELSE IF gate.tokenless = 1 /\ Traffic = 0 THEN "inconclusive"
  ELSE "healthy"

-----------------------------------------------------------------------------
OrderMoves ==
  /\ \E p \in DOMAIN AnswerParts : \E v \in AnswerParts[p] : answer' = [answer EXCEPT ![p] = v]
  /\ UNCHANGED gate

GateMoves ==
  /\ \E p \in DOMAIN GateParts : \E v \in GateParts[p] : gate' = [gate EXCEPT ![p] = v]
  /\ UNCHANGED answer

DiagnosisNext == OrderMoves \/ GateMoves

DiagnosisSpec == DiagnosisInit /\ [][DiagnosisNext]_dgVars

-----------------------------------------------------------------------------
(* What each stage promises of the order: the cause column of section 4 of *)
(* docs/playbooks/opencti-paid-order-stuck.md.                             *)
Sound == /\ answer.event /\ answer.commit # "pending"
         /\ answer.challenge \in {Absent, "settled"}
         /\ ResultRecorded => answer.scan = "completed"

Cause(stage) ==
  CASE stage = "payment" -> answer.order # "paid"
    [] stage = "payment_records_need_review" ->
         /\ answer.order = "paid" /\ answer.event
         /\ answer.commit = "pending" \/ answer.challenge = "issued"
    [] stage = "inconsistent_records" ->
         (answer.order = "paid" /\ ~answer.event) \/ (ResultRecorded /\ answer.scan # "completed")
    [] OTHER ->
         /\ answer.order = "paid" /\ Sound
         /\ answer.scan = CASE stage = "scan_creation" -> Absent
                            [] stage = "scan_running" -> "running"
                            [] stage \in {"result_recorded", "result_persistence"} -> "completed"
                            [] stage = "scan_terminal_without_result" -> answer.scan
                            [] OTHER -> "queued"
         /\ stage = "result_recorded" => answer.result
         /\ stage = "result_persistence" => ~answer.result
         /\ stage = "scan_terminal_without_result" => answer.scan \in {"failed", "cancelled"}
         /\ stage = "worker_start" <=> (answer.scan = "queued" /\ answer.dispatch = "dispatched")

(* The stage named is the one whose cause the records show, records that   *)
(* contradict each other are escalated whatever else is wrong with the     *)
(* order, and no evidence older than 30 seconds gets a stage; a gate that  *)
(* fails a paying customer is an incident however much of it works, a gate *)
(* called healthy has seen traffic and none of its faults, and rejected    *)
(* tokens alone are never an incident.                                     *)
DiagnosisIsRight ==
  LET d == Diagnose
      v == Verdict IN
  /\ d.status = "observed" => answer.served = "ok" /\ answer.age \in -5..30 /\ Cause(d.stage)
  /\ d.status = "observed" /\ Cause("inconsistent_records")
       => d.escalation = "inconsistent_records"
  /\ v = "healthy" =>
       /\ gate.mintFailed = 0 /\ gate.lookup = 0 /\ gate.up = 1
       /\ gate.tokenless >= 2 => gate.issued > 0
       /\ gate.tokenless + Traffic > 0
  /\ (v # "unknown" /\ gate.mintFailed + gate.lookup > 0) => v = "incident"
  /\ v = "incident" /\ gate.tokenless < 2 /\ "1h" \notin gate.fastBurn => gate.mintFailed + gate.lookup > 0
  /\ Security = "elevated" => gate.rejected >= 20
=============================================================================
