--------------------------------- MODULE MCHost ---------------------------------
(***************************************************************************)
(* The machines around the Router that share no state with each other,     *)
(* checked in one run: each behaviour chooses one of them (focus) and the  *)
(* others stand still.  A product of them would only multiply states.      *)
(***************************************************************************)
EXTENDS RouterVM, RouterMonitor, RouterEvidence, RouterReadiness,
        PaidScanDiagnosis, FluxHandover, RunbookGateway, RegtestDrill

CONSTANTS P1, P2, c1, c2, c3
MCPeerOf == <<P1, P2>>
MCAges   == {-6, 0, 31}

MaxAddressChanges == 2  \* bound: changes where the address recovery runs

VARIABLE focus

vars == <<focus, vmVars, monVars, evVars, rdVars, dgVars, fxVars, gwVars, drillVars>>

Init ==
  /\ focus \in {"vm", "monitor", "host", "address", "readiness", "order", "gate", "flux",
                "gateway", "drill"}
  /\ VMInit /\ MonitorInit /\ EvidenceInit /\ ReadinessInit /\ DiagnosisInit /\ FluxInit
  /\ GatewayInit /\ DrillInit
  /\ focus # "vm" => vm = "Stopped" /\ config = "c1"
  /\ focus # "monitor" => node = "ready"
  /\ focus # "readiness" => info = {}

\* Only the machine of focus f moves.
InVM(A)        == focus = "vm" /\ A /\
  UNCHANGED <<focus, monVars, evVars, rdVars, dgVars, fxVars, gwVars, drillVars>>
InMonitor(A)   == focus = "monitor" /\ A /\
  UNCHANGED <<focus, vmVars, evVars, rdVars, dgVars, fxVars, gwVars, drillVars>>
InEvidence(A)  == A /\
  UNCHANGED <<focus, vmVars, monVars, rdVars, dgVars, fxVars, gwVars, drillVars>>
InReadiness(A) == focus = "readiness" /\ A /\
  UNCHANGED <<focus, vmVars, monVars, evVars, dgVars, fxVars, gwVars, drillVars>>
InDiagnosis(A) == A /\
  UNCHANGED <<focus, vmVars, monVars, evVars, rdVars, fxVars, gwVars, drillVars>>
InFlux(A)      == focus = "flux" /\ A /\
  UNCHANGED <<focus, vmVars, monVars, evVars, rdVars, dgVars, gwVars, drillVars>>
InGateway(A)   == focus = "gateway" /\ A /\
  UNCHANGED <<focus, vmVars, monVars, evVars, rdVars, dgVars, fxVars, drillVars>>
InDrill(A)     == focus = "drill" /\ A /\
  UNCHANGED <<focus, vmVars, monVars, evVars, rdVars, dgVars, fxVars, gwVars>>

Next ==
  \/ InVM(VMNext)
  \/ InMonitor(MonitorNext)
  \/ InEvidence(focus = "host" /\ EvidenceStep("host"))
  \/ InEvidence(/\ focus = "address"
                /\ CheckStep \/ EvidenceStep("address")
                /\ Cardinality(changes') <= MaxAddressChanges)
  \/ InReadiness(ReadinessNext)
  \/ InDiagnosis(focus = "order" /\ OrderMoves)
  \/ InDiagnosis(focus = "gate" /\ GateMoves)
  \/ InFlux(FluxNext)
  \/ InGateway(GatewayNext)
  \/ InDrill(DrillNext)

\* MonitorFairness and FluxFairness, each for its own machine.
Fairness ==
  /\ WF_vars(InMonitor(MonitorLoop)) /\ WF_vars(InMonitor(ClockTicks))
  /\ WF_vars(InFlux(LeadsOn))
  /\ WF_vars(InFlux(Fetches)) /\ WF_vars(InFlux(Applies))
  /\ WF_vars(InFlux(AttemptsProbe)) /\ WF_vars(InFlux(AttemptsLnd))

Spec == Init /\ [][Next]_vars /\ Fairness

\* OutageReported and AdoptionCompletes speak of a machine that runs.
MonitorReports == focus = "monitor" => OutageReported
HandoverEnds   == focus = "flux" => AdoptionCompletes
=============================================================================
