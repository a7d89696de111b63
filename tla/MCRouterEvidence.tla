---------------------------- MODULE MCRouterEvidence ----------------------------
\* RouterEvidence with the address recovery alone.
EXTENDS RouterEvidence

AddressSpec ==
  EvidenceInit /\ [][CheckStep \/ EvidenceStep("address")]_evVars
=============================================================================
