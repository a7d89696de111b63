\* A regtest that is made anew once.
CONSTANTS
  MaxWallets = 2
  Missing = Missing
SPECIFICATION DrillSpec
INVARIANTS
  AbortResumes
CHECK_DEADLOCK FALSE
