SPECIFICATION LiveSpec
CONSTANTS
  a = a
  x = x
  Procs = {a}
  Peers = {1, 2}
  Addresses = {x}
  MaxApprovals = 2
  None = None
INVARIANTS
  TypeOK
  ConnectBudget
  ApprovedAddressOnly
PROPERTIES
  AbsenceIsReviewed
