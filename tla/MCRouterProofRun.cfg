SPECIFICATION LiveSpec
CONSTANTS
  a = a
  b = b
  r1 = r1
  r2 = r2
  e1 = e1
  e2 = e2
  Procs = {a, b}
  Requests = {r1, r2}
  Ends = {e1, e2}
  MaxRoute = 1
  None = None
INVARIANTS
  TypeOK
  OnePaymentAtATime
  EvidenceIsReal
PROPERTIES
  ImplementsSingleFlight
  ResumeDecides
