SPECIFICATION Spec
CONSTANTS
  a = a
  b = b
  r1 = r1
  r2 = r2
  p1 = p1
  p2 = p2
  Procs = {a, b}
  Requests = {r1, r2}
  Peers = {p1, p2}
  Openers = {}
  PeerOf <- MCPeerOf
  Caps = {1, 2}
  NoRequest = NoRequest
SYMMETRY MCSymmetry
INVARIANTS
  TypeOK
  OneFundingAtATime
  VerdictHasEvidence
  SentIsAccountedFor
  TotalCapHolds
PROPERTIES
  VerdictIsFinal
  ImplementsSingleFlight
