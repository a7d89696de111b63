SPECIFICATION LiveSpec
CONSTANTS
  a = a
  b = b
  r1 = r1
  r2 = r2
  p1 = p1
  p2 = p2
  Procs = {a}
  Requests = {r1, r2}
  Peers = {p1, p2}
  Openers = {p1}
  PeerOf <- MCPeerOf
  Caps = {1, 2}
  NoRequest = NoRequest
PROPERTIES
  OpenChannelIsRecorded
