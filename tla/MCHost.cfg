\* The host's machines, one of them at a time.
CONSTANTS
  Configs = {"c1", "c2"}
  Outages = {"syncing"}
  HeartbeatMax = 1
  FreshMax = 2
  Threshold = 2
  ProbeTimeout = 4
  Interval = 1
  MaxAge = 2
  MaxClock = 3
  MaxChanges = 3
  None = None
  Channels = {1, 2}
  P1 = P1
  P2 = P2
  PeerOf <- MCPeerOf
  Ours = {1}
  Balances = {12, 40}
  Unknown = Unknown
  Ages <- MCAges
  Counts = {0, 5, 20}
  Baselines = {0, 2, 3}
  Absent = Absent
  MaxDetours = 1
  Nothing = Nothing
  c1 = c1
  c2 = c2
  c3 = c3
  Calls = {c1, c2, c3}
  Cooldown = 2
  MaxTime = 5
  MaxWallets = 2
  Missing = Missing
SPECIFICATION Spec
INVARIANTS
  StartBudget
  ReadyIsRecent
  RebootIsReal
  AddressCheckIsNew
  AssessIsRight
  DiagnosisIsRight
  HandoverSafe
  CooldownHoldsInTurn
  RestartsAreAudited
  OneLiveCopy
PROPERTIES
  StartsSpaced
  MonitorReports
  HandoverEnds
CHECK_DEADLOCK FALSE
