\* One node, two addresses, two failures, under fairness.
CONSTANTS
  n1 = n1
  n2 = n2
  ip1 = ip1
  ip2 = ip2
  amd64 = amd64
  arm64 = arm64
  Nodes = {n1}
  IPs = {ip1, ip2}
  Labels = {amd64}
  NoIP = NoIP
  NoLabels = NoLabels
  Stale = 0
  QuickReuse = TRUE
  MaxFaults = 2
SPECIFICATION FairSpec
INVARIANTS AgentInv FreshlyHealthy
PROPERTY ViewConverges
