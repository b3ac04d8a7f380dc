\* Two nodes, pods that change addresses; one is kept back while a pass uses it.
CONSTANTS
  n1 = n1
  n2 = n2
  ip1 = ip1
  ip2 = ip2
  amd64 = amd64
  arm64 = arm64
  Nodes = {n1, n2}
  IPs = {ip1, ip2}
  Labels = {amd64}
  NoIP = NoIP
  NoLabels = NoLabels
  Stale = 0
  QuickReuse = FALSE
  MaxFaults = 1
SPECIFICATION Spec
INVARIANT ReleasedIsClean
SYMMETRY Symmetry
