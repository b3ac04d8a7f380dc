\* Two managers, two nodes: both schedule.
CONSTANTS
  n1 = n1
  n2 = n2
  vm1 = vm1
  Nodes = {n1, n2}
  NoNode = NoNode
  VMs = {vm1}
  NoVM = NoVM
  CPUHalf <- Wide
  Allocatable <- Unreported
  SpecsOf <- StoppedSpec
  CacheLags = FALSE
  MaxEdits = 0
  MaxFaults = 0
SPECIFICATION ManagersSpec
INVARIANT NoDuplicateMachines
