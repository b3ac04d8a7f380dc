\* Two objects compete for two nodes; stale lists, wrapped sums, one update.
CONSTANTS
  n1 = n1
  n2 = n2
  vm1 = vm1
  vm2 = vm2
  Nodes = {n1, n2}
  NoNode = NoNode
  VMs = {vm1, vm2}
  NoVM = NoVM
  CPUHalf <- Narrow
  Allocatable <- Tight
  SpecsOf <- ContendingSpecs
  CacheLags = TRUE
  MaxEdits = 1
  MaxFaults = 0
SPECIFICATION MCPlacementSpec
INVARIANTS VettedPortsExclusive VettedFits
SYMMETRY NodeSymmetry
