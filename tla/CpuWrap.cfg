\* The list is current; the sum of the cpus wraps.
CONSTANTS
  n1 = n1
  n2 = n2
  vm1 = vm1
  vm2 = vm2
  Nodes = {n1}
  NoNode = NoNode
  VMs = {vm1, vm2}
  NoVM = NoVM
  CPUHalf <- Narrow
  Allocatable <- Tight
  SpecsOf <- ContendingSpecs
  CacheLags = FALSE
  MaxEdits = 0
  MaxFaults = 0
SPECIFICATION Spec
INVARIANT CapacityRespected
