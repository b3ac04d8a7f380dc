\* The list of the scheduler misses a binding.
CONSTANTS
  n1 = n1
  n2 = n2
  vm1 = vm1
  vm2 = vm2
  Nodes = {n1}
  NoNode = NoNode
  VMs = {vm1, vm2}
  NoVM = NoVM
  CPUHalf <- Wide
  Allocatable <- Tight
  SpecsOf <- ContendingSpecs
  CacheLags = TRUE
  MaxEdits = 0
  MaxFaults = 0
SPECIFICATION Spec
INVARIANT HostPortsExclusive
