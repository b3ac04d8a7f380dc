\* A stale read of the binding.
CONSTANTS
  n1 = n1
  n2 = n2
  vm1 = vm1
  vm2 = vm2
  Nodes = {n1, n2}
  NoNode = NoNode
  VMs = {vm1}
  NoVM = NoVM
  CPUHalf <- Wide
  Allocatable <- Unreported
  SpecsOf <- LifecycleSpecs
  CacheLags = TRUE
  MaxEdits = 0
  MaxFaults = 0
SPECIFICATION Spec
PROPERTY BindingImmutable
