\* The second object is created while a pass over the first is under way.
CONSTANTS
  n1 = n1
  vm1 = vm1
  vm2 = vm2
  Nodes = {n1}
  NoNode = NoNode
  VMs = {vm1, vm2}
  NoVM = NoVM
  First = vm1
  Second = vm2
  CPUHalf <- Wide
  Allocatable <- Unreported
  SpecsOf <- OneSpec
  CacheLags = TRUE
  MaxEdits = 0
  MaxFaults = 1
SPECIFICATION ReuseSpec
INVARIANT MachineNameOwned
