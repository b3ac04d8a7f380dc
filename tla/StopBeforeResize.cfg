\* A stop and a disk growth in one update.
CONSTANTS
  n1 = n1
  n2 = n2
  vm1 = vm1
  vm2 = vm2
  Nodes = {n1}
  NoNode = NoNode
  VMs = {vm1}
  NoVM = NoVM
  CPUHalf <- Wide
  Allocatable <- Unreported
  SpecsOf <- LifecycleSpecs
  CacheLags = FALSE
  MaxEdits = 1
  MaxFaults = 0
SPECIFICATION FairSpec
PROPERTY StopHonoured
