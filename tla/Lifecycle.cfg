\* One object, two nodes, a lagging cache, users; failures or updates.
CONSTANTS
  n1 = n1
  n2 = n2
  vm1 = vm1
  vm2 = vm2
  Nodes = {n1, n2}
  NoNode = NoNode
  VMs = {vm1}
  NoVM = NoVM
  CPUHalf <- Wide
  Allocatable <- Unreported
  SpecsOf <- AllSpecs
  CacheLags = TRUE
  MaxEdits = 3
  MaxFaults = 1
SPECIFICATION MCSpec
INVARIANTS TypeOK CleanRelease SoleOwner IInv UnattendedIsExplained
PROPERTIES CreateUnderFinalizer ImplementsLifecycle
