\* The controller under fairness, with and without cleanup; one failure, one edit.
CONSTANTS
  n1 = n1
  n2 = n2
  vm1 = vm1
  Nodes = {n1}
  NoNode = NoNode
  VMs = {vm1}
  NoVM = NoVM
  CPUHalf <- Wide
  Allocatable <- Unreported
  SpecsOf <- CleanupSpecs
  CacheLags = FALSE
  MaxEdits = 1
  MaxFaults = 1
SPECIFICATION MCCleanupSpec
INVARIANT PassStaysTrue
PROPERTIES SparesBound OrphansGo Converges DeletionCompletes
