SPECIFICATION Spec
CONSTANTS
  None = None
  Proc = {p1, p2}
  Invoice = {i1}
  MaxTime = 3
  Grain = 1
  Epoch = 0
  MaxRange = 2
  MinWindow = 1
  Job <- PairedJobs
INVARIANTS RecordedIsOnDisk RunsCover
PROPERTIES ImplementsFeed
SYMMETRY PairSymmetry
