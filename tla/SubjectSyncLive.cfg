SPECIFICATION FairSpec
CONSTANTS
  None = None
  Proc = {p1}
  Invoice = {i1, i2}
  MaxTime = 4
  Grain = 1
  Epoch = 0
  MaxRange = 2
  MinWindow = 2
  Job <- FlooredJobs
PROPERTIES EventuallyStored
