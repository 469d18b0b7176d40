SPECIFICATION FairSpec
CONSTANTS
  None = None
  i1 = i1
  i2 = i2
  p1 = p1
  p2 = p2
  Nips = 2
  Invoice = {i1, i2}
  Owner <- OwnerOfEach
  Profile = {p1, p2}
  Route <- AccountOfEach
  Slot = {s1}
  MaxConcurrent = 1
  CatchUp = TRUE
  Mac = TRUE
PROPERTIES AlertedInTheEnd SomebodyWasTold
