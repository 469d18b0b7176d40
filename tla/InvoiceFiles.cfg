SPECIFICATION Spec
CONSTANTS
  None = None
  Month = Month
  b1 = b1
  Proc = {p1, p2}
  Invoice = {i1, i2}
  BaseName = {b1}
  Base <- SameName
  Overlong = {}
  Unpaid = {i1, i2}
  MaxJobs = 3
INVARIANTS NothingIsLost NoDuplicates PdfIsOfItsXml
PROPERTIES FirstNameStays
CHECK_DEADLOCK FALSE
SYMMETRY Symmetry
