SPECIFICATION FairSpec
CONSTANTS
  None = None
  Call = {c1, c2, c3}
  Reader = {r1}
  Retries = 1
INVARIANTS TypeOK CopyIsCurrent
PROPERTIES ReadsAreMonotonic ImplementsAtomicStore LockIsFreed
