SPECIFICATION Spec
CONSTANTS
  Writers = {w1}
  Readers = {r1, r2}
  Inodes = {i1, i2, i3, i4}
  None = None
  MaxSaves = 3
  Blocks <- TwoOneTwo
INVARIANTS
  TypeOK
  StoredIsReadable
  SavedIsKept
PROPERTIES
  ImplementsAtomicStore
