SPECIFICATION Spec
CONSTANTS
  Writers = {w1, w2}
  Readers = {r1}
  Inodes = {i1, i2, i3}
  None = None
  MaxSaves = 2
  Blocks <- TwoOneTwo
INVARIANTS
  StoredIsReadable
