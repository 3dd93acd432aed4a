SPECIFICATION Spec
CONSTANTS
  Clients = {c1, c2}
  Contents = {a, b, long}
  long = long
  Size <- MCSize
  MaxLate = 1
SYMMETRY Symmetry
INVARIANTS
  OkIsReadable
  BlobInv
