CONSTANTS
  SizeMod = 12
  Capacity = 3
  Byte = {0, 1}
  Junk = 9
  MaxPayload = 4
  ReadSizes = {1, 2, 4}
SPECIFICATION Spec
INVARIANTS TypeOK CopiesInside
PROPERTY ImplementsFifo
