SPECIFICATION Spec
CONSTANTS
  Bufs = {b1, b2}
  Byte = {"nul", "x", "y"}
  Nul = "nul"
  cheap_prepend = 1
  initial_size = 1
  ExtraBuf = 2
  Strings <- MCStrings
  MaxBytes = 2
SYMMETRY Interchangeable
INVARIANT TypeOK
PROPERTIES ImplementsByteQueue GrowsOnlyWhenFull
