CONSTANTS
  Digits = {0, 1, 2, 6, 8}
  Point = point
  Other = other
  UCharSize = 256
  MaxLength = 4
SPECIFICATION Spec
INVARIANTS
  ReadsValue
