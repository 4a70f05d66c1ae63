CONSTANTS
  FileSizes = {0, 1, 2, 5, 8}
  Offsets = {0, 1, 2, 3, 4, 5, 6, 8, 9, 10}
  Lengths = {0, 2, 3}
  Granularity = 2
  AddressSpace = 8
  MaxHandles = 6
SPECIFICATION MappedSpec
INVARIANTS
  HandlesAccountedFor
  ViewInFile
