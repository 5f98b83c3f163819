SPECIFICATION SetSpec
CONSTANTS
  Savers = {"s1", "s2"}
  MaxSaves = 3
INVARIANT KeyStaysOffDisk
