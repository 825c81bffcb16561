CONSTANTS
  Byte <- Bits
  Zero = 0
  MinRealloc = 2
  Endianness <- OneOrder
  MaxSize = 4
  MaxSeeks = 2
SPECIFICATION Spec
INVARIANTS StreamTypeOK SeeksInStream
PROPERTIES SeeksReturn ImplementsFile
