\* Two sectors of three pages: the log wraps around after six records.
SPECIFICATION LogSpec
CONSTANTS
  Sectors = 2
  PerSector = 3
  MaxStamp = 7
  MaxBoots = 3
  Blank = Blank
  Garbled = Garbled
  Torn = Torn
INVARIANTS LogTypeOK RecentRecordsInPlace
PROPERTY DamageConfined
CHECK_DEADLOCK FALSE
