SPECIFICATION LiveSpec
CONSTANTS
  STAS = {"a1", "a2", "a3"}
  HASH <- MC_HASH
  BLOCKS = {1, 2, 3}
  MAX_STA_COUNT = 2
  BSS = {"ra0", "ra1"}
  FDS = 4
  INTERVAL = 0
  GRANTS <- MC_GRANTS_EDGE
  MAX_TIMEOUT = 3
  SIGNALS = "select"
  ACCEPTS = 2
INVARIANTS
  TypeOK
  TableConsistent
  OneTickEach
  TimeoutsSorted
  OneSessionTimer
PROPERTIES
  SessionEnds
