SPECIFICATION TableSpec
CHECK_DEADLOCK FALSE
CONSTANTS
  STAS = {"s1", "s2", "s3", "s4"}
  HASH <- TwoBuckets
  MAX_NUM_OF_CLIENT = 3
  INTERFACES = {0}
INVARIANTS
  SizeCountsUsed
  StationsFound
