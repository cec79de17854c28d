SPECIFICATION LiveSpec
CHECK_DEADLOCK FALSE
CONSTANTS
  APS = {"A", "B"}
  STAS = {"s1"}
  HASH <- OwnBucket
  MAX_NUM_OF_CLIENT = 1
  IFS = {0}
  UNHOOKED = {}
  OLDAP_KNOWN = TRUE
  MOVES = 2
  LOSSES = 1
  LEAVES = 1
  RESTARTS = 0
  INFOS = 0
  OVER_DS = 1
PROPERTIES
  KeyArrives
