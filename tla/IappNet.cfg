SPECIFICATION Spec
CHECK_DEADLOCK FALSE
SYMMETRY ApSymmetry
CONSTANTS
  APS = {A, B}
  STAS = {"s1"}
  HASH <- OwnBucket
  MAX_NUM_OF_CLIENT = 2
  IFS = {0, 1}
  UNHOOKED = {2}
  OLDAP_KNOWN = TRUE
  MOVES = 2
  LOSSES = 0
  LEAVES = 1
  RESTARTS = 1
  INFOS = 1
  OVER_DS = 0
INVARIANTS
  TypeOK
  TableCoversDriver
  OneHome
