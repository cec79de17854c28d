SPECIFICATION Spec
CONSTANTS
  c1 = c1  c2 = c2  c3 = c3
  ADDRS = {c1, c2, c3}
  HASH <- Buckets2
  MAX_TABLE_SIZE = 2
  FRAMES <- OneFrame
  PARAMS <- QuickAging
  PARAM_CHANGES <- NoChanges
  DBDC = TRUE
  BACKLOG <- KindsWhenOn
  DOWNS = {}
  DELS = {c1}
  JOINS = {}
  SIGTERM = FALSE
  NL_MAX = 4
  INPUT_MAX = 2
  AUTH_WRAP = 256
INVARIANTS TypeOK SizeCountsValid ChainsIndexTable
PROPERTY DeleteFindsEntry
CHECK_DEADLOCK FALSE
