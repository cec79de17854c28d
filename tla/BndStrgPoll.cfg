SPECIFICATION LiveSpec
CONSTANTS
  c1 = c1  c2 = c2  c3 = c3
  ADDRS = {c1}
  HASH <- Buckets2
  MAX_TABLE_SIZE = 1
  FRAMES <- NoFrames
  PARAMS <- QuickAging
  PARAM_CHANGES <- Changes
  DBDC = FALSE
  BACKLOG <- KindsOfAddition
  DOWNS = {"2G", "5G"}
  DELS = {}
  JOINS = {c1}
  SIGTERM = TRUE
  NL_MAX = 2
  INPUT_MAX = 2
  AUTH_WRAP = 256
PROPERTY PollingEnds
CHECK_DEADLOCK FALSE
