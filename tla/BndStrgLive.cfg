SPECIFICATION LiveSpec
CONSTANTS
  c1 = c1  c2 = c2  c3 = c3
  ADDRS = {c1}
  HASH <- Buckets2
  MAX_TABLE_SIZE = 1
  FRAMES <- MixedFrames
  PARAMS <- Defaults
  PARAM_CHANGES <- MoreConditions
  DBDC = FALSE
  BACKLOG <- KindsOfAddition
  DOWNS = {}
  DELS = {}
  JOINS = {}
  SIGTERM = FALSE
  NL_MAX = 2
  INPUT_MAX = 2
  AUTH_WRAP = 2
PROPERTIES NewClientServed SteeringStarts
CHECK_DEADLOCK FALSE
