SPECIFICATION Spec
CONSTANTS
  QuietPeriod = 2
  ReAuthMax = 1
  TxPeriod = 2
  SuppTimeout = 2
  ServerTimeout = 2
  MaxReq = 2
  ReAuthPeriod = 3
  SessionTimeouts = {0, 1, 7}
  SessionTimeoutSet = FALSE
  IntMax = 3
PROPERTIES StateOnlyInReply
