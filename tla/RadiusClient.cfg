SPECIFICATION FairSpec
CONSTANTS
  b1 = b1
  b2 = b2
  s1 = s1
  s2 = s2
  k1 = k1
  k2 = k2
  BSS = {b1, b2}
  Stas = {s1, s2}
  Secrets = {k1, k2}
  ApIdx <- TwoBssApIdx
  Configs <- FailoverConfigs
  IdSpace = 2
  MaxEntries = 2
  MaxRetries = 4
  NumFailover = 2
  FirstWait = 1
  MaxWait = 2
  RetryPrimary = TRUE
  MaxSends = 3
INVARIANTS TypeOK CountCoversList UniqueIds TimerPending SecretCurrent
PROPERTIES LeavesWhenSettled
