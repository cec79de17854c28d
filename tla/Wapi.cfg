CONSTANTS
    ASSOCS = 2
    USKS = 1
    MSKS = 1
    LOSSES = 1
    RETRIES = 1
    OVERLAP = FALSE
    UPDATERS = {"AE", "ASUE"}
SPECIFICATION Spec
INVARIANTS
    TypeOK
    KeysAgree
    GroupIdsAgree
PROPERTY LoneHandshakeEnds
CHECK_DEADLOCK FALSE
