SPECIFICATION FairSpec
CONSTANTS
    Chats = {c1, c2}
    Keys = {k1, k2}
INVARIANTS TypeOK ThreadsReachable SecretsReachable
PROPERTY DeletionEnds
CHECK_DEADLOCK FALSE
