CONSTANTS
    t1 = t1  t2 = t2  r1 = r1  r2 = r2
    NoRoom = NoRoom
    Rooms = {r1, r2}
    Tokens = {t1}
    Mine = {t1, t2}
    PairWith <- MCPairWith
    TRoom = NoRoom
    Want = 2
    MaxSteps = 2
    MaxFails = 0
    MaxSaid = 2
    MaxTime = 2
SPECIFICATION FairTalkSpec
PROPERTY CatchesUp
CHECK_DEADLOCK FALSE
