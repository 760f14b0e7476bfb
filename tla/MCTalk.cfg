CONSTANTS
    t1 = t1  t2 = t2  r1 = r1  r2 = r2
    NoRoom = NoRoom
    Rooms = {r1, r2}
    Tokens = {t1}
    Mine = {t1}
    PairWith <- MCPairWith1
    TRoom = NoRoom
    Want = 3
    MaxSteps = 2
    MaxFails = 1
    MaxSaid = 4
    MaxTime = 4
SPECIFICATION FairTalkSpec
INVARIANT ScreenIsAStretch
PROPERTY CatchesUp
CHECK_DEADLOCK FALSE
