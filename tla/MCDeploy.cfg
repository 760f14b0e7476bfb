CONSTANTS
    r1 = r1  r2 = r2
    Runs = {r1, r2}
    Rival = Rival
    Public = Public
    Nobody = Nobody
    Kinds <- Plan
    MaxBlocks = 5
    MaxForeign = 2
SPECIFICATION Spec
INVARIANT JournalSettlesTheRest EachStepIsSentOnce
PROPERTY VerifiedIsDeployed EveryRunEnds
CHECK_DEADLOCK FALSE
