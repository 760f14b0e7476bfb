CONSTANTS
    t1 = t1  t2 = t2  alice = alice  bob = bob  succ = succ
    acct1 = acct1  acct2 = acct2  grip1 = grip1  grip2 = grip2
    None = None
    Tokens = {t1, t2}
    People = {alice, bob}
    Contracts = {succ}
    AccountOf <- MCAccountOf
    GripOf <- MCGripOf
    MaxTime = 3
    MaxEpoch = 3
    Spenders = {succ}
    OperatorGrants = {}
    Lenders = {}
    Handled = {t1}
    UserTerms = {}
    SuccessionAddr = succ
    Quiets = {1}
    Notices = {1}
    Planned = {t1}
    Heirs = {bob}
    HeirTokens = {t2}
SPECIFICATION SuccessionFairSpec
INVARIANT WouldPassTellsTheTruth
PROPERTY PassesOnlyAfterBothSilences SilencePasses
CHECK_DEADLOCK FALSE
