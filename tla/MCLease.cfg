CONSTANTS
    t1 = t1  acct1 = acct1  grip1 = grip1  lease = lease
    alice = alice  bob = bob
    None = None
    Tokens = {t1}
    People = {alice, bob}
    Contracts = {lease}
    AccountOf <- MCAccountOf
    GripOf <- MCGripOf
    MaxTime = 4
    MaxEpoch = 3
    Spenders = {}
    OperatorGrants = {}
    Lenders = {lease}
    Handled = {t1}
    UserTerms = {2}
    LeaseAddr = lease
    Day = 2
    MaxDays = 2
    Prices = {1}
SPECIFICATION FairSpec
INVARIANT Solvent StatusTellsTheTruth
PROPERTY RenterNeverPaysForUndelivered RunningLeaseEndsPaidToTheBlock EveryLeaseSettles
CHECK_DEADLOCK FALSE
