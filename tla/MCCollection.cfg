CONSTANTS
    alice = alice  bob = bob
    acct1 = acct1  acct2 = acct2
    grip1 = grip1  grip2 = grip2
    None = None
    MaxSupply = 2
    Tokens = {1, 2}
    People = {alice, bob}
    Contracts = {}
    AccountOf <- MCAccountOf
    GripOf <- MCGripOf
    MaxTime = 1
    MaxEpoch = 2
    Spenders = {bob}
    OperatorGrants = {}
    Lenders = {}
    Handled = {1}
    UserTerms = {}
    Contents = {x, y}
    NoPayload = NoPayload
    Recipients = {alice, bob}
    Sealers = {alice, bob}
    KernelTokens = {1}
    UsageGrants <- MCUsageGrants
SPECIFICATION Spec
INVARIANT EnumerationExact ProvedMeansOpenable UsageEndsWithTheTenure
PROPERTY ContentIsCarried
CHECK_DEADLOCK FALSE
