CONSTANTS
    t1 = t1  alice = alice  bob = bob  window = window
    acct1 = acct1  grip1 = grip1
    None = None
    Tokens = {t1}
    People = {alice, bob}
    Contracts = {window}
    AccountOf <- MCAccountOf
    GripOf <- MCGripOf
    MaxTime = 5
    MaxEpoch = 7
    Spenders = {window}
    OperatorGrants = {}
    Lenders = {bob}
    Handled = {t1}
    UserTerms = {1}
    ConsignAddr = window
    BPS = 4
    MaxCut = 2
    MinTerm = 1
    MaxTerm = 2
    Agents = {bob}
    Prices = {0, 4, 5}
    Cuts = {1, 3}
    Royalties <- MCRoyalties
SPECIFICATION FairSpec
INVARIANT Solvent
PROPERTY NoteIsHonourable SoldAboveTheFloorOrHome EveryConsignmentEnds
CHECK_DEADLOCK FALSE
