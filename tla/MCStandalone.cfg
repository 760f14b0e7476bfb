CONSTANTS
    alice = alice  bob = bob
    MaxTime = 4
    toBob = toBob  toSelf = toSelf  toZero = toZero  other = other
    Self = Self  Zero = Zero  NoRotation = NoRotation
    Ops = {toBob, toSelf, toZero, other}
    Rotates <- MCRotates
    Admins = {alice, bob, Self}
    DELAY = 1
    GRACE = 1
    MaxAnnounced = 2
    coin = coin
    Coins = {coin}
    People = {alice, bob}
    MaxTerm = 2
    Amounts = {1, 2}
    MaxLocks = 2
    MaxBal = 4
    Reach = Reach  k1 = k1  gold = gold  painting = painting
    venue = venue  Ether = Ether  NoOne = NoOne
    Owners = {alice, bob}
    Programs = {alice}
    Keys = {k1}
    Fungibles = {gold}
    Pieces = {painting}
    Outsiders = {venue}
    MaxSeal = 2
    MaxSession = 1
    MaxManifest = 2
    MaxPieces = 1
    MaxBatch = 2
    TargetLists <- MCTargetLists
    WordLists = {{"approve"}, {"transfer"}}
    Caps = {1}
    Values = {0, 1}
    MaxHeld = 1
    MaxEpoch = 2
    MaxXfers = 2
    t1 = t1  t2 = t2  acct1 = acct1  acct2 = acct2  None = None
    Tokens = {t1, t2}
    Wallets = {alice, bob}
    AccountOf <- MCAccountOf
    Rooms <- MCRooms
    MaxSaid = 3
    MaxGroups = 1
    Announcers = {t1, t2}
SPECIFICATION StandaloneSpec
INVARIANT OneEffectPerAnnouncement Covered TheFloorHolds NothingSaidIsLost ShownOutStaysOut SaidWhereOneBelongs
PROPERTY EffectsWereAnnounced NothingLeavesEarly KeysServeTheirGrantor KeyFollowsTheHolder
CHECK_DEADLOCK FALSE
