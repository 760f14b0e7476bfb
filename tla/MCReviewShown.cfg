CONSTANTS
    a1 = a1  a2 = a2
    Tasks = {a1, a2}
    Accounts = {owner}
    owner = owner
    buyer = buyer
    Nobody = Nobody
    None = None
    MaxMoves = 1
    MaxLinks = 1
SPECIFICATION Spec
INVARIANT SignsWhatWasShown
CHECK_DEADLOCK FALSE
