CONSTANTS
    a1 = a1  a2 = a2
    Tasks = {a1, a2}
    Accounts = {owner, buyer}
    owner = owner
    buyer = buyer
    Nobody = Nobody
    None = None
    MaxMoves = 2
    MaxLinks = 3
SPECIFICATION Spec
INVARIANT NothingMovedSinceReview CommitsNeverShareARoot
PROPERTY SignsUnderItsOwnLink EachPlanIsOneShot
SYMMETRY Symmetry
CHECK_DEADLOCK FALSE
