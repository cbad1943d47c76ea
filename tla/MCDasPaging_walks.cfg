SPECIFICATION FairSpec
CONSTANTS
    Ids <- Items
    Home <- HomeOfItems
    Fungible <- FungibleItems
    Priced <- PricedItems
    Bare <- BareItems
    Votes <- VoteItems
    MaxRequest = 2
    BalanceLimit = 3
    Limits = {1, 2}
    MaxMoves = 1
    None = None
INVARIANT OneNetworkPerWalk
INVARIANT NothingTwice
INVARIANT NothingSkipped
INVARIANT PagesComplete
PROPERTY CallAnswered
\* The caller may be content with what it has been answered.
CHECK_DEADLOCK FALSE
