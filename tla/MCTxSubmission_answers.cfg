SPECIFICATION FairSpec
CONSTANTS
    Reqs = {r1, r2}
    Wallets = {w1}
    Ops <- EveryEnd
    MaxBalance = 1
    None = None
INVARIANT OkMeansExecuted
INVARIANT ErrorMeansUnspent
INVARIANT PrizeAfterStake
INVARIANT PreferredNetworkOnly
PROPERTY RequestAnswered
\* Every request is answered in the end and no more arrive.
CHECK_DEADLOCK FALSE
