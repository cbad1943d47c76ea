SPECIFICATION FairSpec
CONSTANTS
    Counts <- AnyCount
    MAX_AIRDROP_RECIPIENTS = 45
    MAX_CONCURRENT_TXS = 2
    MAX_RETRIES = 2
INVARIANT SuccessMeansExecuted
INVARIANT PaymentsCertain
INVARIANT AtMostConcurrent
PROPERTY NothingSentAfterAnswer
PROPERTY AirdropAnswered
\* The call is answered and no more are made.
CHECK_DEADLOCK FALSE
