SPECIFICATION FairSpec
CONSTANTS
    Reqs = {r1, r2}
    Names = {n1, n2}
    Ops <- AllOps
    Serial = FALSE
    MaxFaults = 1
    None = None
    Garbage = Garbage
    Unset = Unset
    Blank = Blank
    NoUser = NoUser
INVARIANT NoPartialRevocation
INVARIANT SuccessMeansWritten
PROPERTY OneLife
PROPERTY KeyOfWrittenWallet
PROPERTY RequestsEnd
\* Every request is answered in the end and no more arrive.
CHECK_DEADLOCK FALSE
