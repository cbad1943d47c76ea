SPECIFICATION Spec
CONSTANTS
    Reqs = {r1}
    Wallets = {w1}
    Ops <- Swap
    MaxBalance = 1
    None = None
INVARIANT PreferenceUsed
\* Every request is answered in the end and no more arrive.
CHECK_DEADLOCK FALSE
