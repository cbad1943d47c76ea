SPECIFICATION Spec
CONSTANTS
    Reqs = {r1, r2}
    Names = {n1}
    Ops <- Webhook
    Serial = FALSE
    MaxFaults = 0
    None = None
    Garbage = Garbage
    Unset = Unset
    Blank = Blank
    NoUser = NoUser
INVARIANT SecondCreationRefused
\* Every request is answered in the end and no more arrive.
CHECK_DEADLOCK FALSE
