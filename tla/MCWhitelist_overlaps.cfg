SPECIFICATION Spec
CONSTANTS
    Reqs = {r1, r2, r3, r4}
    Users = {u1, u2}
    Codes = {c1, c2}
    MaxFaults = 1
    None = None
SYMMETRY Symmetry
INVARIANT AdmittedByBurntCode
INVARIANT OneUserPerCode
INVARIANT RevokedUserOut
PROPERTY RevokeTakesOwnEntry
\* Every request is answered and every code has expired in the end.
CHECK_DEADLOCK FALSE
