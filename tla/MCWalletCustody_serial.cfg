SPECIFICATION Spec
CONSTANTS
    Reqs = {r1, r2, r3}
    Names = {n1, n2}
    Ops <- Writing
    Serial = TRUE
    MaxFaults = 2
    None = None
    Garbage = Garbage
    Unset = Unset
    Blank = Blank
    NoUser = NoUser
SYMMETRY Symmetry
INVARIANT StoresAgree
PROPERTY RecordNotOverwritten
PROPERTY DeletedOnlyAfterBackup
PROPERTY RevokedMeansErased
\* Every request is answered in the end and no more arrive.
CHECK_DEADLOCK FALSE
