SPECIFICATION Spec
CONSTANTS
    MaxTime = 4
    Ips = {ip1}
    MaxAttempts = 2
    Window = 1
    NoAttempt = NoAttempt
    Wallets = {none, w1}
    RefreshLife = 2
    AccessLife = 1
    CookieLife = 1
    NoToken = NoToken
INVARIANT AttemptsBounded
INVARIANT ClaimsBounded
INVARIANT RefusedOnlyWhenSpent
