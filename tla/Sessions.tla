------------------------------- MODULE Sessions -------------------------------
(***************************************************************************)
(* The sessions of a user: sign-in (src/src/user), the renewal and the end *)
(* of a session (src/src/auth) and the guard of the endpoints that need    *)
(* one (src/src/guard).  The process keeps nothing: a session is a token   *)
(* that its client holds, and what a token claims was read at sign-in.     *)
(***************************************************************************)
EXTENDS Clock

CONSTANTS
    Wallets,       \* the in-app wallets the user has had, none being one of them
    RefreshLife,   \* 3600 s in the code
    AccessLife,    \* 3600 s
    CookieLife,    \* 60 s
    NoToken

ASSUME LifeAssumption ==
    /\ RefreshLife \in Nat /\ AccessLife \in Nat /\ CookieLife \in Nat

VARIABLES
    wallet,    \* what the User document names
    signing,   \* what a sign-in has read of it, before it has signed
    refresh,   \* a refresh token the client keeps, to send in a header
    cookie,    \* the refresh token in the browser's cookie
    access,    \* the access token the client uses
    lastHeld   \* history: when each of the others was the user's last

sessionVars == <<wallet, signing, refresh, cookie, access, lastHeld>>

RefreshTokens == [wallet : Wallets, signedIn : Times]
AccessTokens  == [wallet : Wallets, signedIn : Times, exp : Nat]

SessionsInit ==
    /\ wallet \in Wallets
    /\ signing = NoToken /\ refresh = NoToken /\ cookie = NoToken /\ access = NoToken
    /\ lastHeld = [w \in Wallets |-> 0]

\* Wallets are created and revoked while sessions last (WalletCustody).
ChangeWallet(w) ==
    /\ w # wallet
    /\ wallet' = w
    /\ lastHeld' = [lastHeld EXCEPT ![wallet] = now, ![w] = 0]
    /\ UNCHANGED <<signing, refresh, cookie, access>>

\* signInUser reads the user ...
SignInRead ==
    /\ signing = NoToken
    /\ signing' = wallet
    /\ UNCHANGED <<wallet, refresh, cookie, access, lastHeld>>

\* ... and signs both tokens with what it has read.  A client keeps the refresh
\* token beside the cookie or not, and goes on with the old tokens or the new.
SignInAnswer ==
    LET token == [wallet |-> signing, signedIn |-> now]
    IN
    /\ signing # NoToken
    /\ signing' = NoToken
    /\ cookie' = token
    /\ refresh' \in {refresh, token}
    /\ access' \in {access, [wallet |-> signing, signedIn |-> now, exp |-> now + AccessLife]}
    /\ UNCHANGED <<wallet, lastHeld>>

\* What a client can present: a header, or the cookie while the browser has it.
Presented ==
    {t \in {refresh} : t # NoToken} \cup
    {t \in {cookie} : t # NoToken /\ now < t.signedIn + CookieLife}

\* (mutant) The token is decoded but its expiry not looked at.
StatusUnexpired ==
    /\ \E t \in Presented :
          access' = [wallet |-> t.wallet, signedIn |-> t.signedIn, exp |-> now + AccessLife]
    /\ UNCHANGED <<wallet, signing, refresh, cookie, lastHeld>>

\* checkUserAuth: a refresh token that has not expired gives an access token
\* with the same claims; it is itself never renewed.
Status ==
    /\ \E t \in Presented :
          /\ now < t.signedIn + RefreshLife
          /\ access' = [wallet |-> t.wallet, signedIn |-> t.signedIn, exp |-> now + AccessLife]
    /\ UNCHANGED <<wallet, signing, refresh, cookie, lastHeld>>

\* logout takes the cookie back and nothing else.
Logout ==
    /\ cookie # NoToken
    /\ cookie' = NoToken
    /\ UNCHANGED <<wallet, signing, refresh, access, lastHeld>>

SessionStep ==
    \/ \E w \in Wallets : ChangeWallet(w)
    \/ SignInRead \/ SignInAnswer
    \/ Status \/ Logout

\* AuthGuard looks at the signature and the expiry.
Admits(t) == t # NoToken /\ now < t.exp

SessionsTypeOK ==
    /\ wallet \in Wallets
    /\ signing \in Wallets \cup {NoToken}
    /\ refresh \in RefreshTokens \cup {NoToken}
    /\ cookie \in RefreshTokens \cup {NoToken}
    /\ access \in AccessTokens \cup {NoToken}
    /\ lastHeld \in [Wallets -> Times]

\* What a request is admitted with is never older than the lives of the two
\* tokens together: its client has signed in since then, and the wallet the
\* token claims, which may have been revoked, was the user's since then.
\* Neither logout nor a revocation makes the time any shorter.
ClaimsBounded ==
    Admits(access) =>
        /\ now < access.signedIn + RefreshLife + AccessLife
        /\ \/ access.wallet = wallet
           \/ now < lastHeld[access.wallet] + RefreshLife + AccessLife
=============================================================================
