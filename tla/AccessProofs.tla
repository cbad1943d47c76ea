----------------------------- MODULE AccessProofs -----------------------------
(***************************************************************************)
(* Proofs about Access: what the two Maps of the process and the tokens of *)
(* its clients bound, for all life times, limits and addresses.            *)
(***************************************************************************)
EXTENDS Access, TLAPS, FiniteSetTheorems

-----------------------------------------------------------------------------
(* Types.                                                                   *)

LEMMA TypeInit == Init => TypeOK
  BY TimeAssumption DEF Init, AdminInit, SessionsInit, TypeOK, AdminTypeOK, SessionsTypeOK, Times

\* What is counted for an attempt that is let through.
LEMMA CountedType ==
    ASSUME TypeOK, NEW ip \in Ips, ~Refuses(ip)
    PROVE  /\ Counted(ip).count \in 1..MaxAttempts
           /\ Counted(ip).firstAttempt \in Times
           /\ Counted(ip) \in Attempts
  <1> USE AdminAssumption
  <1>1. CASE Starts(ip)
    BY <1>1 DEF Counted, Attempts, TypeOK
  <1>2. CASE ~Starts(ip)
    <2>1. loginAttempts[ip] \in Attempts
      BY <1>2 DEF Starts, TypeOK, AdminTypeOK
    <2>2. loginAttempts[ip].count \in Nat /\ loginAttempts[ip].count < MaxAttempts
          /\ loginAttempts[ip].firstAttempt \in Times
      BY <1>2, <2>1 DEF Refuses, Attempts
    <2>3. loginAttempts[ip].count + 1 \in 1..MaxAttempts
      BY <2>2
    <2> QED
      BY <1>2, <2>2, <2>3 DEF Counted, Attempts
  <1> QED
    BY <1>1, <1>2

LEMMA AdminTypeStep ==
    ASSUME TypeOK, NEW ip \in Ips, Login(ip)
    PROVE  AdminTypeOK'
  <1>1. CASE LetThrough(ip)
    <2>1. /\ Counted(ip).count \in 1..MaxAttempts
          /\ Counted(ip).firstAttempt \in Times
          /\ Counted(ip) \in Attempts
      BY <1>1, CountedType DEF LetThrough
    <2>2. loginAttempts' \in [Ips -> Attempts \cup {NoAttempt}]
      BY <1>1, <2>1 DEF LetThrough, TypeOK, AdminTypeOK
    <2>3. verdict' \in [Ips -> {"none", "checked", "throttled"}]
      BY <1>1 DEF LetThrough, TypeOK, AdminTypeOK
    <2>4. log' \subseteq [ip : Ips, window : Times, number : 1..MaxAttempts, at : Times]
      BY <1>1, <2>1 DEF LetThrough, TypeOK, AdminTypeOK
    <2> QED
      BY <2>2, <2>3, <2>4 DEF AdminTypeOK
  <1>2. CASE Throttle(ip)
    BY <1>2 DEF Throttle, TypeOK, AdminTypeOK
  <1> QED
    BY <1>1, <1>2 DEF Login

LEMMA SessionsTypeStep ==
    ASSUME TypeOK, SessionStep
    PROVE  SessionsTypeOK'
  <1> USE LifeAssumption DEF TypeOK, SessionsTypeOK
  <1>n. now \in Nat /\ now \in Times
    BY TimeAssumption DEF Times
  <1>1. ASSUME NEW w \in Wallets, ChangeWallet(w) PROVE SessionsTypeOK'
    BY <1>1, TimeAssumption DEF ChangeWallet, Times
  <1>2. CASE SignInRead
    BY <1>2 DEF SignInRead
  <1>3. CASE SignInAnswer
    <2>1. signing \in Wallets
      BY <1>3 DEF SignInAnswer
    <2>2. [wallet |-> signing, signedIn |-> now] \in RefreshTokens
      BY <2>1 DEF RefreshTokens
    <2>3. [wallet |-> signing, signedIn |-> now, exp |-> now + AccessLife] \in AccessTokens
      BY <2>1, <1>n DEF AccessTokens
    <2> QED
      BY <1>3, <2>2, <2>3 DEF SignInAnswer
  <1>4. CASE Status
    <2>1. PICK t \in Presented :
             access' = [wallet |-> t.wallet, signedIn |-> t.signedIn, exp |-> now + AccessLife]
      BY <1>4 DEF Status
    <2>2. t \in RefreshTokens
      BY <2>1 DEF Presented
    <2>3. access' \in AccessTokens
      BY <2>1, <2>2, <1>n DEF RefreshTokens, AccessTokens
    <2> QED
      BY <1>4, <2>3 DEF Status
  <1>5. CASE Logout
    BY <1>5 DEF Logout
  <1> QED
    BY <1>1, <1>2, <1>3, <1>4, <1>5 DEF SessionStep

LEMMA TypeStep == TypeOK /\ [Next]_vars => TypeOK'
  <1> SUFFICES ASSUME TypeOK, [Next]_vars PROVE TypeOK'
    OBVIOUS
  <1>1. CASE Tick
    BY <1>1, TimeAssumption DEF Tick, Advance, Times, adminVars, sessionVars, TypeOK,
       AdminTypeOK, SessionsTypeOK
  <1>2. ASSUME NEW ip \in Ips, Login(ip), UNCHANGED now, UNCHANGED sessionVars PROVE TypeOK'
    BY <1>2, AdminTypeStep DEF sessionVars, TypeOK, SessionsTypeOK
  <1>3. CASE SessionStep /\ UNCHANGED now /\ UNCHANGED adminVars
    BY <1>3, SessionsTypeStep DEF adminVars, TypeOK, AdminTypeOK
  <1>4. CASE Restart
    BY <1>4 DEF Restart, AdminForget, TypeOK, AdminTypeOK, SessionsTypeOK
  <1>5. CASE UNCHANGED vars
    BY <1>5 DEF vars, TypeOK, AdminTypeOK, SessionsTypeOK
  <1> QED
    BY <1>1, <1>2, <1>3, <1>4, <1>5 DEF Next

\* Every variable keeps its type; the count of an address is at most the limit.
THEOREM TypeCorrect == Spec => []TypeOK
  BY TypeInit, TypeStep, PTL DEF Spec

-----------------------------------------------------------------------------
(* Sessions.                                                                *)

\* A token was signed in the past, and what it claims was the user's then or
\* later.
Claims(t) ==
    t # NoToken =>
        /\ t.signedIn <= now
        /\ t.wallet = wallet \/ t.signedIn <= lastHeld[t.wallet]

SessionInv ==
    /\ Claims(refresh) /\ Claims(cookie) /\ Claims(access)
    /\ signing # NoToken => signing = wallet \/ lastHeld[signing] = now
    /\ access # NoToken => access.exp <= access.signedIn + RefreshLife + AccessLife

LEMMA SessionInit == Init => SessionInv
  BY DEF Init, SessionsInit, SessionInv, Claims

\* What holds of a token goes on holding while the clock does not go back and
\* the user's wallet changes.
LEMMA ClaimsKept ==
    ASSUME TypeOK, TypeOK', NEW t \in RefreshTokens \cup AccessTokens \cup {NoToken}, Claims(t),
           \/ now <= now' /\ UNCHANGED <<wallet, lastHeld>>
           \/ UNCHANGED now /\ \E w \in Wallets : ChangeWallet(w)
    PROVE  t # NoToken => /\ t.signedIn <= now'
                          /\ t.wallet = wallet' \/ t.signedIn <= lastHeld'[t.wallet]
  <1> SUFFICES ASSUME t # NoToken
               PROVE  /\ t.signedIn <= now'
                      /\ t.wallet = wallet' \/ t.signedIn <= lastHeld'[t.wallet]
    OBVIOUS
  <1>1. t.signedIn \in Times /\ t.wallet \in Wallets
    BY DEF RefreshTokens, AccessTokens
  <1>2. now \in Int /\ now' \in Int /\ t.signedIn \in Int
    BY <1>1, TimeAssumption DEF Times, TypeOK
  <1>3. CASE now <= now' /\ UNCHANGED <<wallet, lastHeld>>
    BY <1>2, <1>3 DEF Claims
  <1>4. ASSUME UNCHANGED now, NEW w \in Wallets, ChangeWallet(w)
        PROVE  t.wallet = wallet' \/ t.signedIn <= lastHeld'[t.wallet]
    <2>1. wallet' = w /\ lastHeld' = [lastHeld EXCEPT ![wallet] = now, ![w] = 0] /\ w # wallet
      BY <1>4 DEF ChangeWallet
    <2>2. lastHeld \in [Wallets -> Times] /\ wallet \in Wallets
      BY DEF TypeOK, SessionsTypeOK
    <2>3. CASE t.wallet = w
      BY <2>1, <2>3
    <2>4. CASE t.wallet = wallet
      BY <2>1, <2>2, <2>4 DEF Claims
    <2>5. CASE t.wallet # wallet /\ t.wallet # w
      BY <1>1, <2>1, <2>2, <2>5 DEF Claims
    <2> QED
      BY <2>3, <2>4, <2>5
  <1> QED
    BY <1>2, <1>3, <1>4 DEF Claims

LEMMA SessionInvStep == TypeOK /\ TypeOK' /\ SessionInv /\ [Next]_vars => SessionInv'
  <1> SUFFICES ASSUME TypeOK, TypeOK', SessionInv, [Next]_vars PROVE SessionInv'
    OBVIOUS
  <1> USE LifeAssumption
  <1>n. now \in Int
    BY TimeAssumption DEF TypeOK, Times
  <1>t. /\ refresh \in RefreshTokens \cup {NoToken} /\ cookie \in RefreshTokens \cup {NoToken}
        /\ access \in AccessTokens \cup {NoToken}
    BY DEF TypeOK, SessionsTypeOK
  <1>c. ASSUME \/ now <= now' /\ UNCHANGED <<wallet, lastHeld>>
               \/ UNCHANGED now /\ \E w \in Wallets : ChangeWallet(w),
               UNCHANGED <<refresh, cookie, access>>
        PROVE  Claims(refresh)' /\ Claims(cookie)' /\ Claims(access)'
    <2>1. \A t \in {refresh, cookie, access} :
             t # NoToken => /\ t.signedIn <= now'
                            /\ t.wallet = wallet' \/ t.signedIn <= lastHeld'[t.wallet]
      BY <1>c, <1>t, ClaimsKept DEF SessionInv
    <2> QED
      BY <1>c, <2>1 DEF Claims
  <1>1. CASE Tick
    <2>1. now' = now + 1 /\ signing = NoToken
          /\ UNCHANGED <<wallet, signing, refresh, cookie, access, lastHeld>>
      BY <1>1 DEF Tick, Advance, sessionVars
    <2> QED
      BY <1>n, <2>1, <1>c DEF SessionInv
  <1>2. ASSUME UNCHANGED <<now, wallet, refresh, cookie, access, lastHeld>>,
               signing' = signing \/ signing' = NoToken
        PROVE  SessionInv'
    BY <1>2 DEF SessionInv, Claims
  <1>3. ASSUME UNCHANGED now, NEW w \in Wallets, ChangeWallet(w) PROVE SessionInv'
    <2>1. wallet' = w /\ lastHeld' = [lastHeld EXCEPT ![wallet] = now, ![w] = 0] /\ w # wallet
          /\ UNCHANGED <<signing, refresh, cookie, access>>
      BY <1>3 DEF ChangeWallet
    <2>2. Claims(refresh)' /\ Claims(cookie)' /\ Claims(access)'
      BY <1>3, <2>1, <1>c
    <2>3. lastHeld \in [Wallets -> Times] /\ wallet \in Wallets
          /\ signing \in Wallets \cup {NoToken}
      BY DEF TypeOK, SessionsTypeOK
    <2>4. signing' # NoToken => signing' = wallet' \/ lastHeld'[signing'] = now'
      BY <1>3, <2>1, <2>3 DEF SessionInv
    <2> QED
      BY <2>1, <2>2, <2>4 DEF SessionInv
  <1>4. CASE SignInRead /\ UNCHANGED now
    BY <1>4 DEF SignInRead, SessionInv, Claims
  <1>5. CASE SignInAnswer /\ UNCHANGED now
    <2> DEFINE token  == [wallet |-> signing, signedIn |-> now]
               access_token == [wallet |-> signing, signedIn |-> now, exp |-> now + AccessLife]
    <2>1. /\ signing # NoToken /\ signing' = NoToken /\ cookie' = token
          /\ refresh' \in {refresh, token} /\ access' \in {access, access_token}
          /\ UNCHANGED <<now, wallet, lastHeld>>
      BY <1>5 DEF SignInAnswer
    <2>2. signing = wallet \/ lastHeld[signing] = now
      BY <2>1 DEF SessionInv
    <2>3. Claims(token) /\ Claims(access_token)
      BY <2>2, <1>n DEF Claims
    <2>4. access_token.exp <= access_token.signedIn + RefreshLife + AccessLife
      BY <1>n
    <2> HIDE DEF token, access_token
    <2>5. Claims(cookie') /\ Claims(refresh') /\ Claims(access')
      BY <2>1, <2>3 DEF SessionInv
    <2>6. access' # NoToken => access'.exp <= access'.signedIn + RefreshLife + AccessLife
      BY <2>1, <2>4 DEF SessionInv
    <2> QED
      BY <2>1, <2>5, <2>6 DEF SessionInv, Claims
  <1>6. CASE Status /\ UNCHANGED now
    <2>1. PICK t \in Presented :
             /\ now < t.signedIn + RefreshLife
             /\ access' = [wallet |-> t.wallet, signedIn |-> t.signedIn, exp |-> now + AccessLife]
      BY <1>6 DEF Status
    <2>2. UNCHANGED <<now, wallet, signing, refresh, cookie, lastHeld>>
      BY <1>6 DEF Status
    <2>3. Claims(t) /\ t # NoToken /\ t \in RefreshTokens
      BY <1>t DEF Presented, SessionInv
    <2>4. t.signedIn \in Int
      BY <2>3, TimeAssumption DEF RefreshTokens, Times
    <2>5. access'.exp = now + AccessLife /\ access'.signedIn = t.signedIn
          /\ access'.wallet = t.wallet
      BY <2>1
    <2>6. access'.exp <= access'.signedIn + RefreshLife + AccessLife
      BY <1>n, <2>1, <2>4, <2>5
    <2>7. Claims(access)'
      BY <2>2, <2>3, <2>5 DEF Claims
    <2> QED
      BY <2>2, <2>6, <2>7 DEF SessionInv, Claims
  <1>7. CASE Logout /\ UNCHANGED now
    BY <1>7 DEF Logout, SessionInv, Claims
  <1>8. ASSUME NEW ip \in Ips, UNCHANGED now, UNCHANGED sessionVars PROVE SessionInv'
    BY <1>8, <1>2 DEF sessionVars
  <1>9. CASE Restart
    BY <1>9, <1>2 DEF Restart
  <1>10. CASE UNCHANGED vars
    BY <1>10, <1>2 DEF vars
  <1> QED
    BY <1>1, <1>3, <1>4, <1>5, <1>6, <1>7, <1>8, <1>9, <1>10 DEF Next, SessionStep

LEMMA SessionClaims == TypeOK /\ SessionInv => ClaimsBounded
  <1> SUFFICES ASSUME TypeOK, SessionInv, Admits(access)
               PROVE  /\ now < access.signedIn + RefreshLife + AccessLife
                      /\ \/ access.wallet = wallet
                         \/ now < lastHeld[access.wallet] + RefreshLife + AccessLife
    BY DEF ClaimsBounded
  <1>1. access # NoToken /\ access \in AccessTokens /\ now < access.exp
    BY DEF Admits, TypeOK, SessionsTypeOK
  <1>2. /\ access.signedIn \in Times /\ access.exp \in Nat
        /\ lastHeld[access.wallet] \in Times /\ now \in Times
    BY <1>1 DEF AccessTokens, TypeOK, SessionsTypeOK
  <1>3. access.signedIn \in Int /\ lastHeld[access.wallet] \in Int /\ now \in Int
    BY <1>2, TimeAssumption DEF Times
  <1>4. access.exp <= access.signedIn + RefreshLife + AccessLife
    BY <1>1 DEF SessionInv
  <1>5. access.wallet = wallet \/ access.signedIn <= lastHeld[access.wallet]
    BY <1>1 DEF SessionInv, Claims
  <1>6. now < access.signedIn + RefreshLife + AccessLife
    BY <1>1, <1>2, <1>3, <1>4, LifeAssumption
  <1> QED
    BY <1>3, <1>5, <1>6, LifeAssumption

\* A request is admitted with claims that were true at a sign-in no longer ago
\* than the lives of both tokens.
THEOREM ClaimsExpire == Spec => []ClaimsBounded
  BY TypeInit, TypeStep, SessionInit, SessionInvStep, SessionClaims, PTL DEF Spec

-----------------------------------------------------------------------------
(* The login of the administrator.                                          *)

\* An attempt was let through within the window it was counted in, and the
\* first one began the window.
EntryInv ==
    \A e \in log :
        /\ e.window <= e.at /\ e.at <= now /\ e.at <= e.window + Window
        /\ e.number = 1 => e.at = e.window

\* A window and a number name one attempt.
NumberInv ==
    \A e, d \in log : e.ip = d.ip /\ e.window = d.window /\ e.number = d.number => e = d

\* Two windows of an address are more than a window apart.
ApartInv ==
    \A e, d \in log : e.ip = d.ip /\ e.window < d.window => e.window + Window < d.window

\* What is counted is the last window, and all that was let through in it.
CountInv ==
    \A ip \in Ips :
        IF loginAttempts[ip] = NoAttempt THEN \A e \in log : e.ip # ip
        ELSE LET a == loginAttempts[ip]
             IN  /\ a.count \in 1..MaxAttempts
                 /\ a.firstAttempt <= now
                 /\ \A e \in log : e.ip = ip =>
                       /\ e.window <= a.firstAttempt
                       /\ e.window = a.firstAttempt => e.number <= a.count
                 /\ \A k \in 1..a.count : \E e \in log :
                       e.ip = ip /\ e.window = a.firstAttempt /\ e.number = k

LogInv == IsFiniteSet(log) /\ EntryInv /\ NumberInv /\ ApartInv /\ CountInv

LEMMA LogInit == Init => LogInv
  BY FS_EmptySet DEF Init, AdminInit, LogInv, EntryInv, NumberInv, ApartInv, CountInv

\* The members of an entry of the log are numbers.
LEMMA EntryType ==
    ASSUME TypeOK, NEW e \in log
    PROVE  /\ e.ip \in Ips /\ e.window \in Int /\ e.at \in Int
           /\ e.number \in 1..MaxAttempts /\ e.number \in Int
           /\ e = [ip |-> e.ip, window |-> e.window, number |-> e.number, at |-> e.at]
  <1>1. e \in [ip : Ips, window : Times, number : 1..MaxAttempts, at : Times]
    BY DEF TypeOK, AdminTypeOK
  <1> QED
    BY <1>1, TimeAssumption, AdminAssumption DEF Times

\* The same, of what is counted.
LEMMA AttemptType ==
    ASSUME TypeOK, NEW ip \in Ips, loginAttempts[ip] # NoAttempt
    PROVE  loginAttempts[ip].count \in Nat /\ loginAttempts[ip].firstAttempt \in Int
  BY TimeAssumption DEF TypeOK, AdminTypeOK, Attempts, Times

LEMMA LetThroughStep ==
    ASSUME TypeOK, TypeOK', LogInv, NEW ip \in Ips, LetThrough(ip), UNCHANGED now
    PROVE  LogInv'
  <1> DEFINE n == [ip |-> ip, window |-> Counted(ip).firstAttempt,
                   number |-> Counted(ip).count, at |-> now]
             a == loginAttempts[ip]
  <1> USE AdminAssumption
  <1>0. now \in Int
    BY TimeAssumption DEF TypeOK, Times
  <1>1. log' = log \cup {n} /\ ~Refuses(ip) /\ now' = now
        /\ loginAttempts' = [loginAttempts EXCEPT ![ip] = Counted(ip)]
    BY DEF LetThrough
  <1>2. /\ n.ip = ip /\ n.window = Counted(ip).firstAttempt
        /\ n.number = Counted(ip).count /\ n.at = now
    OBVIOUS
  <1>3. n \in log'
    BY <1>1
  <1>4. n.window \in Int /\ n.number \in Int /\ n.number \in 1..MaxAttempts
    BY <1>1, <1>2, CountedType, TimeAssumption DEF Times
  \* The attempt begins a window or goes on with the last.
  <1>5. \/ /\ Starts(ip) /\ n.window = now /\ n.number = 1
        \/ /\ ~Starts(ip) /\ a # NoAttempt
           /\ n.window = a.firstAttempt /\ n.number = a.count + 1
           /\ now <= a.firstAttempt + Window
    <2>1. CASE Starts(ip)
      BY <2>1 DEF Counted
    <2>2. CASE ~Starts(ip)
      <3>1. a # NoAttempt /\ ~(now - a.firstAttempt > Window)
        BY <2>2 DEF Starts, Expired
      <3>2. now <= a.firstAttempt + Window
        BY <3>1, <1>0, AttemptType
      <3> QED
        BY <2>2, <3>1, <3>2 DEF Counted
    <2> QED
      BY <2>1, <2>2
  <1>6. a # NoAttempt => /\ a.count \in 1..MaxAttempts /\ a.count \in Int
                         /\ a.firstAttempt \in Int /\ a.firstAttempt <= now
    BY AttemptType DEF LogInv, CountInv
  \* Whatever was let through before was counted before.
  <1>7. ASSUME NEW e \in log, e.ip = ip
        PROVE  /\ e.window <= n.window
               /\ e.window = n.window => e.number < n.number
               /\ e.window < n.window => e.window + Window < n.window
    <2>1. a # NoAttempt /\ e.window <= a.firstAttempt
          /\ (e.window = a.firstAttempt => e.number <= a.count)
      BY <1>7 DEF LogInv, CountInv
    <2>2. e.window \in Int /\ e.number \in Int
      BY EntryType
    <2>3. CASE Starts(ip)
      <3>1. now - a.firstAttempt > Window
        BY <2>1, <2>3 DEF Starts, Expired
      <3>2. e.window + Window < now
        BY <3>1, <2>1, <2>2, <1>0, <1>6
      <3> QED
        BY <3>2, <2>2, <2>3, <1>0, <1>5
    <2>4. CASE ~Starts(ip)
      <3>1. n.window = a.firstAttempt /\ n.number = a.count + 1
        BY <2>4, <1>5
      <3>2. e.window = n.window => e.number < n.number
        BY <3>1, <2>1, <2>2, <1>6
      <3>3. PICK d \in log : d.ip = ip /\ d.window = a.firstAttempt
        BY <2>1, <1>6 DEF LogInv, CountInv
      <3>4. e.window < n.window => e.window + Window < n.window
        BY <1>7, <3>1, <3>3 DEF LogInv, ApartInv
      <3> QED
        BY <2>1, <3>1, <3>2, <3>4
    <2> QED
      BY <2>3, <2>4
  <1> HIDE DEF n
  <1>8. IsFiniteSet(log')
    BY <1>1, FS_AddElement DEF LogInv
  <1>9. EntryInv'
    <2>1. ASSUME NEW e \in log'
          PROVE  /\ e.window <= e.at /\ e.at <= now /\ e.at <= e.window + Window
                 /\ e.number = 1 => e.at = e.window
      <3>1. CASE e \in log
        BY <3>1 DEF LogInv, EntryInv
      <3>2. CASE e = n
        <4>1. CASE Starts(ip)
          BY <3>2, <4>1, <1>0, <1>2, <1>5
        <4>2. CASE ~Starts(ip)
          BY <3>2, <4>2, <1>0, <1>2, <1>5, <1>6
        <4> QED
          BY <4>1, <4>2
      <3> QED
        BY <2>1, <3>1, <3>2, <1>1
    <2> QED
      BY <2>1, <1>1 DEF EntryInv
  <1>10. ASSUME NEW e \in log, e.ip = n.ip, e.window = n.window PROVE e.number # n.number
    BY <1>2, <1>4, <1>7, <1>10, EntryType
  <1>11. NumberInv'
    <2>1. ASSUME NEW e \in log', NEW d \in log',
                 e.ip = d.ip, e.window = d.window, e.number = d.number
          PROVE  e = d
      <3>1. CASE e \in log /\ d \in log
        BY <2>1, <3>1 DEF LogInv, NumberInv
      <3>2. CASE e \in log /\ d = n
        BY <2>1, <3>2, <1>10
      <3>3. CASE e = n /\ d \in log
        BY <2>1, <3>3, <1>10
      <3> QED
        BY <3>1, <3>2, <3>3, <1>1
    <2> QED
      BY <2>1 DEF NumberInv
  <1>12. ApartInv'
    <2>1. ASSUME NEW e \in log', NEW d \in log', e.ip = d.ip, e.window < d.window
          PROVE  e.window + Window < d.window
      <3>1. CASE e \in log /\ d \in log
        BY <2>1, <3>1 DEF LogInv, ApartInv
      <3>2. CASE e \in log /\ d = n
        BY <2>1, <3>2, <1>2, <1>7
      <3>3. CASE e = n /\ d \in log
        <4>1. d.window <= n.window /\ d.window \in Int
          BY <2>1, <3>3, <1>2, <1>7, EntryType
        <4> QED
          BY <2>1, <3>3, <4>1, <1>4
      <3>4. CASE e = n /\ d = n
        BY <2>1, <3>4, <1>4
      <3> QED
        BY <3>1, <3>2, <3>3, <3>4, <1>1
    <2> QED
      BY <2>1 DEF ApartInv
  <1>13. CountInv'
    <2> SUFFICES ASSUME NEW i \in Ips
                 PROVE  IF loginAttempts'[i] = NoAttempt THEN \A e \in log' : e.ip # i
                        ELSE LET b == loginAttempts'[i]
                             IN  /\ b.count \in 1..MaxAttempts
                                 /\ b.firstAttempt <= now'
                                 /\ \A e \in log' : e.ip = i =>
                                       /\ e.window <= b.firstAttempt
                                       /\ e.window = b.firstAttempt => e.number <= b.count
                                 /\ \A k \in 1..b.count : \E e \in log' :
                                       e.ip = i /\ e.window = b.firstAttempt /\ e.number = k
      BY DEF CountInv
    <2>1. CASE i # ip
      <3>1. loginAttempts'[i] = loginAttempts[i]
        BY <2>1, <1>1 DEF TypeOK, AdminTypeOK
      <3>2. \A e \in log' : e.ip = i => e \in log
        BY <2>1, <1>1, <1>2
      <3>3. log \subseteq log'
        BY <1>1
      <3> QED
        BY <3>1, <3>2, <3>3, <1>1 DEF LogInv, CountInv
    <2>2. CASE i = ip
      <3>1. loginAttempts'[i] = Counted(ip)
        BY <2>2, <1>1 DEF TypeOK, AdminTypeOK
      <3>2. loginAttempts'[i].count = n.number /\ loginAttempts'[i].firstAttempt = n.window
        BY <3>1, <1>2
      <3>3. n.window <= now'
        BY <1>0, <1>1, <1>5, <1>6
      <3>4. \A e \in log' : e.ip = i => /\ e.window <= n.window
                                        /\ e.window = n.window => e.number <= n.number
        <4>1. SUFFICES ASSUME NEW e \in log', e.ip = i
                       PROVE  e.window <= n.window /\ (e.window = n.window => e.number <= n.number)
          OBVIOUS
        <4>2. CASE e \in log
          BY <2>2, <4>1, <4>2, <1>4, <1>7, EntryType
        <4>3. CASE e = n
          BY <4>3, <1>4
        <4> QED
          BY <4>2, <4>3, <1>1
      <3>5. \A k \in 1..n.number : \E e \in log' :
               e.ip = i /\ e.window = n.window /\ e.number = k
        <4>1. SUFFICES ASSUME NEW k \in 1..n.number, k # n.number
                       PROVE  \E e \in log' : e.ip = i /\ e.window = n.window /\ e.number = k
          BY <2>2, <1>2, <1>3
        <4>2. k \in 1..(n.number - 1)
          BY <4>1, <1>4
        <4>3. ~Starts(ip) /\ a # NoAttempt /\ n.window = a.firstAttempt /\ n.number = a.count + 1
          BY <4>2, <1>5
        <4>4. k \in 1..a.count
          BY <4>2, <4>3, <1>6
        <4>5. PICK e \in log : e.ip = ip /\ e.window = a.firstAttempt /\ e.number = k
          BY <4>3, <4>4 DEF LogInv, CountInv
        <4> QED
          BY <2>2, <4>3, <4>5, <1>1
      <3>6. n.number \in 1..MaxAttempts
        BY <1>4
      <3>8. loginAttempts'[i] # NoAttempt
        BY <3>1, <1>1, CountedType, TimeAssumption DEF Attempts, Times
      <3> QED
        BY <3>2, <3>3, <3>4, <3>5, <3>6, <3>8
    <2> QED
      BY <2>1, <2>2
  <1> QED
    BY <1>8, <1>9, <1>11, <1>12, <1>13 DEF LogInv

\* Time passes over what has been counted.
LEMMA TickStep ==
    ASSUME TypeOK, TypeOK', LogInv, now <= now', UNCHANGED <<log, loginAttempts>>
    PROVE  LogInv'
  <1>0. now \in Int /\ now' \in Int
    BY TimeAssumption DEF TypeOK, Times
  <1>1. EntryInv'
    <2>1. ASSUME NEW e \in log
          PROVE  /\ e.window <= e.at /\ e.at <= now' /\ e.at <= e.window + Window
                 /\ e.number = 1 => e.at = e.window
      BY <1>0, EntryType DEF LogInv, EntryInv
    <2> QED
      BY <2>1 DEF EntryInv
  <1>2. CountInv'
    <2>1. ASSUME NEW ip \in Ips, loginAttempts[ip] # NoAttempt
          PROVE  loginAttempts[ip].firstAttempt <= now'
      BY <1>0, <2>1, AttemptType DEF LogInv, CountInv
    <2> QED
      BY <2>1 DEF LogInv, CountInv
  <1> QED
    BY <1>1, <1>2 DEF LogInv, NumberInv, ApartInv

LEMMA LogStep == TypeOK /\ TypeOK' /\ LogInv /\ [Next]_vars => LogInv'
  <1> SUFFICES ASSUME TypeOK, TypeOK', LogInv, [Next]_vars PROVE LogInv'
    OBVIOUS
  <1>0. now \in Int
    BY TimeAssumption DEF TypeOK, Times
  <1>1. CASE UNCHANGED <<now, adminVars>>
    BY <1>0, <1>1, TickStep DEF adminVars
  <1>2. CASE Tick
    BY <1>0, <1>2, TickStep DEF Tick, Advance, adminVars
  <1>3. ASSUME NEW ip \in Ips, Login(ip), UNCHANGED now PROVE LogInv'
    <2>1. CASE LetThrough(ip)
      BY <1>3, <2>1, LetThroughStep
    <2>2. CASE Throttle(ip)
      BY <1>0, <1>3, <2>2, TickStep DEF Throttle
    <2> QED
      BY <1>3, <2>1, <2>2 DEF Login
  <1>4. CASE Restart
    BY <1>4, FS_EmptySet DEF Restart, AdminForget, LogInv, EntryInv, NumberInv, ApartInv, CountInv
  <1> QED
    BY <1>1, <1>2, <1>3, <1>4 DEF Next, vars, adminVars

\* An address that is refused has spent its attempts in the window it is
\* refused in, which is no longer than one that ends now: they are as many as
\* the numbers they were given.
LEMMA Spent == TypeOK /\ LogInv => RefusedOnlyWhenSpent
  <1> SUFFICES ASSUME TypeOK, LogInv, NEW ip \in Ips, Refuses(ip)
               PROVE  Cardinality(LetThroughFrom(ip, now - Window, now)) >= MaxAttempts
    BY DEF RefusedOnlyWhenSpent
  <1> DEFINE X == LetThroughFrom(ip, now - Window, now)
             a == loginAttempts[ip]
             of(k) == CHOOSE e \in X : e.number = k
             g == [k \in 1..MaxAttempts |-> of(k)]
  <1> USE AdminAssumption
  <1>0. now \in Int
    BY TimeAssumption DEF TypeOK, Times
  <1>1. a # NoAttempt /\ ~(now - a.firstAttempt > Window) /\ a.count >= MaxAttempts
    BY DEF Refuses, Starts, Expired
  <1>2. a.count = MaxAttempts /\ a.firstAttempt \in Int /\ now <= a.firstAttempt + Window
    BY <1>0, <1>1, AttemptType DEF LogInv, CountInv
  <1>3. ASSUME NEW k \in 1..MaxAttempts PROVE \E e \in X : e.number = k
    <2>1. PICK e \in log : e.ip = ip /\ e.window = a.firstAttempt /\ e.number = k
      BY <1>1, <1>2 DEF LogInv, CountInv
    <2>2. e.window <= e.at /\ e.at <= now /\ e.at \in Int
      BY EntryType DEF LogInv, EntryInv
    <2>3. now - Window <= e.at
      BY <1>0, <1>2, <2>1, <2>2
    <2> QED
      BY <2>1, <2>2, <2>3 DEF LetThroughFrom
  <1> HIDE DEF X
  <1>4. \A k \in 1..MaxAttempts : g[k] \in X /\ g[k].number = k
    BY <1>3
  <1>5. g \in Injection(1..MaxAttempts, X)
    <2>1. g \in [1..MaxAttempts -> X]
      BY <1>4
    <2>2. \A k, l \in 1..MaxAttempts : g[k] = g[l] => k = l
      BY <1>4
    <2> HIDE DEF g
    <2> QED
      BY <2>1, <2>2 DEF Injection, IsInjective
  <1> HIDE DEF g
  <1>6. IsFiniteSet(X)
    BY FS_Subset DEF X, LetThroughFrom, LogInv
  <1>7. Cardinality(1..MaxAttempts) <= Cardinality(X)
    BY <1>5, <1>6, FS_Injection
  <1>8. Cardinality(1..MaxAttempts) = MaxAttempts
    BY FS_Interval
  <1>9. Cardinality(X) \in Nat
    BY <1>6, FS_CardinalityType
  <1> QED
    BY <1>7, <1>8, <1>9 DEF X

\* Nobody is kept out who has not spent his attempts.
THEOREM OnlySpentRefused == Spec => []RefusedOnlyWhenSpent
  BY TypeInit, TypeStep, LogInit, LogStep, Spent, PTL DEF Spec

\* A stretch of one window meets two windows at most, and not the first attempt
\* of the earlier one: its attempts are numbered from one to the limit less
\* one, those of the later one after them.
LEMMA Bounded == TypeOK /\ LogInv => AttemptsBounded
  <1> SUFFICES ASSUME TypeOK, LogInv, NEW ip \in Ips, NEW t \in Times
               PROVE  Cardinality(LetThroughFrom(ip, t, t + Window)) <= 2 * MaxAttempts - 1
    BY DEF AttemptsBounded
  <1> DEFINE X == LetThroughFrom(ip, t, t + Window)
             early(e) == \E d \in X : e.window < d.window
             f == [e \in X |-> IF early(e) THEN e.number - 1 ELSE MaxAttempts - 1 + e.number]
  <1> USE AdminAssumption
  <1>0. t \in Int
    BY TimeAssumption DEF Times
  <1>1. ASSUME NEW e \in X
        PROVE  /\ e \in log /\ e.ip = ip /\ t <= e.at /\ e.at <= t + Window
               /\ e.window \in Int /\ e.at \in Int /\ e.number \in Int
               /\ 1 <= e.number /\ e.number <= MaxAttempts
               /\ e.window <= e.at /\ e.at <= e.window + Window
               /\ e.number = 1 => e.at = e.window
    <2>1. e \in log /\ e.ip = ip /\ t <= e.at /\ e.at <= t + Window
      BY DEF LetThroughFrom
    <2>2. e.window <= e.at /\ e.at <= e.window + Window /\ (e.number = 1 => e.at = e.window)
      BY <2>1 DEF LogInv, EntryInv
    <2>3. e.window \in Int /\ e.at \in Int /\ e.number \in Int /\ e.number \in 1..MaxAttempts
      BY <2>1, EntryType
    <2>4. 1 <= e.number /\ e.number <= MaxAttempts
      BY <2>3
    <2> QED
      BY <2>1, <2>2, <2>3, <2>4
  <1> HIDE DEF X
  <1>2. ASSUME NEW e \in X, NEW d \in X, e.window < d.window
        PROVE  e.window + Window < d.window
    BY <1>1, <1>2 DEF LogInv, ApartInv
  <1>3. ASSUME NEW e \in X, NEW d \in X, e.window < d.window
        PROVE  e.number # 1
    <2>1. e.window + Window < d.window
      BY <1>2, <1>3
    <2>2. /\ d.window <= d.at /\ d.at <= t + Window /\ t <= e.at
          /\ e.window \in Int /\ e.at \in Int /\ d.window \in Int /\ d.at \in Int
          /\ e.number = 1 => e.at = e.window
      BY <1>1
    <2>3. e.window < t
      BY <1>0, <2>1, <2>2
    <2> QED
      BY <1>0, <2>2, <2>3
  <1>4. ASSUME NEW e \in X, NEW d \in X, NEW c \in X, e.window < d.window, d.window < c.window
        PROVE  FALSE
    <2>1. e.window + Window < d.window /\ d.window + Window < c.window
      BY <1>2, <1>4
    <2>2. /\ c.window <= c.at /\ c.at <= t + Window /\ t <= e.at /\ e.at <= e.window + Window
          /\ e.window \in Int /\ e.at \in Int /\ d.window \in Int
          /\ c.window \in Int /\ c.at \in Int
      BY <1>1
    <2> QED
      BY <1>0, <2>1, <2>2
  <1>5. ASSUME NEW e \in X PROVE f[e] \in 1..(2 * MaxAttempts - 1)
    <2>1. e.number \in Int /\ 1 <= e.number /\ e.number <= MaxAttempts
      BY <1>1
    <2>2. CASE early(e)
      <3>1. e.number # 1 /\ f[e] = e.number - 1
        BY <2>2, <1>3
      <3> QED
        BY <2>1, <3>1
    <2>3. CASE ~early(e)
      <3>1. f[e] = MaxAttempts - 1 + e.number
        BY <2>3
      <3> QED
        BY <2>1, <3>1
    <2> QED
      BY <2>2, <2>3
  <1>6. ASSUME NEW e \in X, NEW d \in X, f[e] = f[d] PROVE e = d
    <2>0. /\ e.number \in Int /\ 1 <= e.number /\ e.number <= MaxAttempts /\ e.window \in Int
          /\ d.number \in Int /\ 1 <= d.number /\ d.number <= MaxAttempts /\ d.window \in Int
      BY <1>1
    <2>1. ASSUME early(e), early(d) PROVE e.window = d.window /\ e.number = d.number
      <3>1. f[e] = e.number - 1 /\ f[d] = d.number - 1
        BY <2>1
      <3>2. e.number = d.number
        BY <1>6, <2>0, <3>1
      <3>3. ~(e.window < d.window) /\ ~(d.window < e.window)
        BY <2>1, <1>4
      <3> QED
        BY <2>0, <3>2, <3>3
    <2>2. ASSUME ~early(e), ~early(d) PROVE e.window = d.window /\ e.number = d.number
      <3>1. f[e] = MaxAttempts - 1 + e.number /\ f[d] = MaxAttempts - 1 + d.number
        BY <2>2
      <3>2. e.number = d.number
        BY <1>6, <2>0, <3>1
      <3>3. ~(e.window < d.window) /\ ~(d.window < e.window)
        BY <2>2
      <3> QED
        BY <2>0, <3>2, <3>3
    <2>3. ASSUME early(e), ~early(d) PROVE FALSE
      <3>1. f[e] = e.number - 1 /\ f[d] = MaxAttempts - 1 + d.number
        BY <2>3
      <3> QED
        BY <1>6, <2>0, <3>1
    <2>4. ASSUME ~early(e), early(d) PROVE FALSE
      <3>1. f[e] = MaxAttempts - 1 + e.number /\ f[d] = d.number - 1
        BY <2>4
      <3> QED
        BY <1>6, <2>0, <3>1
    <2>5. e.window = d.window /\ e.number = d.number
      BY <2>1, <2>2, <2>3, <2>4
    <2>6. e \in log /\ d \in log /\ e.ip = d.ip
      BY <1>1
    <2> QED
      BY <2>5, <2>6 DEF LogInv, NumberInv
  <1>7. f \in Injection(X, 1..(2 * MaxAttempts - 1))
    <2>1. f \in [X -> 1..(2 * MaxAttempts - 1)]
      BY <1>5
    <2> HIDE DEF f
    <2> QED
      BY <1>6, <2>1 DEF Injection, IsInjective
  <1> HIDE DEF f
  <1>8. IsFiniteSet(1..(2 * MaxAttempts - 1))
        /\ Cardinality(1..(2 * MaxAttempts - 1)) = 2 * MaxAttempts - 1
    BY FS_Interval
  <1>9. Cardinality(X) <= 2 * MaxAttempts - 1
    BY <1>7, <1>8, FS_Injection
  <1> QED
    BY <1>9 DEF X

\* Between two restarts no stretch of one window lets an address try more than
\* twice the limit less one.
THEOREM Throttled == Spec => []AttemptsBounded
  BY TypeInit, TypeStep, LogInit, LogStep, Bounded, PTL DEF Spec
=============================================================================
