------------------------------ MODULE AdminLogin ------------------------------
(***************************************************************************)
(* The login of the administrator, src/src/admin: every attempt is counted *)
(* for the address it comes from, in a Map of the process, before its      *)
(* credentials are looked at.  The count starts with a first attempt and   *)
(* starts again with the first one that comes more than Window later.      *)
(***************************************************************************)
EXTENDS Clock, FiniteSets

CONSTANTS
    Ips,           \* the addresses attempts come from
    MaxAttempts,   \* five in the code
    Window,        \* fifteen minutes
    NoAttempt      \* nothing counted for an address

ASSUME AdminAssumption ==
    /\ MaxAttempts \in Nat \ {0}
    /\ Window \in Nat
    /\ NoAttempt \notin [count : Nat, firstAttempt : Int]

VARIABLES
    loginAttempts, \* for each address the count and the time of the first attempt
    verdict,       \* the answer to the last attempt from an address
    log            \* history: the attempts this process has let through

adminVars == <<loginAttempts, verdict, log>>

Attempts == [count : Nat, firstAttempt : Times]

AdminInit ==
    /\ loginAttempts = [ip \in Ips |-> NoAttempt]
    /\ verdict = [ip \in Ips |-> "none"]
    /\ log = {}

\* (mutant) The count starts again when the window is just over.
ExpiredEarly(ip) == now - loginAttempts[ip].firstAttempt >= Window

\* Reset after 15 minutes.
Expired(ip) == now - loginAttempts[ip].firstAttempt > Window

Starts(ip)  == loginAttempts[ip] = NoAttempt \/ Expired(ip)

Refuses(ip) == ~Starts(ip) /\ loginAttempts[ip].count >= MaxAttempts

\* What checkRateLimit notes for an attempt it lets through.
Counted(ip) ==
    IF Starts(ip) THEN [count |-> 1, firstAttempt |-> now]
    ELSE [count |-> loginAttempts[ip].count + 1,
          firstAttempt |-> loginAttempts[ip].firstAttempt]

\* checkRateLimit lets the attempt through, all within one turn of the event
\* loop; validateAdmin then checks the credentials and signs a token or not, and
\* the count is the same for both.
LetThrough(ip) ==
    /\ ~Refuses(ip)
    /\ loginAttempts' = [loginAttempts EXCEPT ![ip] = Counted(ip)]
    /\ verdict' = [verdict EXCEPT ![ip] = "checked"]
    /\ log' = log \cup {[ip |-> ip, window |-> Counted(ip).firstAttempt,
                         number |-> Counted(ip).count, at |-> now]}

\* (mutant) An attempt that is refused makes the wait begin again.
ThrottleAgain(ip) ==
    /\ Refuses(ip)
    /\ verdict' = [verdict EXCEPT ![ip] = "throttled"]
    /\ loginAttempts' = [loginAttempts EXCEPT ![ip].firstAttempt = now]
    /\ UNCHANGED log

\* Too many login attempts: the count stays as it is.
Throttle(ip) ==
    /\ Refuses(ip)
    /\ verdict' = [verdict EXCEPT ![ip] = "throttled"]
    /\ UNCHANGED <<loginAttempts, log>>

Login(ip) == LetThrough(ip) \/ Throttle(ip)

\* A new process has counted nothing.
AdminForget ==
    /\ loginAttempts' = [ip \in Ips |-> NoAttempt]
    /\ verdict' = [ip \in Ips |-> "none"]
    /\ log' = {}

AdminTypeOK ==
    /\ loginAttempts \in [Ips -> Attempts \cup {NoAttempt}]
    /\ verdict \in [Ips -> {"none", "checked", "throttled"}]
    /\ log \subseteq [ip : Ips, window : Times, number : 1..MaxAttempts, at : Times]

LetThroughFrom(ip, first, last) ==
    {e \in log : e.ip = ip /\ first <= e.at /\ e.at <= last}

\* Between two restarts no fifteen minutes let more than 2 * MaxAttempts - 1
\* attempts from one address through: all but the first of one count at its
\* end, and the whole of the next.  (Not MaxAttempts: the window is not one
\* that slides.)
AttemptsBounded ==
    \A ip \in Ips, t \in Times :
        Cardinality(LetThroughFrom(ip, t, t + Window)) <= 2 * MaxAttempts - 1

\* Nobody is kept out who has not spent MaxAttempts within the last fifteen
\* minutes; attempts that are refused do not keep him out any longer.
RefusedOnlyWhenSpent ==
    \A ip \in Ips :
        Refuses(ip) => Cardinality(LetThroughFrom(ip, now - Window, now)) >= MaxAttempts
=============================================================================
