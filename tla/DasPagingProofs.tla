---------------------------- MODULE DasPagingProofs ----------------------------
(***************************************************************************)
(* Proofs about DasPaging.  Ranks are all that is used of the pages: what  *)
(* has been given ranks before the page that is asked for next, and what   *)
(* has been given by cursor is not older than the cursor.                  *)
(***************************************************************************)
EXTENDS DasPaging, TLAPS, FiniteSetTheorems

USE NoneAssumption DEF Networks

-----------------------------------------------------------------------------
(* Types.                                                                   *)

\* What the provider answers with is listed.
LEMMA FetchedListed ==
    ASSUME TypeOK
    PROVE  FetchedPage \subseteq Listing(net)
  <1>1. CASE ep = "account"
    BY <1>1 DEF FetchedPage, Newest, AfterCursor
  <1>2. CASE ep = "block"
    BY <1>2 DEF FetchedPage, Newest, BlockRest, Before
  <1>3. CASE ep \notin {"account", "block"}
    BY <1>3 DEF FetchedPage, PageOf
  <1> QED
    BY <1>1, <1>2, <1>3

LEMMA ListedIds == ASSUME TypeOK PROVE \A n : Listing(n) \subseteq Ids
  BY DEF TypeOK, Listing

LEMMA TypeInit == Init => TypeOK
  <1> SUFFICES ASSUME Init PROVE TypeOK
    OBVIOUS
  <1>1. ep \in Endpoints /\ limit \in Nat \ {0} /\ moves \in 0..MaxMoves
    BY LimitsAssumption DEF Init, Endpoints
  <1>2. listed \subseteq Ids /\ batch \subseteq Ids /\ nets \subseteq Networks
    BY DEF Init
  <1>3. delivered \subseteq Ids /\ refused \subseteq Ids /\ start \subseteq Ids /\ twice \subseteq Ids
    BY DEF Init
  <1>4. pref \in Networks \cup {None} /\ net \in Networks \cup {None} /\ cursor \in Ids \cup {None}
    BY DEF Init
  <1>5. funded \in BOOLEAN /\ wavered \in BOOLEAN /\ cutShort \in BOOLEAN
    BY DEF Init
  <1>7. page \in Nat \ {0}
    BY DEF Init
  <1>6. /\ pc \in {"idle", "answered"} \cup Serving
        /\ half \in {"none", "resolve", "fetch", "done"}
        /\ answer \in {"none", "page", "end", "error"}
    BY DEF Init
  <1> QED
    BY <1>1, <1>2, <1>3, <1>4, <1>5, <1>6, <1>7 DEF TypeOK

LEMMA TypeStep == TypeOK /\ [Next]_vars => TypeOK'
  <1> SUFFICES ASSUME TypeOK, [Next]_vars PROVE TypeOK'
    OBVIOUS
  <1> USE LimitsAssumption DEF TypeOK, Serving
  <1>p. FetchedPage \subseteq Ids
    BY FetchedListed, ListedIds
  <1>1. ASSUME NEW e \in Endpoints, NEW p \in Networks \cup {None}, NEW l \in Limits,
               Begin(e, p, l)
        PROVE  TypeOK'
    BY <1>1 DEF Begin, world
  <1>2. CASE Continue
    BY <1>2 DEF Continue, world, asked, history
  <1>3. CASE Retry
    BY <1>3 DEF Retry, world, asked, history
  <1>4. CASE LookUpWallet
    BY <1>4 DEF LookUpWallet, Answer, DeliverNothing, world, asked, history
  <1>5. CASE NativeConnect
    BY <1>5 DEF NativeConnect, Use, DeliverNothing, world, asked, history
  <1>6. CASE NativeFetch
    BY <1>6 DEF NativeFetch, Answer, DeliverNothing, world, asked, history
  <1>7. CASE Connect
    BY <1>7 DEF Connect, Use, GoOn, DeliverNothing, world, asked, history
  <1>8. CASE FetchFails
    BY <1>8 DEF FetchFails, Answer, DeliverNothing, world, asked, history
  <1>9. CASE BlockWithoutResult
    BY <1>9 DEF BlockWithoutResult, Answer, DeliverNothing, world, asked, history
  <1>10. CASE OwnerPage
    BY <1>10, <1>p DEF OwnerPage, Deliver, AnswerPage, Answer, world, asked, history
  <1>11. CASE FungiblePage
    <2>1. Newest(limit, FetchedPage \cap Fungible) \subseteq Ids
      BY <1>p DEF Newest
    <2> QED
      BY <1>11, <1>p, <2>1 DEF FungiblePage, Deliver, DeliverNothing, AnswerPage, Answer,
         world, asked, history
  <1>12. CASE PortfolioPage
    <2>1. Newest(MaxRequest, FetchedPage \cap Fungible) \subseteq Ids
      BY <1>p DEF Newest
    <2>2. delivered' \subseteq Ids /\ refused' \subseteq Ids /\ twice' \subseteq Ids
      BY <1>12, <2>1 DEF PortfolioPage, Valued, Deliver, DeliverNothing
    <2>3. /\ pc' \in {"idle", "answered"} \cup Serving
          /\ half' \in {"none", "resolve", "fetch", "done"}
          /\ answer' \in {"none", "page", "end", "error"}
          /\ batch' = {}
      BY <1>12 DEF PortfolioPage, GoOn, Answer
    <2>4. page' \in Nat \ {0}
      BY <1>12 DEF PortfolioPage
    <2>5. UNCHANGED <<net, cursor, nets, wavered, cutShort>> /\ UNCHANGED world
          /\ UNCHANGED asked /\ UNCHANGED history
      BY <1>12 DEF PortfolioPage
    <2> QED
      BY <2>2, <2>3, <2>4, <2>5 DEF world, asked, history
  <1>13. CASE BalancePage
    BY <1>13, <1>p DEF BalancePage, Deliver, Answer, world, asked, history
  <1>14. CASE Signatures
    BY <1>14, <1>p DEF Signatures, GoOn, Answer, DeliverNothing, world, asked, history
  <1>15. CASE Details
    <2>1. batch \ {} \subseteq Ids /\ \A gone \in Omitted : gone \subseteq Ids
      BY DEF Omitted, LeftOutSingly, LeftOutTogether
    <2>2. cursor' \in Ids \cup {None}
      BY <1>15 DEF Details, Oldest
    <2>3. delivered' \subseteq Ids /\ refused' \subseteq Ids /\ twice' \subseteq Ids
      BY <1>15, <2>1 DEF Details, Deliver
    <2>4. /\ pc' \in {"idle", "answered"} \cup Serving
          /\ half' \in {"none", "resolve", "fetch", "done"}
          /\ answer' \in {"none", "page", "end", "error"}
          /\ batch' = {}
      BY <1>15 DEF Details, AnswerPage, Answer
    <2>5. UNCHANGED <<net, page, nets, wavered, cutShort>> /\ UNCHANGED world
          /\ UNCHANGED asked /\ UNCHANGED history
      BY <1>15 DEF Details
    <2> QED
      BY <2>2, <2>3, <2>4, <2>5 DEF world, asked, history
  <1>16. CASE DetailsFail
    BY <1>16 DEF DetailsFail, Answer, DeliverNothing, world, asked, history
  <1>17. CASE Join \/ NativePage
    BY <1>17 DEF Join, NativePage, Answer, DeliverNothing, world, asked, history
  <1>18. ASSUME NEW i \in Ids, Arrive(i) \/ Leave(i) PROVE TypeOK'
    <2>1. listed' \subseteq Ids
      BY <1>18 DEF Arrive, Leave
    <2>2. moves' \in 0..MaxMoves
      BY <1>18 DEF Arrive, Leave
    <2>3. UNCHANGED <<funded, ep, pref, limit, pc, half, net, page, cursor, batch, answer,
                      delivered, refused, start, nets, twice, wavered, cutShort>>
      BY <1>18 DEF Arrive, Leave
    <2> QED
      BY <2>1, <2>2, <2>3
  <1>19. CASE AccountChanges
    BY <1>19 DEF AccountChanges
  <1>20. CASE UNCHANGED vars
    BY <1>20 DEF vars
  <1> QED
    BY <1>1, <1>2, <1>3, <1>4, <1>5, <1>6, <1>7, <1>8, <1>9, <1>10, <1>11, <1>12,
       <1>13, <1>14, <1>15, <1>16, <1>17, <1>18, <1>19, <1>20 DEF Next, Serve, Fetch

\* Every variable keeps its type.
THEOREM TypeCorrect == Spec => []TypeOK
  BY TypeInit, TypeStep, PTL DEF Spec

-----------------------------------------------------------------------------
(* Finite sets of integers and their ranks.                                 *)

LEMMA RankNat ==
    ASSUME NEW S, IsFiniteSet(S), NEW i
    PROVE  Rank(i, S) \in Nat
  <1>1. {j \in S : j > i} \in SUBSET S
    OBVIOUS
  <1> QED
    BY <1>1, FS_Subset, FS_CardinalityType DEF Rank

\* Of two members the older ranks behind.
LEMMA RankStrict ==
    ASSUME NEW S, IsFiniteSet(S), S \subseteq Int, NEW i \in S, NEW j \in S, i < j
    PROVE  Rank(j, S) < Rank(i, S)
  <1> DEFINE A == {x \in S : x > j}
             B == {x \in S : x > i}
  <1>1. B \in SUBSET S
    OBVIOUS
  <1>2. IsFiniteSet(B)
    BY <1>1, FS_Subset
  <1>3. ASSUME NEW x \in A PROVE x \in B
    <2>1. x \in S /\ x > j
      OBVIOUS
    <2>2. x \in Int /\ i \in Int /\ j \in Int
      BY <2>1
    <2>3. x > i
      BY <2>1, <2>2
    <2> QED
      BY <2>1, <2>3
  <1>4. j \in B
    <2>1. i \in Int /\ j \in Int
      OBVIOUS
    <2> QED
      BY <2>1
  <1>5. j \notin A
    <2>1. j \in Int
      OBVIOUS
    <2> QED
      BY <2>1
  <1>6. A \in SUBSET B /\ A # B
    BY <1>3, <1>4, <1>5
  <1> HIDE DEF A, B
  <1>7. IsFiniteSet(A) /\ Cardinality(A) <= Cardinality(B) /\ Cardinality(A) # Cardinality(B)
    BY <1>2, <1>6, FS_Subset
  <1>8. Cardinality(A) \in Nat /\ Cardinality(B) \in Nat
    BY <1>2, <1>7, FS_CardinalityType
  <1>9. Cardinality(A) < Cardinality(B)
    BY <1>7, <1>8
  <1> QED
    BY <1>9 DEF Rank, A, B

\* Of two members of which one ranks before the other, that one is newer.
LEMMA RankOrder ==
    ASSUME NEW S, IsFiniteSet(S), S \subseteq Int, NEW i \in S, NEW j \in S,
           Rank(j, S) < Rank(i, S)
    PROVE  i < j
  <1>1. i \in Int /\ j \in Int
    OBVIOUS
  <1>2. Rank(j, S) \in Nat /\ Rank(i, S) \in Nat
    BY RankNat
  <1>3. CASE j < i
    <2>1. Rank(i, S) < Rank(j, S)
      BY <1>3, RankStrict
    <2> QED
      BY <2>1, <1>2
  <1>4. CASE i = j
    BY <1>4, <1>2
  <1> QED
    BY <1>1, <1>3, <1>4

LEMMA RankBelow ==
    ASSUME NEW S, IsFiniteSet(S), S \subseteq Int, NEW i \in S
    PROVE  Rank(i, S) < Cardinality(S)
  <1> DEFINE A == {x \in S : x > i}
  <1>1. A \in SUBSET S
    OBVIOUS
  <1>2. i \notin A
    <2>1. i \in Int
      OBVIOUS
    <2> QED
      BY <2>1
  <1>3. A # S
    BY <1>2
  <1> HIDE DEF A
  <1>4. IsFiniteSet(A) /\ Cardinality(A) <= Cardinality(S) /\ Cardinality(A) # Cardinality(S)
    BY <1>1, <1>3, FS_Subset
  <1>5. Cardinality(A) \in Nat /\ Cardinality(S) \in Nat
    BY <1>4, FS_CardinalityType
  <1>6. Cardinality(A) < Cardinality(S)
    BY <1>4, <1>5
  <1> QED
    BY <1>6 DEF Rank, A

LEMMA RankInjective ==
    ASSUME NEW S, IsFiniteSet(S), S \subseteq Int, NEW i \in S, NEW j \in S,
           Rank(i, S) = Rank(j, S)
    PROVE  i = j
  <1>1. i \in Int /\ j \in Int /\ Rank(i, S) \in Nat
    BY RankNat
  <1>2. i < j => Rank(j, S) < Rank(i, S)
    BY RankStrict
  <1>3. j < i => Rank(i, S) < Rank(j, S)
    BY RankStrict
  <1> QED
    BY <1>1, <1>2, <1>3

\* Ranks have no gaps: they are an injection into as many numbers as there are
\* members, so that they take each.
LEMMA RankOnto ==
    ASSUME NEW S, IsFiniteSet(S), S \subseteq Int, NEW i \in S, NEW q \in Nat,
           q <= Rank(i, S)
    PROVE  \E j \in S : Rank(j, S) = q
  <1> DEFINE n == Cardinality(S)
             f == [j \in S |-> Rank(j, S)]
  <1>1. n \in Nat /\ n # 0
    BY FS_CardinalityType, FS_EmptySet
  <1>2. ASSUME NEW j \in S PROVE Rank(j, S) \in 0..(n - 1)
    <2>1. Rank(j, S) \in Nat /\ Rank(j, S) < n
      BY RankNat, RankBelow
    <2> HIDE DEF n
    <2> QED
      BY <2>1, <1>1
  <1>3. f \in [S -> 0..(n - 1)]
    BY <1>2
  <1>4. \A x, y \in S : f[x] = f[y] => x = y
    BY RankInjective
  <1>5. f \in Injection(S, 0..(n - 1))
    BY <1>3, <1>4 DEF Injection, IsInjective
  <1> HIDE DEF f
  <1>6. IsFiniteSet(0..(n - 1)) /\ Cardinality(0..(n - 1)) = n
    <2> HIDE DEF n
    <2>1. 0 \in Int /\ n - 1 \in Int
      BY <1>1
    <2> QED
      BY <1>1, <2>1, FS_Interval
  <1>7. f \in Surjection(S, 0..(n - 1))
    BY <1>5, <1>6, FS_Injection
  <1>8. q \in 0..(n - 1)
    <2>1. Rank(i, S) \in Nat /\ Rank(i, S) < n
      BY RankNat, RankBelow
    <2> HIDE DEF n
    <2> QED
      BY <1>1, <2>1
  <1>9. PICK j \in S : f[j] = q
    BY <1>7, <1>8 DEF Surjection
  <1> QED
    BY <1>9 DEF f

\* The newest of a set that is not empty are not none.
LEMMA NewestSome ==
    ASSUME NEW S, IsFiniteSet(S), S \subseteq Int, S # {}, NEW k \in Nat \ {0}
    PROVE  Newest(k, S) # {}
  <1>1. PICK i \in S : TRUE
    OBVIOUS
  <1>2. 0 <= Rank(i, S)
    BY RankNat
  <1>3. PICK j \in S : Rank(j, S) = 0
    BY <1>2, RankOnto
  <1>4. Rank(j, S) < k
    BY <1>3
  <1> QED
    BY <1>4 DEF Newest

-----------------------------------------------------------------------------
(* One network.                                                             *)

\* The network of every request, unless detection wavers.
Steady ==
    IF pref # None THEN pref ELSE IF ep \in Addressed THEN Detected ELSE "mainnet"

\* Detection has no part in it, or has not wavered.
Sure == pref # None \/ ep \notin Addressed \/ ~wavered

\* Before the walk there is nothing.
IdleInv ==
    pc = "idle" =>
        /\ half = "none" /\ net = None /\ cursor = None /\ page = 1 /\ batch = {}
        /\ answer = "none" /\ delivered = {} /\ refused = {} /\ twice = {} /\ nets = {}
        /\ moves = 0 /\ wavered = FALSE /\ cutShort = FALSE

NetInv ==
    /\ Sure => nets \subseteq {Steady}
    /\ net \in nets \cup {None}
    /\ pc \in {"fetch", "details"} => net # None

LEMMA IdleInit == Init => IdleInv
  BY DEF Init, IdleInv

LEMMA IdleStep == IdleInv /\ [Next]_vars => IdleInv'
  <1> SUFFICES ASSUME IdleInv, [Next]_vars PROVE IdleInv'
    OBVIOUS
  <1>1. CASE UNCHANGED vars
    BY <1>1 DEF vars, IdleInv
  <1>2. ASSUME NEW e \in Endpoints, NEW p \in Networks \cup {None}, NEW l \in Limits,
               Begin(e, p, l)
        PROVE  pc' # "idle"
    BY <1>2 DEF Begin
  <1>3. ASSUME Continue \/ Retry PROVE pc' # "idle"
    BY <1>3 DEF Continue, Retry
  <1>4. CASE NativeConnect
    BY <1>4 DEF NativeConnect, IdleInv
  <1>5. ASSUME LookUpWallet \/ Connect \/ Details \/ DetailsFail \/ Join PROVE pc' # "idle"
    BY <1>5 DEF LookUpWallet, Connect, Details, DetailsFail, Join, AnswerPage, Answer, GoOn
  <1>6. CASE NativeFetch
    BY <1>6 DEF NativeFetch, Answer, IdleInv
  <1>7. ASSUME Fetch PROVE pc' # "idle"
    BY <1>7 DEF Fetch, FetchFails, BlockWithoutResult, OwnerPage, FungiblePage, PortfolioPage,
       BalancePage, NativePage, Signatures, AnswerPage, Answer, GoOn
  <1>8. ASSUME NEW i \in Ids, Arrive(i) \/ Leave(i) PROVE IdleInv'
    BY <1>8 DEF Arrive, Leave, Walking, Serving, IdleInv
  <1>9. CASE AccountChanges
    BY <1>9 DEF AccountChanges, Walking, Serving, IdleInv
  <1>10. ASSUME pc' # "idle" PROVE IdleInv'
    BY <1>10 DEF IdleInv
  <1> QED
    BY <1>1, <1>2, <1>3, <1>4, <1>5, <1>6, <1>7, <1>8, <1>9, <1>10 DEF Next, Serve

LEMMA NetInit == Init => NetInv
  BY DEF Init, NetInv

\* A request that is sure of its network goes to the steady one.
LEMMA UseSteady ==
    ASSUME TypeOK, NEW n \in Networks, Use(n), UNCHANGED <<funded, ep, pref>>
    PROVE  Sure' => Sure /\ n = Steady /\ Steady' = Steady
  <1>1. Steady' = Steady
    BY DEF Steady, Detected
  <1>2. CASE pref # None
    BY <1>1, <1>2 DEF Sure, Steady, Use, RpcUrls
  <1>3. CASE pref = None /\ ep \notin Addressed
    BY <1>1, <1>3 DEF Sure, Steady, Use, RpcUrls
  <1>4. CASE pref = None /\ ep \in Addressed
    BY <1>1, <1>4 DEF Sure, Steady, Use, TypeOK
  <1> QED
    BY <1>2, <1>3, <1>4

LEMMA NetStep == TypeOK /\ IdleInv /\ NetInv /\ [Next]_vars => NetInv'
  <1> SUFFICES ASSUME TypeOK, IdleInv, NetInv, [Next]_vars PROVE NetInv'
    OBVIOUS
  <1>1. ASSUME UNCHANGED <<funded, ep, pref, nets, net, wavered>>,
               pc' \in {"fetch", "details"} => net # None
        PROVE  NetInv'
    BY <1>1 DEF NetInv, Sure, Steady, Detected
  <1>2. ASSUME NEW e \in Endpoints, NEW p \in Networks \cup {None}, NEW l \in Limits,
               Begin(e, p, l)
        PROVE  NetInv'
    BY <1>2 DEF Begin, world, IdleInv, NetInv
  <1>3. CASE Continue \/ Retry
    BY <1>3, <1>1 DEF Continue, Retry, world, asked
  <1>4. CASE LookUpWallet
    BY <1>4, <1>1 DEF LookUpWallet, Answer, world, asked
  <1>5. CASE NativeConnect
    <2>1. PICK n \in Networks : Use(n)
      BY <1>5 DEF NativeConnect
    <2>2. UNCHANGED <<funded, ep, pref, net, pc>> /\ nets' = nets \cup {n}
      BY <1>5, <2>1 DEF NativeConnect, Use, world, asked
    <2>3. Sure' => Sure /\ n = Steady /\ Steady' = Steady
      BY <2>1, <2>2, UseSteady
    <2> QED
      BY <2>2, <2>3 DEF NetInv
  <1>6. CASE NativeFetch
    BY <1>6, <1>1 DEF NativeFetch, Answer, NetInv, world, asked
  <1>7. CASE Connect
    <2>1. PICK n \in Networks : Use(n) /\ net' = n
      BY <1>7 DEF Connect
    <2>2. UNCHANGED <<funded, ep, pref>> /\ nets' = nets \cup {n}
      BY <1>7, <2>1 DEF Connect, Use, world, asked
    <2>3. Sure' => Sure /\ n = Steady /\ Steady' = Steady
      BY <2>1, <2>2, UseSteady
    <2> QED
      BY <2>1, <2>2, <2>3 DEF NetInv
  <1>8. CASE Fetch
    <2>1. pc = "fetch"
      BY <1>8 DEF Fetch, FetchFails, BlockWithoutResult, OwnerPage, FungiblePage,
         PortfolioPage, BalancePage, NativePage, Signatures
    <2>2. UNCHANGED <<funded, ep, pref, nets, net, wavered>>
      BY <1>8 DEF Fetch, FetchFails, BlockWithoutResult, OwnerPage, FungiblePage,
         PortfolioPage, BalancePage, NativePage, Signatures, world, asked
    <2> QED
      BY <2>1, <2>2, <1>1 DEF NetInv
  <1>9. CASE Details \/ DetailsFail \/ Join
    BY <1>9, <1>1 DEF Details, DetailsFail, Join, AnswerPage, Answer, world, asked
  <1>10. ASSUME NEW i \in Ids, Arrive(i) \/ Leave(i) PROVE NetInv'
    BY <1>10, <1>1 DEF Arrive, Leave, NetInv
  <1>11. CASE AccountChanges
    BY <1>11 DEF AccountChanges, NetInv, Sure, Steady
  <1>12. CASE UNCHANGED vars
    BY <1>12, <1>1 DEF vars, NetInv
  <1> QED
    BY <1>2, <1>3, <1>4, <1>5, <1>6, <1>7, <1>8, <1>9, <1>10, <1>11, <1>12 DEF Next, Serve

LEMMA NetOne == NetInv => OneNetworkPerWalk
  <1> SUFFICES ASSUME NetInv PROVE OneNetworkPerWalk
    OBVIOUS
  <1>1. pref # None => nets \subseteq {pref}
    BY DEF NetInv, Sure, Steady
  <1>2. ASSUME ~wavered PROVE Cardinality(nets) <= 1
    <2>1. nets \in SUBSET {Steady}
      BY <1>2 DEF NetInv, Sure
    <2>2. IsFiniteSet({Steady}) /\ Cardinality({Steady}) = 1
      BY FS_Singleton
    <2> QED
      BY <2>1, <2>2, FS_Subset
  <1> QED
    BY <1>1, <1>2 DEF OneNetworkPerWalk

\* The pages of a walk and the halves of a balance come from one network, the
\* one asked for if one is asked for, as long as detection does not waver.
THEOREM OneNetwork == Spec => []OneNetworkPerWalk
  BY TypeInit, TypeStep, IdleInit, IdleStep, NetInit, NetStep, NetOne, PTL DEF Spec

-----------------------------------------------------------------------------
(* By cursor.                                                               *)

Ordered == ep \in ByCursor => twice = {}

\* What has been given is not older than the cursor; what is being fetched is.
\* A block is read from its start again when it does not know the cursor: it
\* always does.
CursorInv ==
    ep \in ByCursor =>
        /\ cursor = None => delivered = {}
        /\ cursor # None => /\ \A i \in delivered : i >= cursor
                            /\ \A i \in batch : i < cursor
        /\ ep = "block" => /\ batch \subseteq Listing(Steady) \ Votes
                           /\ cursor # None => cursor \in Listing(Steady) \ Votes

LEMMA SteadyNet ==
    ASSUME NetInv, pc \in {"fetch", "details"}, Sure
    PROVE  net = Steady
  BY DEF NetInv

LEMMA CursorInit == Init => CursorInv /\ Ordered
  BY DEF Init, CursorInv, Ordered, ByCursor

\* A page after the cursor is older than the cursor.
LEMMA FetchedOlder ==
    ASSUME TypeOK, NetInv, CursorInv, pc = "fetch", ep \in ByCursor
    PROVE  /\ cursor # None => \A i \in FetchedPage : i < cursor
           /\ ep = "block" => FetchedPage \subseteq Listing(Steady) \ Votes
  <1>1. CASE ep = "account"
    BY <1>1 DEF FetchedPage, Newest, AfterCursor
  <1>2. CASE ep = "block"
    <2>1. net = Steady
      BY <1>2, SteadyNet DEF Sure, Addressed
    <2>2. FetchedPage \subseteq Listing(Steady) \ Votes
      BY <1>2, <2>1 DEF FetchedPage, Newest, BlockRest, Before
    <2>3. cursor # None => cursor \in Listing(net) \ Votes
      BY <1>2, <2>1 DEF CursorInv
    <2>4. cursor # None => FetchedPage \subseteq Before(cursor, Listing(net) \ Votes)
      BY <1>2, <2>3 DEF FetchedPage, Newest, BlockRest
    <2>5. cursor # None => \A i \in FetchedPage : i < cursor
      BY <2>4 DEF Before
    <2> QED
      BY <1>2, <2>2, <2>5
  <1> QED
    BY <1>1, <1>2 DEF ByCursor

LEMMA CursorStep ==
    TypeOK /\ TypeOK' /\ IdleInv /\ NetInv /\ CursorInv /\ Ordered /\ [Next]_vars
    => CursorInv' /\ Ordered'
  <1> SUFFICES ASSUME TypeOK, TypeOK', IdleInv, NetInv, CursorInv, Ordered, [Next]_vars
               PROVE  CursorInv' /\ Ordered'
    OBVIOUS
  <1> USE DEF ByCursor
  <1>0. ASSUME UNCHANGED <<listed, ep, pref>>, ep = "block"
        PROVE  Listing(Steady)' = Listing(Steady)
    BY <1>0 DEF Listing, Steady, Addressed
  <1>1. ASSUME UNCHANGED <<listed, ep, pref, cursor, delivered, twice>>,
               batch' = batch \/ batch' = {}
        PROVE  CursorInv' /\ Ordered'
    BY <1>1, <1>0 DEF CursorInv, Ordered
  <1>2. ASSUME NEW e \in Endpoints, NEW p \in Networks \cup {None}, NEW l \in Limits,
               Begin(e, p, l)
        PROVE  CursorInv' /\ Ordered'
    BY <1>2 DEF Begin, IdleInv, CursorInv, Ordered
  <1>3. CASE Continue \/ Retry
    BY <1>3, <1>1 DEF Continue, Retry, world, asked
  <1>4. CASE LookUpWallet \/ NativeConnect \/ NativeFetch \/ Connect
    BY <1>4, <1>1 DEF LookUpWallet, NativeConnect, NativeFetch, Connect, Answer, GoOn,
       DeliverNothing, world, asked
  <1>5. CASE FetchFails \/ BlockWithoutResult \/ NativePage \/ DetailsFail \/ Join
    BY <1>5, <1>1 DEF FetchFails, BlockWithoutResult, NativePage, DetailsFail, Join, Answer,
       DeliverNothing, world, asked
  <1>6. CASE OwnerPage \/ FungiblePage \/ PortfolioPage \/ BalancePage
    <2>1. ep' = ep /\ ep \notin ByCursor
      BY <1>6 DEF OwnerPage, FungiblePage, PortfolioPage, BalancePage, Portfolios, asked
    <2> QED
      BY <2>1 DEF CursorInv, Ordered
  <1>7. CASE Signatures
    <2>1. UNCHANGED <<listed, ep, pref, cursor, delivered, twice>>
          /\ (batch' = {} \/ batch' = FetchedPage) /\ pc = "fetch"
      BY <1>7 DEF Signatures, Answer, GoOn, DeliverNothing, world, asked
    <2>2. CASE ep \in ByCursor
      <3>1. /\ cursor # None => \A i \in FetchedPage : i < cursor
            /\ ep = "block" => FetchedPage \subseteq Listing(Steady) \ Votes
        BY <2>1, <2>2, FetchedOlder
      <3> QED
        BY <2>1, <2>2, <3>1, <1>0 DEF CursorInv, Ordered
    <2> QED
      BY <2>1, <2>2 DEF CursorInv, Ordered
  <1>8. CASE Details
    <2>1. PICK gone \in Omitted : Deliver(batch \ gone, gone)
      BY <1>8 DEF Details
    <2>2. UNCHANGED <<listed, ep, pref>> /\ batch' = {}
      BY <1>8 DEF Details, AnswerPage, Answer, world, asked
    <2>3. delivered' \subseteq delivered \cup batch
          /\ twice' \subseteq twice \cup (delivered \cap batch)
      BY <2>1 DEF Deliver
    <2>4. (batch = {} /\ cursor' = cursor) \/ cursor' \in Oldest(batch)
      BY <1>8 DEF Details
    <2>5. CASE ep \in ByCursor
      <3>1. delivered \cap batch = {}
        <4>1. SUFFICES ASSUME NEW i \in delivered, i \in batch PROVE FALSE
          OBVIOUS
        <4>2. cursor # None /\ i >= cursor /\ i < cursor
          BY <4>1, <2>5 DEF CursorInv
        <4>3. cursor \in Int /\ i \in Int
          BY <4>1, <4>2, ListingsAssumption DEF TypeOK
        <4> QED
          BY <4>2, <4>3
      <3>2. CASE batch = {} /\ cursor' = cursor
        BY <3>2, <2>2, <2>3, <2>5, <1>0 DEF CursorInv, Ordered
      <3>3. CASE cursor' \in Oldest(batch)
        <4>1. cursor' \in batch /\ \A i \in batch : i >= cursor'
          BY <3>3 DEF Oldest
        <4>2. cursor' \in Int /\ cursor' # None /\ delivered \subseteq Int
          BY <4>1, ListingsAssumption DEF TypeOK
        <4>3. \A i \in delivered : i >= cursor'
          <5>1. SUFFICES ASSUME NEW i \in delivered PROVE i >= cursor'
            OBVIOUS
          <5>2. cursor # None /\ i >= cursor /\ cursor' < cursor
            BY <4>1, <2>5 DEF CursorInv
          <5>3. cursor \in Int /\ i \in Int
            BY <5>2, <4>2, ListingsAssumption DEF TypeOK
          <5> QED
            BY <5>2, <5>3, <4>2
        <4>4. \A i \in delivered' : i >= cursor'
          BY <4>1, <4>3, <2>3
        <4>5. ep = "block" => cursor' \in Listing(Steady)' \ Votes
          BY <4>1, <2>2, <2>5, <1>0 DEF CursorInv
        <4>6. CursorInv'
          BY <4>2, <4>4, <4>5, <2>2 DEF CursorInv
        <4>7. Ordered'
          BY <2>2, <2>3, <2>5, <3>1 DEF Ordered
        <4> QED
          BY <4>6, <4>7
      <3> QED
        BY <2>4, <3>2, <3>3
    <2> QED
      BY <2>2, <2>5 DEF CursorInv, Ordered
  <1>9. ASSUME NEW i \in Ids, Arrive(i) PROVE CursorInv' /\ Ordered'
    <2>1. UNCHANGED <<ep, pref, cursor, delivered, twice, batch>> /\ ep # "block"
      BY <1>9 DEF Arrive, Fixed
    <2> QED
      BY <2>1 DEF CursorInv, Ordered
  <1>10. ASSUME NEW i \in Ids, Leave(i) PROVE CursorInv' /\ Ordered'
    <2>1. UNCHANGED <<ep, pref, cursor, delivered, twice, batch>> /\ ep # "block"
      BY <1>10 DEF Leave, Fixed, Growing
    <2> QED
      BY <2>1 DEF CursorInv, Ordered
  <1>11. CASE AccountChanges
    BY <1>11, <1>1 DEF AccountChanges
  <1>12. CASE UNCHANGED vars
    BY <1>12, <1>1 DEF vars
  <1> QED
    BY <1>2, <1>3, <1>4, <1>5, <1>6, <1>7, <1>8, <1>9, <1>10, <1>11, <1>12
       DEF Next, Serve, Fetch

-----------------------------------------------------------------------------
(* By page.                                                                 *)

\* The pages that have been given, as a rank: those before the page to ask
\* for, or that page too.
Reached ==
    IF pc = "join" \/ (pc = "answered" /\ (answer # "error" \/ ep \in Portfolios))
    THEN page * PageSize ELSE (page - 1) * PageSize

\* Over a listing that stands still, what has been given ranks before the
\* pages to come, and what is being fetched is the page to ask for.
Paged ==
    /\ twice = {}
    /\ \A i \in delivered : i \in Listing(Steady) /\ Rank(i, Listing(Steady)) < Reached
    /\ batch \subseteq PageOf(page, PageSize, Listing(Steady))

PageInv == ep \notin ByCursor /\ moves = 0 /\ ~wavered => Paged

LEMMA PageArithmetic ==
    ASSUME NEW p \in Nat \ {0}, NEW k \in Nat \ {0}
    PROVE  /\ (p - 1) * k \in Int /\ p * k \in Int
           /\ (p - 1) * k <= p * k
           /\ (p + 1 - 1) * k = p * k
  <1>1. (p - 1) * k = p * k - k
    OBVIOUS
  <1>2. p * k \in Int
    OBVIOUS
  <1>3. p + 1 - 1 = p
    OBVIOUS
  <1> QED
    BY <1>1, <1>2, <1>3

LEMMA PageSizeType == TypeOK => PageSize \in Nat \ {0}
  <1> SUFFICES ASSUME TypeOK PROVE PageSize \in Nat \ {0}
    OBVIOUS
  <1>1. limit \in Nat \ {0} /\ MaxRequest \in Nat \ {0} /\ BalanceLimit \in Nat \ {0}
    BY LimitsAssumption DEF TypeOK
  <1>2. RequestLimit(limit) \in Nat \ {0} /\ RequestLimit(MaxRequest) \in Nat \ {0}
    BY <1>1 DEF RequestLimit
  <1>3. CASE ep = "balance"
    BY <1>1, <1>3 DEF PageSize, Portfolios
  <1>4. CASE ep \in Portfolios
    BY <1>2, <1>4 DEF PageSize, Portfolios
  <1>5. CASE ep = "fungible"
    BY <1>2, <1>5 DEF PageSize, Portfolios
  <1>6. CASE ep \notin Portfolios \cup {"balance", "fungible"}
    BY <1>1, <1>6 DEF PageSize, Portfolios
  <1> QED
    BY <1>3, <1>4, <1>5, <1>6

LEMMA ListingFinite ==
    ASSUME TypeOK, NEW n
    PROVE  IsFiniteSet(Listing(n)) /\ Listing(n) \subseteq Int
  BY ListedIds, ListingsAssumption, FS_Subset

\* Giving a part of the page to ask for gives nothing twice.
LEMMA PageOnce ==
    ASSUME TypeOK, PageInv, ep \notin ByCursor, moves = 0, ~wavered,
           Reached = (page - 1) * PageSize,
           NEW S \in SUBSET PageOf(page, PageSize, Listing(Steady))
    PROVE  /\ delivered \cap S = {}
           /\ \A i \in delivered \cup S : /\ i \in Listing(Steady)
                                          /\ Rank(i, Listing(Steady)) < page * PageSize
  <1> DEFINE L == Listing(Steady)
             k == PageSize
  <1>1. page \in Nat \ {0} /\ k \in Nat \ {0}
    BY PageSizeType DEF TypeOK
  <1>2. /\ (page - 1) * k \in Int /\ page * k \in Int /\ (page - 1) * k <= page * k
    BY <1>1, PageArithmetic
  <1>3. \A i \in S : i \in L /\ (page - 1) * k <= Rank(i, L) /\ Rank(i, L) < page * k
    BY DEF PageOf
  <1>4. \A i \in delivered : i \in L /\ Rank(i, L) < (page - 1) * k
    BY DEF PageInv, Paged
  <1>5. \A i : Rank(i, L) \in Nat
    BY ListingFinite, RankNat
  <1> HIDE DEF k, L
  <1>6. delivered \cap S = {}
    <2>1. SUFFICES ASSUME NEW i \in delivered, i \in S PROVE FALSE
      OBVIOUS
    <2>2. (page - 1) * k <= Rank(i, L) /\ Rank(i, L) < (page - 1) * k
      BY <2>1, <1>3, <1>4
    <2> QED
      BY <2>2, <1>2, <1>5
  <1>7. \A i \in delivered : Rank(i, L) < page * k
    <2>1. SUFFICES ASSUME NEW i \in delivered PROVE Rank(i, L) < page * k
      OBVIOUS
    <2>2. Rank(i, L) < (page - 1) * k /\ Rank(i, L) \in Nat
      BY <1>4, <1>5
    <2> QED
      BY <2>2, <1>2
  <1> QED
    BY <1>3, <1>4, <1>6, <1>7 DEF k, L

\* Where a request can be, and whose it is.
WhereInv ==
    /\ pc # "details" => batch = {}
    /\ pc = "details" => ep \in ByCursor \cup {"cnft"}
    /\ pc = "join" => ep = "complete"
    /\ half # "none" => ep = "complete"
    /\ pc = "wallet" => ep = "complete"

LEMMA WhereInit == Init => WhereInv
  BY DEF Init, WhereInv

LEMMA WhereStep == IdleInv /\ WhereInv /\ [Next]_vars => WhereInv'
  <1> SUFFICES ASSUME IdleInv, WhereInv, [Next]_vars PROVE WhereInv'
    OBVIOUS
  <1> USE DEF ByCursor
  <1>1. ASSUME UNCHANGED ep, Answer("error") \/ Answer("end") \/ Answer("page") PROVE WhereInv'
    BY <1>1 DEF Answer, WhereInv
  <1>2. ASSUME NEW e \in Endpoints, NEW p \in Networks \cup {None}, NEW l \in Limits,
               Begin(e, p, l)
        PROVE  WhereInv'
    BY <1>2 DEF Begin, IdleInv, WhereInv
  <1>3. CASE Continue \/ Retry
    BY <1>3 DEF Continue, Retry, asked, WhereInv
  <1>4. CASE LookUpWallet
    BY <1>4, <1>1 DEF LookUpWallet, asked, WhereInv
  <1>5. CASE NativeConnect
    BY <1>5 DEF NativeConnect, asked, WhereInv
  <1>6. CASE NativeFetch
    BY <1>6, <1>1 DEF NativeFetch, asked, WhereInv
  <1>7. CASE Connect
    BY <1>7 DEF Connect, GoOn, asked, WhereInv
  <1>8. CASE FetchFails \/ BlockWithoutResult \/ NativePage \/ DetailsFail \/ Join
    BY <1>8, <1>1 DEF FetchFails, BlockWithoutResult, NativePage, DetailsFail, Join, asked
  <1>9. CASE OwnerPage \/ FungiblePage \/ BalancePage \/ Details
    BY <1>9, <1>1 DEF OwnerPage, FungiblePage, BalancePage, Details, AnswerPage, asked
  <1>10. CASE PortfolioPage
    BY <1>10, <1>1 DEF PortfolioPage, GoOn, asked, WhereInv
  <1>11. CASE Signatures
    BY <1>11, <1>1 DEF Signatures, GoOn, asked, WhereInv
  <1>12. ASSUME NEW i \in Ids, Arrive(i) \/ Leave(i) PROVE WhereInv'
    BY <1>12 DEF Arrive, Leave, WhereInv
  <1>13. CASE AccountChanges \/ UNCHANGED vars
    BY <1>13 DEF AccountChanges, vars, WhereInv
  <1> QED
    BY <1>2, <1>3, <1>4, <1>5, <1>6, <1>7, <1>8, <1>9, <1>10, <1>11, <1>12, <1>13
       DEF Next, Serve, Fetch

LEMMA PageInit == Init => PageInv
  BY DEF Init, PageInv, Paged

\* A page by number is the page to ask for.
LEMMA FetchedPageOf ==
    ASSUME NetInv, pc = "fetch", ep \notin ByCursor, ~wavered
    PROVE  FetchedPage = PageOf(page, PageSize, Listing(Steady))
  BY SteadyNet DEF FetchedPage, ByCursor, Sure

LEMMA PageStep ==
    TypeOK /\ TypeOK' /\ IdleInv /\ NetInv /\ WhereInv /\ PageInv /\ [Next]_vars => PageInv'
  <1> SUFFICES ASSUME TypeOK, TypeOK', IdleInv, NetInv, WhereInv, PageInv, [Next]_vars,
                      ep' \notin ByCursor, moves' = 0, ~wavered'
               PROVE  Paged'
    BY DEF PageInv
  <1>p. /\ page \in Nat \ {0} /\ PageSize \in Nat \ {0}
        /\ (page - 1) * PageSize \in Int /\ page * PageSize \in Int
        /\ (page - 1) * PageSize <= page * PageSize
        /\ (page + 1 - 1) * PageSize = page * PageSize
    BY PageSizeType, PageArithmetic DEF TypeOK
  <1>r. Reached \in Int /\ Reached <= page * PageSize
    BY <1>p DEF Reached
  <1>n. \A i : Rank(i, Listing(Steady)) \in Nat
    BY ListingFinite, RankNat
  <1>0. ASSUME UNCHANGED <<listed, funded, ep, pref, limit>>
        PROVE  Listing(Steady)' = Listing(Steady) /\ PageSize' = PageSize
    BY <1>0 DEF Listing, Steady, Detected, PageSize
  \* Steps that give nothing.
  <1>1. ASSUME UNCHANGED <<listed, funded, ep, pref, limit, delivered, twice, moves>>,
               wavered => wavered',
               batch' = {} \/ (batch' = batch /\ page' = page),
               Reached' = Reached \/ Reached' = page * PageSize
        PROVE  Paged'
    <2>1. ep \notin ByCursor /\ moves = 0 /\ ~wavered
      BY <1>1
    <2>2. twice' = {}
      BY <1>1, <2>1 DEF PageInv, Paged
    <2>3. ASSUME NEW i \in delivered'
          PROVE  i \in Listing(Steady)' /\ Rank(i, Listing(Steady)') < Reached'
      <3>1. i \in Listing(Steady) /\ Rank(i, Listing(Steady)) < Reached
        BY <1>1, <2>1, <2>3 DEF PageInv, Paged
      <3>2. Rank(i, Listing(Steady)) < Reached'
        BY <3>1, <1>1, <1>r, <1>n, <1>p
      <3> QED
        BY <3>1, <3>2, <1>0, <1>1
    <2>4. batch' \subseteq PageOf(page', PageSize', Listing(Steady)')
      BY <1>1, <1>0, <2>1 DEF PageInv, Paged
    <2> QED
      BY <2>2, <2>3, <2>4 DEF Paged
  \* Steps that give a part of the page to ask for.
  <1>g. ASSUME UNCHANGED <<listed, funded, ep, pref, limit, moves, wavered>>,
               NEW S \in SUBSET PageOf(page, PageSize, Listing(Steady)), NEW gone,
               Deliver(S, gone), batch' = {},
               Reached = (page - 1) * PageSize, Reached' = page * PageSize
        PROVE  Paged'
    <2>1. ep \notin ByCursor /\ moves = 0 /\ ~wavered
      BY <1>g
    <2>2. /\ delivered \cap S = {}
          /\ \A i \in delivered \cup S : /\ i \in Listing(Steady)
                                         /\ Rank(i, Listing(Steady)) < page * PageSize
      BY <1>g, <2>1, PageOnce
    <2>3. twice = {}
      BY <2>1 DEF PageInv, Paged
    <2>4. delivered' = delivered \cup S /\ twice' = {}
      BY <1>g, <2>2, <2>3 DEF Deliver
    <2> QED
      BY <1>g, <1>0, <2>2, <2>4 DEF Paged
  <1>2. ASSUME NEW e \in Endpoints, NEW p \in Networks \cup {None}, NEW l \in Limits,
               Begin(e, p, l)
        PROVE  Paged'
    BY <1>2 DEF Begin, IdleInv, Paged
  \* A page that has been given is not asked for again.
  <1>3. CASE Continue
    <2>1. UNCHANGED <<listed, funded, ep, pref, limit, delivered, twice, moves, wavered>>
          /\ pc' = "resolve" /\ pc = "answered" /\ batch' = batch
      BY <1>3 DEF Continue, world, asked, history
    <2>2. page' = page + 1 /\ batch = {}
      BY <1>3, <2>1 DEF Continue, WhereInv
    <2>3. Reached' = page * PageSize
      BY <2>1, <2>2, <1>0, <1>p DEF Reached
    <2> QED
      BY <2>1, <2>2, <2>3, <1>1
  <1>4. CASE Retry
    <2>1. UNCHANGED <<listed, funded, ep, pref, limit, delivered, twice, moves, wavered>>
          /\ pc' = "resolve" /\ pc = "answered" /\ batch' = batch /\ page' = page
          /\ answer = "error" /\ ep \notin Portfolios
      BY <1>4 DEF Retry, world, asked, history
    <2>2. Reached' = Reached
      BY <2>1, <1>0 DEF Reached
    <2> QED
      BY <2>1, <2>2, <1>1
  <1>5. ASSUME UNCHANGED <<world, asked, history, page>>, DeliverNothing, wavered => wavered',
               Answer("error"), pc \notin {"answered", "join"} \/ ep \in Portfolios
        PROVE  Paged'
    <2>1. UNCHANGED <<listed, funded, ep, pref, limit, delivered, twice, moves>>
          /\ batch' = {} /\ pc' = "answered" /\ answer' = "error"
      BY <1>5 DEF DeliverNothing, Answer, world, asked, history
    <2>2. Reached' = Reached \/ Reached' = page * PageSize
      BY <1>5, <2>1, <1>0 DEF Reached
    <2> QED
      BY <2>1, <2>2, <1>5, <1>1
  <1>6. CASE LookUpWallet
    <2>1. CASE Answer("error")
      BY <1>6, <2>1, <1>5 DEF LookUpWallet
    <2>2. CASE pc' = "resolve" /\ half' = "resolve" /\ UNCHANGED <<answer, batch>>
      <3>1. UNCHANGED <<listed, funded, ep, pref, limit, delivered, twice, moves, wavered>>
            /\ pc = "wallet" /\ page' = page
        BY <1>6 DEF LookUpWallet, DeliverNothing, world, asked, history
      <3>2. Reached' = Reached
        BY <2>2, <3>1, <1>0 DEF Reached
      <3> QED
        BY <2>2, <3>1, <3>2, <1>1
    <2> QED
      BY <1>6, <2>1, <2>2 DEF LookUpWallet
  <1>7. CASE NativeConnect
    <2>1. UNCHANGED <<listed, funded, ep, pref, limit, delivered, twice, moves>>
          /\ UNCHANGED <<pc, page, batch, answer>> /\ (wavered => wavered')
      BY <1>7 DEF NativeConnect, Use, DeliverNothing, world, asked, history
    <2>2. Reached' = Reached
      BY <2>1, <1>0 DEF Reached
    <2> QED
      BY <2>1, <2>2, <1>1
  <1>8. CASE NativeFetch
    <2>1. ep \in Portfolios
      BY <1>8 DEF NativeFetch, WhereInv, Portfolios
    <2>2. CASE Answer("error")
      BY <1>8, <2>1, <2>2, <1>5 DEF NativeFetch
    <2>3. CASE half' = "done" /\ UNCHANGED <<pc, answer, batch>>
      <3>1. UNCHANGED <<listed, funded, ep, pref, limit, delivered, twice, moves, wavered>>
            /\ page' = page
        BY <1>8 DEF NativeFetch, DeliverNothing, world, asked, history
      <3>2. Reached' = Reached
        BY <2>3, <3>1, <1>0 DEF Reached
      <3> QED
        BY <2>3, <3>1, <3>2, <1>1
    <2> QED
      BY <1>8, <2>2, <2>3 DEF NativeFetch
  <1>9. CASE Connect
    <2>1. UNCHANGED <<listed, funded, ep, pref, limit, delivered, twice, moves>>
          /\ UNCHANGED <<page, batch, answer>> /\ (wavered => wavered')
          /\ pc = "resolve" /\ pc' = "fetch"
      BY <1>9 DEF Connect, Use, GoOn, DeliverNothing, world, asked, history
    <2>2. Reached' = Reached
      BY <2>1, <1>0 DEF Reached
    <2> QED
      BY <2>1, <2>2, <1>1
  <1>10. CASE FetchFails \/ DetailsFail
    BY <1>10, <1>5 DEF FetchFails, DetailsFail
  <1>11. CASE BlockWithoutResult
    BY <1>11 DEF BlockWithoutResult, ByCursor, asked
  <1>12. CASE Join \/ NativePage
    <2>1. UNCHANGED <<listed, funded, ep, pref, limit, delivered, twice, moves, wavered>>
          /\ batch' = {} /\ page' = page /\ pc' = "answered" /\ answer' = "end"
      BY <1>12 DEF Join, NativePage, Answer, DeliverNothing, world, asked, history
    <2>2. Reached' = page * PageSize
      BY <2>1, <1>0 DEF Reached
    <2> QED
      BY <2>1, <2>2, <1>1
  \* The pages.
  <1>f. ASSUME Fetch, UNCHANGED <<ep, moves, wavered>>
        PROVE  /\ FetchedPage = PageOf(page, PageSize, Listing(Steady))
               /\ Reached = (page - 1) * PageSize
    <2>1. pc = "fetch"
      BY <1>f DEF Fetch, FetchFails, BlockWithoutResult, OwnerPage, FungiblePage,
         PortfolioPage, BalancePage, NativePage, Signatures
    <2>2. ep \notin ByCursor /\ ~wavered
      BY <1>f
    <2> QED
      BY <2>1, <2>2, FetchedPageOf DEF Reached
  <1>13. CASE OwnerPage
    <2>1. UNCHANGED <<listed, funded, ep, pref, limit, page, moves, wavered>>
          /\ batch' = {} /\ pc' = "answered" /\ answer' # "error" /\ Deliver(FetchedPage, {})
      BY <1>13 DEF OwnerPage, AnswerPage, Answer, world, asked, history
    <2>2. Reached' = page * PageSize
      BY <2>1, <1>0 DEF Reached
    <2> QED
      BY <1>13, <2>1, <2>2, <1>f, <1>g DEF Fetch
  <1>14. CASE FungiblePage
    <2> DEFINE tokens == FetchedPage \cap Fungible
               given  == Newest(limit, tokens)
    <2>1. UNCHANGED <<listed, funded, ep, pref, limit, page, moves, wavered>>
          /\ UNCHANGED <<world, asked, history>> /\ pc = "fetch" /\ ep \notin Portfolios
      BY <1>14 DEF FungiblePage, Portfolios, world, asked, history
    <2>2. CASE given \cap Bare = {}
      <3>1. batch' = {} /\ pc' = "answered" /\ answer' # "error"
            /\ Deliver(given, {})
        BY <1>14, <2>2 DEF FungiblePage, AnswerPage, Answer
      <3>2. Reached' = page * PageSize
        BY <2>1, <3>1, <1>0 DEF Reached
      <3>3. given \in SUBSET FetchedPage
        BY DEF Newest
      <3> HIDE DEF given, tokens
      <3> QED
        BY <1>14, <2>1, <3>1, <3>2, <3>3, <1>f, <1>g DEF Fetch
    <2>3. CASE given \cap Bare # {}
      <3>1. DeliverNothing /\ Answer("error")
        BY <1>14, <2>3 DEF FungiblePage
      <3> QED
        BY <2>1, <3>1, <1>5
    <2> QED
      BY <2>2, <2>3
  <1>15. CASE PortfolioPage
    <2> DEFINE tokens == FetchedPage \cap Fungible
               valued == Valued(Newest(MaxRequest, tokens))
    <2>1. UNCHANGED <<listed, funded, ep, pref, limit, moves, wavered>>
          /\ UNCHANGED <<world, asked, history>> /\ pc = "fetch" /\ ep \in Portfolios
      BY <1>15 DEF PortfolioPage, world, asked, history
    <2>2. CASE tokens \cap Bare # {}
      <3>1. DeliverNothing /\ Answer("error") /\ UNCHANGED page
        BY <1>15, <2>2 DEF PortfolioPage
      <3> QED
        BY <2>1, <3>1, <1>5
    <2>3. CASE tokens \cap Bare = {}
      <3>1. Deliver(valued, {}) /\ batch' = {}
        BY <1>15, <2>3 DEF PortfolioPage, Answer
      <3>2. \/ pc' = "resolve" /\ page' = page + 1
            \/ pc' = "join" /\ page' = page
            \/ pc' = "answered" /\ page' = page
        BY <1>15, <2>3 DEF PortfolioPage, GoOn, Answer
      <3>3. Reached' = page * PageSize
        BY <2>1, <3>2, <1>0, <1>p DEF Reached
      <3>4. valued \in SUBSET FetchedPage
        BY DEF Newest, Valued
      <3> HIDE DEF valued, tokens
      <3> QED
        BY <1>15, <2>1, <3>1, <3>3, <3>4, <1>f, <1>g DEF Fetch
    <2> QED
      BY <2>2, <2>3
  <1>16. CASE BalancePage
    <2>1. UNCHANGED <<listed, funded, ep, pref, limit, page, moves, wavered>>
          /\ batch' = {} /\ pc' = "answered" /\ answer' # "error"
          /\ Deliver(FetchedPage \cap Fungible, {})
      BY <1>16 DEF BalancePage, Answer, world, asked, history
    <2>2. Reached' = page * PageSize
      BY <2>1, <1>0 DEF Reached
    <2> QED
      BY <1>16, <2>1, <2>2, <1>f, <1>g DEF Fetch
  <1>17. CASE Signatures
    <2>1. UNCHANGED <<listed, funded, ep, pref, limit, page, delivered, twice, moves, wavered>>
          /\ pc = "fetch"
      BY <1>17 DEF Signatures, DeliverNothing, world, asked, history
    <2>2. CASE Answer("end")
      <3>1. Reached' = page * PageSize /\ batch' = {}
        BY <2>1, <2>2, <1>0 DEF Answer, Reached
      <3> QED
        BY <2>1, <3>1, <1>1
    <2>3. CASE batch' = FetchedPage /\ GoOn("details")
      <3>1. Reached' = Reached
        BY <2>1, <2>3, <1>0 DEF GoOn, Reached
      <3>2. batch' \subseteq PageOf(page', PageSize', Listing(Steady)')
        BY <1>17, <2>1, <2>3, <1>f, <1>0 DEF Fetch
      <3>3. ep \notin ByCursor /\ moves = 0 /\ ~wavered
        BY <2>1
      <3> QED
        BY <2>1, <3>1, <3>2, <3>3, <1>0 DEF PageInv, Paged
    <2> QED
      BY <1>17, <2>2, <2>3 DEF Signatures
  <1>18. CASE Details
    <2>1. PICK gone \in Omitted : Deliver(batch \ gone, gone)
      BY <1>18 DEF Details
    <2>2. UNCHANGED <<listed, funded, ep, pref, limit, page, moves, wavered>>
          /\ batch' = {} /\ pc' = "answered" /\ answer' # "error" /\ pc = "details"
      BY <1>18 DEF Details, AnswerPage, Answer, world, asked, history
    <2>3. Reached = (page - 1) * PageSize /\ Reached' = page * PageSize
      BY <2>2, <1>0 DEF Reached
    <2>4. batch \ gone \in SUBSET PageOf(page, PageSize, Listing(Steady))
      BY <2>2 DEF PageInv, Paged
    <2> QED
      BY <2>1, <2>2, <2>3, <2>4, <1>g
  <1>19. ASSUME NEW i \in Ids, Arrive(i) \/ Leave(i) PROVE Paged'
    <2>1. moves' = moves + 1 /\ moves \in Nat
      BY <1>19 DEF Arrive, Leave, TypeOK
    <2> QED
      BY <2>1
  <1>20. CASE AccountChanges
    BY <1>20 DEF AccountChanges
  <1>21. CASE UNCHANGED vars
    <2>1. UNCHANGED <<listed, funded, ep, pref, limit, delivered, twice, moves, wavered>>
          /\ UNCHANGED <<page, batch, pc, answer>>
      BY <1>21 DEF vars
    <2>2. Reached' = Reached
      BY <2>1, <1>0 DEF Reached
    <2> QED
      BY <2>1, <2>2, <1>1
  <1> QED
    BY <1>2, <1>3, <1>4, <1>6, <1>7, <1>8, <1>9, <1>10, <1>11, <1>12, <1>13, <1>14, <1>15,
       <1>16, <1>17, <1>18, <1>19, <1>20, <1>21 DEF Next, Serve, Fetch

LEMMA OncePerWalk == TypeOK /\ Ordered /\ PageInv => NothingTwice
  <1> SUFFICES ASSUME TypeOK, Ordered, PageInv, twice # {}
               PROVE  ep \notin ByCursor /\ (moves > 0 \/ wavered)
    BY DEF NothingTwice
  <1>1. ep \notin ByCursor
    BY DEF Ordered
  <1>2. moves # 0 \/ wavered
    BY <1>1 DEF PageInv, Paged
  <1>3. moves # 0 => moves > 0
    BY LimitsAssumption DEF TypeOK
  <1> QED
    BY <1>1, <1>2, <1>3

\* Nothing is given to a caller twice: never by cursor, and by page number not
\* while the listing stands still on one network.
THEOREM GivenOnce == Spec => []NothingTwice
  BY TypeInit, TypeStep, IdleInit, IdleStep, NetInit, NetStep, WhereInit, WhereStep,
     CursorInit, CursorStep, PageInit, PageStep, OncePerWalk, PTL DEF Spec

-----------------------------------------------------------------------------
(* Nothing is skipped.                                                      *)

\* What the caller of a walk by cursor is still to be given.
Due ==
    {i \in start : Home[i] = Steady /\ (ep = "block" => i \notin Votes)}
        \ (delivered \cup refused)

\* It is listed, older than the cursor and in the batch or older than all of it.
Front ==
    /\ start \subseteq listed
    /\ ep = "account" => /\ batch \subseteq Listing(Steady)
                         /\ cursor # None => cursor \in Listing(Steady)
    /\ cursor # None => \A i \in Due : i < cursor
    /\ pc = "details" =>
          \A i \in Due : batch # {} /\ (i \in batch \/ \A b \in batch : i < b)
    /\ answer = "end" => Due = {}

FrontInv == ep \in ByCursor /\ ~wavered /\ ~cutShort => Front

\* What is left out of the newest is older than all of them.
LEMMA NewestFront ==
    ASSUME NEW S, IsFiniteSet(S), S \subseteq Int, NEW k \in Nat \ {0}, NEW i \in S
    PROVE  /\ Newest(k, S) # {}
           /\ i \in Newest(k, S) \/ \A b \in Newest(k, S) : i < b
  <1>1. Newest(k, S) # {}
    BY NewestSome
  <1>2. ASSUME i \notin Newest(k, S), NEW b \in Newest(k, S) PROVE i < b
    <2>1. b \in S /\ Rank(b, S) < k /\ ~(Rank(i, S) < k)
      BY <1>2 DEF Newest
    <2>2. Rank(b, S) \in Nat /\ Rank(i, S) \in Nat
      BY RankNat
    <2>3. Rank(b, S) < Rank(i, S)
      BY <2>1, <2>2
    <2> QED
      BY <2>1, <2>3, RankOrder
  <1> QED
    BY <1>1, <1>2

LEMMA FrontInit == Init => FrontInv
  BY DEF Init, FrontInv, ByCursor

\* What a page is cut from: all that is due is there.
LEMMA DueFetched ==
    ASSUME TypeOK, NetInv, CursorInv, ep \in ByCursor, ~wavered, pc = "fetch", Front,
           NEW i \in Due
    PROVE  FetchedPage # {} /\ (i \in FetchedPage \/ \A b \in FetchedPage : i < b)
  <1>1. net = Steady
    BY SteadyNet DEF Sure
  <1>2. i \in Listing(Steady) /\ (cursor # None => i < cursor)
    BY DEF Due, Front, Listing
  <1>3. CASE ep = "account"
    <2>1. i \in AfterCursor(net)
      BY <1>1, <1>2, <1>3 DEF AfterCursor, Front
    <2>2. AfterCursor(net) \in SUBSET Listing(net)
      BY DEF AfterCursor
    <2>3. IsFiniteSet(AfterCursor(net)) /\ AfterCursor(net) \subseteq Int
      BY <2>2, ListingFinite, FS_Subset
    <2>4. FetchedPage = Newest(MaxRequest, AfterCursor(net))
      BY <1>3 DEF FetchedPage
    <2> QED
      BY <2>1, <2>3, <2>4, NewestFront, LimitsAssumption
  <1>4. CASE ep = "block"
    <2>1. cursor # None => cursor \in Listing(net) \ Votes
      BY <1>1, <1>4 DEF CursorInv, ByCursor
    <2>2. i \in Listing(net) \ Votes
      BY <1>1, <1>2, <1>4 DEF Due
    <2>3. i \in BlockRest(net)
      BY <1>2, <2>1, <2>2 DEF BlockRest, Before
    <2>4. BlockRest(net) \in SUBSET Listing(net)
      BY DEF BlockRest, Before
    <2>5. IsFiniteSet(BlockRest(net)) /\ BlockRest(net) \subseteq Int
      BY <2>4, ListingFinite, FS_Subset
    <2>6. FetchedPage = Newest(limit, BlockRest(net)) /\ limit \in Nat \ {0}
      BY <1>4 DEF FetchedPage, TypeOK
    <2> QED
      BY <2>3, <2>5, <2>6, NewestFront
  <1> QED
    BY <1>3, <1>4 DEF ByCursor

LEMMA FrontStep ==
    TypeOK /\ TypeOK' /\ IdleInv /\ NetInv /\ WhereInv /\ CursorInv /\ FrontInv /\ [Next]_vars
    => FrontInv'
  <1> SUFFICES ASSUME TypeOK, TypeOK', IdleInv, NetInv, WhereInv, CursorInv, FrontInv,
                      [Next]_vars, ep' \in ByCursor, ~wavered', ~cutShort'
               PROVE  Front'
    BY DEF FrontInv
  <1>0. ASSUME UNCHANGED <<funded, ep, pref, start>>
        PROVE  /\ Steady' = Steady
               /\ delivered \subseteq delivered' /\ refused \subseteq refused' => Due' \subseteq Due
    BY <1>0 DEF Steady, Detected, Due
  <1>f. ASSUME ep' = ep, wavered => wavered', cutShort => cutShort'
        PROVE  Front /\ ep \in ByCursor /\ ~wavered /\ ~cutShort
    BY <1>f DEF FrontInv
  \* Steps that give nothing and do not come to the end.
  <1>1. ASSUME UNCHANGED <<funded, ep, pref, start, cursor, delivered, refused>>,
               listed \subseteq listed', wavered => wavered', cutShort => cutShort',
               batch' = {} \/ batch' = batch,
               pc' = "details" => pc = "details" /\ batch' = batch,
               answer' = "end" => answer = "end"
        PROVE  Front'
    <2>1. Steady' = Steady /\ Due' = Due
      BY <1>1, <1>0 DEF Due
    <2>2. Front
      BY <1>1, <1>f
    <2>3. Listing(Steady) \subseteq Listing(Steady)'
      BY <1>1, <2>1 DEF Listing
    <2> QED
      BY <1>1, <2>1, <2>2, <2>3 DEF Front
  <1>2. ASSUME NEW e \in Endpoints, NEW p \in Networks \cup {None}, NEW l \in Limits,
               Begin(e, p, l)
        PROVE  Front'
    BY <1>2 DEF Begin, IdleInv, Front, world
  <1>3. CASE Continue \/ Retry
    BY <1>3, <1>1 DEF Continue, Retry, world, asked, history
  <1>4. CASE LookUpWallet \/ NativeFetch \/ FetchFails \/ DetailsFail
    BY <1>4, <1>1 DEF LookUpWallet, NativeFetch, FetchFails, DetailsFail, Answer,
       DeliverNothing, world, asked, history
  <1>5. CASE NativeConnect \/ Connect
    <2>1. wavered => wavered'
      BY <1>5 DEF NativeConnect, Connect, Use
    <2> QED
      BY <1>5, <2>1, <1>1 DEF NativeConnect, Connect, GoOn, DeliverNothing, world, asked, history
  <1>6. CASE BlockWithoutResult
    BY <1>6 DEF BlockWithoutResult
  <1>7. CASE OwnerPage \/ FungiblePage \/ PortfolioPage \/ BalancePage \/ NativePage \/ Join
    <2>1. ep' = ep /\ ep \notin ByCursor
      BY <1>7 DEF OwnerPage, FungiblePage, PortfolioPage, BalancePage, NativePage, Join, WhereInv,
         ByCursor, Portfolios, asked
    <2> QED
      BY <2>1
  <1>8. CASE Signatures
    <2>1. UNCHANGED <<listed, funded, ep, pref, start, cursor, delivered, refused, wavered, cutShort>>
          /\ pc = "fetch"
      BY <1>8 DEF Signatures, DeliverNothing, world, asked, history
    <2>2. Front /\ ep \in ByCursor /\ ~wavered /\ net = Steady
      BY <2>1, <1>f, SteadyNet DEF Sure
    <2>3. Steady' = Steady /\ Due' = Due /\ Listing(Steady)' = Listing(Steady)
      BY <2>1, <1>0 DEF Due, Listing
    <2>4. \A i \in Due : FetchedPage # {} /\ (i \in FetchedPage \/ \A b \in FetchedPage : i < b)
      BY <2>1, <2>2, DueFetched
    <2>5. FetchedPage \subseteq Listing(Steady)
      BY <2>2, FetchedListed
    <2>6. CASE FetchedPage = {} /\ Answer("end")
      <3>1. Due = {}
        BY <2>4, <2>6
      <3> QED
        BY <2>1, <2>2, <2>3, <2>6, <3>1 DEF Answer, Front
    <2>7. CASE batch' = FetchedPage /\ GoOn("details")
      BY <2>1, <2>2, <2>3, <2>4, <2>5, <2>7 DEF GoOn, Front, IdleInv
    <2> QED
      BY <1>8, <2>6, <2>7 DEF Signatures
  <1>9. CASE Details
    <2>1. PICK gone \in Omitted : Deliver(batch \ gone, gone)
      BY <1>9 DEF Details
    <2>2. UNCHANGED <<listed, funded, ep, pref, start, wavered, cutShort>>
          /\ batch' = {} /\ pc' = "answered" /\ pc = "details"
          /\ answer' = (IF batch = {} THEN "end" ELSE "page")
      BY <1>9 DEF Details, AnswerPage, Answer, world, asked, history
    <2>3. Front
      BY <2>2, <1>f
    <2>4. delivered' \cup refused' = delivered \cup refused \cup batch \cup gone
          /\ delivered \subseteq delivered' /\ refused \subseteq refused'
      BY <2>1 DEF Deliver
    <2>5. Steady' = Steady /\ Due' \subseteq Due \ batch /\ Listing(Steady)' = Listing(Steady)
      BY <2>2, <2>4, <1>0 DEF Due, Listing
    <2>6. CASE batch = {}
      <3>1. Due = {} /\ cursor' = cursor
        BY <1>9, <2>2, <2>3, <2>6 DEF Details, Front
      <3> QED
        BY <2>2, <2>3, <2>5, <3>1 DEF Front
    <2>7. CASE batch # {}
      <3>1. cursor' \in batch
        BY <1>9, <2>7 DEF Details, Oldest
      <3>2. \A i \in Due' : i < cursor'
        BY <2>2, <2>3, <2>5, <3>1 DEF Front
      <3> QED
        BY <2>2, <2>3, <2>5, <2>7, <3>1, <3>2 DEF Front
    <2> QED
      BY <2>6, <2>7
  <1>10. ASSUME NEW i \in Ids, Arrive(i) PROVE Front'
    BY <1>10, <1>1 DEF Arrive
  <1>11. ASSUME NEW i \in Ids, Leave(i) PROVE Front'
    BY <1>11 DEF Leave, Growing, Fixed, ByCursor
  <1>12. CASE AccountChanges
    BY <1>12 DEF AccountChanges
  <1>13. CASE UNCHANGED vars
    BY <1>13, <1>1 DEF vars
  <1> QED
    BY <1>2, <1>3, <1>4, <1>5, <1>6, <1>7, <1>8, <1>9, <1>10, <1>11, <1>12, <1>13
       DEF Next, Serve, Fetch

LEMMA FrontEnd == NetInv /\ FrontInv /\ TypeOK => NothingSkipped
  <1> SUFFICES ASSUME NetInv, FrontInv, TypeOK, ep \in ByCursor, answer = "end", ~wavered,
                      ~cutShort, NEW i \in Missing, i \notin refused
               PROVE  FALSE
    BY DEF NothingSkipped
  <1>1. i \in Ids /\ i \in start /\ Home[i] = net /\ i \notin delivered \cup refused
    BY DEF Missing, Promised, TypeOK
  <1>2. net = Steady
    BY <1>1, ListingsAssumption DEF NetInv, Sure
  <1>3. ep = "block" => i \notin Votes
    BY DEF Missing, Promised, Wanted, Portfolios
  <1>4. i \in Due
    BY <1>1, <1>2, <1>3 DEF Due
  <1> QED
    BY <1>4 DEF FrontInv, Front

\* Whoever follows the cursors to the end, on one network and without an error of
\* getBlock, has been given everything that was there when the walk began but for
\* the transactions whose details the provider has refused.
THEOREM GivenAll == Spec => []NothingSkipped
  BY TypeInit, TypeStep, IdleInit, IdleStep, NetInit, NetStep, WhereInit, WhereStep,
     CursorInit, CursorStep, FrontInit, FrontStep, FrontEnd, PTL DEF Spec

-----------------------------------------------------------------------------
(* Pages to the end.                                                        *)

\* The pages whose every item is accounted for, as a rank: a page that ended
\* in an error is not one of them.
Covered ==
    IF pc = "join" \/ (pc = "answered" /\ answer # "error")
    THEN page * PageSize ELSE (page - 1) * PageSize

Stopped == pc = "join" \/ answer = "end"

\* A page that is not the last one stands between i and what has been given only
\* for something the filter drops.
Passed(i) == ep = "balance" \/ \E j \in Listing(Steady) \ Wanted : j > i

\* Why i is not missed, or why it is: its details were refused, or it was cut off.
Trimmed(i) ==
    \E p \in 1..page :
        LET asset == PageOf(p, PageSize, Listing(Steady))
        IN  i \in asset /\ i \notin Newest(limit, asset \cap Fungible)

Accounted(i) ==
    \/ i \in delivered
    \/ ep = "cnft" /\ i \in refused
    \/ ep = "fungible" /\ Trimmed(i)

Walked ==
    /\ start = listed
    /\ ep = "balance" => page = 1 /\ answer # "page"
    /\ answer = "end" => pc = "answered"
    /\ pc = "details" => batch = PageOf(page, PageSize, Listing(Steady))
    /\ \A i \in Listing(Steady) \cap Wanted :
          /\ Rank(i, Listing(Steady)) < Covered => Accounted(i)
          /\ Stopped /\ Rank(i, Listing(Steady)) >= Covered => Passed(i)

WalkInv == ep \notin ByCursor /\ moves = 0 /\ ~wavered /\ pc # "idle" => Walked

\* A page has as many items as it can hold at most, and so many when anything ranks
\* behind it: its ranks are different and between its bounds, and without gaps.
LEMMA PageCount ==
    ASSUME NEW S, IsFiniteSet(S), S \subseteq Int, NEW p \in Nat \ {0}, NEW k \in Nat \ {0}
    PROVE  /\ IsFiniteSet(PageOf(p, k, S))
           /\ Cardinality(PageOf(p, k, S)) <= k
           /\ (\E i \in S : Rank(i, S) >= p * k) => Cardinality(PageOf(p, k, S)) = k
  <1> DEFINE P == PageOf(p, k, S)
             a == (p - 1) * k
             b == p * k
             f == [j \in P |-> Rank(j, S)]
  <1>1. a \in Int /\ b \in Int /\ a + k = b /\ a \in Nat
    <2>1. (p - 1) * k = p * k - k
      OBVIOUS
    <2>2. p - 1 \in Nat
      OBVIOUS
    <2> QED
      BY <2>1, <2>2
  <1>2. P \in SUBSET S /\ \A j \in P : a <= Rank(j, S) /\ Rank(j, S) < b
    BY DEF PageOf
  <1>3. \A j \in S : a <= Rank(j, S) /\ Rank(j, S) < b => j \in P
    BY DEF PageOf
  <1>4. \A j \in S : Rank(j, S) \in Nat
    BY RankNat
  <1> HIDE DEF P, a, b
  <1>5. IsFiniteSet(a..(b - 1)) /\ Cardinality(a..(b - 1)) = k
    BY <1>1, FS_Interval
  <1>6. \A j \in P : Rank(j, S) \in a..(b - 1)
    BY <1>1, <1>2, <1>4
  <1>7. f \in Injection(P, a..(b - 1))
    <2>1. f \in [P -> a..(b - 1)]
      BY <1>6
    <2>2. \A x, y \in P : f[x] = f[y] => x = y
      BY <1>2, RankInjective
    <2> QED
      BY <2>1, <2>2 DEF Injection, IsInjective
  <1>8. IsFiniteSet(P) /\ Cardinality(P) <= k
        /\ (Cardinality(P) = k <=> f \in Surjection(P, a..(b - 1)))
    BY <1>5, <1>7, FS_Injection
  <1>9. ASSUME NEW i \in S, Rank(i, S) >= b PROVE f \in Surjection(P, a..(b - 1))
    <2>1. ASSUME NEW q \in a..(b - 1) PROVE \E j \in P : f[j] = q
      <3>1. q \in Nat /\ a <= q /\ q < b /\ q <= Rank(i, S)
        BY <1>1, <1>4, <1>9
      <3>2. PICK j \in S : Rank(j, S) = q
        BY <3>1, RankOnto
      <3> QED
        BY <1>3, <3>1, <3>2
    <2>2. f \in [P -> a..(b - 1)]
      BY <1>6
    <2> HIDE DEF f
    <2> QED
      BY <2>1, <2>2 DEF Surjection
  <1> QED
    BY <1>8, <1>9 DEF P, b

\* What is before a page in the listing is newer than what is behind it.
LEMMA BehindPage ==
    ASSUME NEW S, IsFiniteSet(S), S \subseteq Int, NEW p \in Nat \ {0}, NEW k \in Nat \ {0},
           NEW i \in S, Rank(i, S) >= p * k
    PROVE  /\ \A j \in PageOf(p, k, S) : j > i
           /\ PageOf(p, k, S) # {}
  <1>1. (p - 1) * k \in Nat /\ (p - 1) * k < p * k /\ p * k \in Int
    <2>1. (p - 1) * k = p * k - k
      OBVIOUS
    <2>2. p - 1 \in Nat
      OBVIOUS
    <2>3. (p - 1) * k \in Nat /\ p * k \in Int
      BY <2>2
    <2> QED
      BY <2>1, <2>3
  <1>2. Rank(i, S) \in Nat
    BY RankNat
  <1>3. ASSUME NEW j \in PageOf(p, k, S) PROVE j > i
    <2>1. j \in S /\ Rank(j, S) < p * k /\ Rank(j, S) \in Nat
      BY RankNat DEF PageOf
    <2>2. Rank(j, S) < Rank(i, S)
      BY <2>1, <1>1, <1>2
    <2>3. i < j
      BY <2>1, <2>2, RankOrder
    <2>4. i \in Int /\ j \in Int
      BY <2>1
    <2> QED
      BY <2>3, <2>4
  <1>4. (p - 1) * k <= Rank(i, S)
    BY <1>1, <1>2
  <1>5. PICK j \in S : Rank(j, S) = (p - 1) * k
    BY <1>1, <1>4, RankOnto
  <1>6. j \in PageOf(p, k, S)
    BY <1>1, <1>5 DEF PageOf
  <1> QED
    BY <1>3, <1>6

LEMMA NewestAll ==
    ASSUME NEW S, IsFiniteSet(S), S \subseteq Int, NEW k \in Nat, Cardinality(S) <= k
    PROVE  Newest(k, S) = S
  <1>1. ASSUME NEW i \in S PROVE Rank(i, S) < k
    <2>1. Rank(i, S) \in Nat /\ Rank(i, S) < Cardinality(S) /\ Cardinality(S) \in Nat
      BY RankNat, RankBelow, FS_CardinalityType
    <2> QED
      BY <2>1
  <1> QED
    BY <1>1 DEF Newest

LEMMA WantedKinds ==
    ASSUME TypeOK
    PROVE  /\ ep \in Portfolios => Wanted = Fungible \cap Priced
           /\ ep \in {"fungible", "balance"} => Wanted = Fungible
           /\ ep = "native" => Wanted = {}
  BY DEF Wanted, Portfolios

\* A round of a portfolio values all the priced tokens of its page: no page of theirs
\* is larger than the limit.
LEMMA PortfolioRound ==
    ASSUME TypeOK, ep \in Portfolios
    PROVE  LET P == PageOf(page, PageSize, Listing(Steady))
               valued == Valued(Newest(MaxRequest, P \cap Fungible))
           IN  /\ valued = P \cap Wanted
               /\ Cardinality(valued) # MaxRequest =>
                     \A i \in Listing(Steady) :
                        Rank(i, Listing(Steady)) >= page * PageSize =>
                           \E j \in Listing(Steady) \ Wanted : j > i
  <1> DEFINE L == Listing(Steady)
             P == PageOf(page, PageSize, L)
             tokens == P \cap Fungible
             valued == Valued(Newest(MaxRequest, tokens))
  <1>1. PageSize = MaxRequest /\ MaxRequest \in Nat \ {0} /\ page \in Nat \ {0}
    <2>1. PageSize = RequestLimit(MaxRequest)
      BY DEF PageSize, Portfolios
    <2> QED
      BY <2>1, LimitsAssumption DEF RequestLimit, TypeOK
  <1>2. IsFiniteSet(L) /\ L \subseteq Int
    BY ListingFinite
  <1>3. P \in SUBSET L
    BY DEF PageOf
  <1> HIDE DEF L
  <1>4. IsFiniteSet(P) /\ Cardinality(P) <= MaxRequest
    BY <1>1, <1>2, PageCount
  <1> HIDE DEF P
  <1>5. IsFiniteSet(tokens) /\ tokens \subseteq Int /\ Cardinality(tokens) <= MaxRequest
    <2>1. tokens \in SUBSET P
      OBVIOUS
    <2>2. IsFiniteSet(tokens) /\ Cardinality(tokens) <= Cardinality(P)
      BY <2>1, <1>4, FS_Subset
    <2>3. Cardinality(tokens) \in Nat /\ Cardinality(P) \in Nat
      BY <1>4, <2>2, FS_CardinalityType
    <2>4. tokens \subseteq Int
      BY <2>1, <1>2, <1>3
    <2> HIDE DEF tokens
    <2> QED
      BY <2>2, <2>3, <2>4, <1>1, <1>4
  <1>6. Newest(MaxRequest, tokens) = tokens
    <2> HIDE DEF tokens
    <2> QED
      BY <1>1, <1>5, NewestAll
  <1>7. valued = P \cap Wanted
    BY <1>6, WantedKinds DEF Valued
  <1>8. ASSUME Cardinality(valued) # MaxRequest, NEW i \in L, Rank(i, L) >= page * PageSize
        PROVE  \E j \in L \ Wanted : j > i
    <2>1. Cardinality(P) = MaxRequest
      BY <1>1, <1>2, <1>8, PageCount DEF P
    <2>2. valued # P
      BY <2>1, <1>8
    <2>3. PICK j \in P : j \notin Wanted
      BY <2>2, <1>7
    <2>4. j > i
      BY <1>1, <1>2, <1>8, <2>3, BehindPage DEF P
    <2> QED
      BY <2>3, <2>4, <1>3
  <1> QED
    BY <1>7, <1>8 DEF P, L

\* A page with nothing on it that is wanted is the last, or is full of what is not.
LEMMA EmptyPage ==
    ASSUME TypeOK, PageOf(page, PageSize, Listing(Steady)) \cap Wanted = {},
           NEW i \in Listing(Steady), Rank(i, Listing(Steady)) >= page * PageSize
    PROVE  \E j \in Listing(Steady) \ Wanted : j > i
  <1> DEFINE L == Listing(Steady)
             P == PageOf(page, PageSize, L)
  <1>1. page \in Nat \ {0} /\ PageSize \in Nat \ {0} /\ IsFiniteSet(L) /\ L \subseteq Int
    BY PageSizeType, ListingFinite DEF TypeOK
  <1>2. P \subseteq L /\ P \cap Wanted = {}
    BY DEF PageOf
  <1> HIDE DEF L
  <1>3. (\A j \in P : j > i) /\ P # {}
    BY <1>1, BehindPage DEF L
  <1> HIDE DEF P
  <1> QED
    BY <1>2, <1>3 DEF L

LEMMA WalkInit == Init => WalkInv
  BY DEF Init, WalkInv

LEMMA WalkStep ==
    TypeOK /\ TypeOK' /\ IdleInv /\ NetInv /\ WhereInv /\ WalkInv /\ [Next]_vars => WalkInv'
  <1> SUFFICES ASSUME TypeOK, TypeOK', IdleInv, NetInv, WhereInv, WalkInv, [Next]_vars,
                      ep' \notin ByCursor, moves' = 0, ~wavered', pc' # "idle"
               PROVE  Walked'
    BY DEF WalkInv
  <1>p. /\ page \in Nat \ {0} /\ PageSize \in Nat \ {0}
        /\ (page - 1) * PageSize \in Int /\ page * PageSize \in Int
        /\ (page - 1) * PageSize <= page * PageSize
        /\ (page + 1 - 1) * PageSize = page * PageSize
    BY PageSizeType, PageArithmetic DEF TypeOK
  <1>c. Covered \in Int /\ (page - 1) * PageSize <= Covered
    BY <1>p DEF Covered
  <1>n. \A i : Rank(i, Listing(Steady)) \in Nat
    BY ListingFinite, RankNat
  <1>0. ASSUME UNCHANGED <<listed, funded, ep, pref, limit>>
        PROVE  /\ Listing(Steady)' = Listing(Steady) /\ PageSize' = PageSize /\ Wanted' = Wanted
               /\ \A i : Passed(i)' <=> Passed(i)
    BY <1>0 DEF Listing, Steady, Detected, PageSize, Wanted, Passed
  <1>a. ASSUME UNCHANGED <<listed, funded, ep, pref, limit>>, page' \in {page, page + 1},
               delivered \subseteq delivered', refused \subseteq refused'
        PROVE  \A i : Accounted(i) => Accounted(i)'
    <2>1. Listing(Steady)' = Listing(Steady) /\ PageSize' = PageSize
      BY <1>a, <1>0
    <2>2. \A p \in 1..page : p \in 1..page'
      BY <1>a, <1>p
    <2>3. \A i : Trimmed(i) => Trimmed(i)'
      BY <1>a, <2>1, <2>2, Zenon DEF Trimmed, PageOf, Newest, Rank
    <2> QED
      BY <1>a, <2>3 DEF Accounted
  <1>w. ASSUME ep \notin ByCursor, moves = 0, ~wavered, pc # "idle" PROVE Walked
    BY <1>w DEF WalkInv
  \* Steps that give nothing.
  <1>1. ASSUME UNCHANGED <<listed, funded, ep, pref, limit, start, delivered, refused, moves, page>>,
               wavered => wavered', pc # "idle",
               pc' = "details" => pc = "details" /\ batch' = batch,
               Covered' = Covered \/ Covered' = (page - 1) * PageSize,
               Stopped' => Stopped /\ Covered' = Covered,
               answer' = "end" => pc' = "answered",
               answer' = "page" => answer = "page"
        PROVE  Walked'
    <2>1. Walked
      BY <1>1, <1>w
    <2>2. /\ Listing(Steady)' = Listing(Steady) /\ PageSize' = PageSize /\ Wanted' = Wanted
          /\ \A i : Passed(i)' <=> Passed(i)
      BY <1>1, <1>0
    <2>3. \A i : Rank(i, Listing(Steady)) < Covered' => Rank(i, Listing(Steady)) < Covered
      BY <1>1, <1>c, <1>n, <1>p
    <2>4. \A i : Accounted(i) => Accounted(i)'
      BY <1>1, <1>a
    <2> QED
      BY <1>1, <2>1, <2>2, <2>3, <2>4 DEF Walked
  \* Steps that give all that is wanted of the page to ask for.
  <1>g. ASSUME UNCHANGED <<listed, funded, ep, pref, limit, start, moves, wavered>>,
               pc # "idle", pc' # "details",
               Covered = (page - 1) * PageSize, Covered' = page * PageSize,
               delivered \subseteq delivered', refused \subseteq refused',
               page' \in {page, page + 1},
               \A i \in PageOf(page, PageSize, Listing(Steady)) \cap Wanted : Accounted(i)',
               ep = "balance" => page' = page /\ answer' # "page",
               answer' = "end" => pc' = "answered",
               Stopped' => \A i \in Listing(Steady) \cap Wanted :
                              Rank(i, Listing(Steady)) >= page * PageSize => Passed(i)
        PROVE  Walked'
    <2>1. Walked
      BY <1>g, <1>w
    <2>2. /\ Listing(Steady)' = Listing(Steady) /\ PageSize' = PageSize /\ Wanted' = Wanted
          /\ \A i : Passed(i)' <=> Passed(i)
      BY <1>g, <1>0
    <2>3. ASSUME NEW i \in Listing(Steady) \cap Wanted, Rank(i, Listing(Steady)) < page * PageSize
          PROVE  Accounted(i)'
      <3>1. CASE Rank(i, Listing(Steady)) < (page - 1) * PageSize
        BY <1>g, <1>a, <2>1, <3>1 DEF Walked
      <3>2. CASE (page - 1) * PageSize <= Rank(i, Listing(Steady))
        BY <1>g, <2>3, <3>2 DEF PageOf
      <3> QED
        BY <3>1, <3>2, <1>n, <1>p
    <2> QED
      BY <1>g, <2>1, <2>2, <2>3 DEF Walked
  <1>2. ASSUME NEW e \in Endpoints, NEW p \in Networks \cup {None}, NEW l \in Limits,
               Begin(e, p, l)
        PROVE  Walked'
    <2>1. /\ start' = listed' /\ page' = 1 /\ answer' = "none" /\ pc' \in {"wallet", "resolve"}
      BY <1>2 DEF Begin, IdleInv, world
    <2>2. (TypeOK => PageSize \in Nat \ {0})'
      BY PageSizeType, PTL
    <2>3. Covered' = 0
      BY <2>1, <2>2 DEF Covered
    <2>4. IsFiniteSet(Listing(Steady)')
      <3>1. Listing(Steady)' \in SUBSET Ids
        BY DEF Listing, TypeOK
      <3> QED
        BY <3>1, ListingsAssumption, FS_Subset
    <2>5. \A i : Rank(i, Listing(Steady)') \in Nat
      BY <2>4, RankNat
    <2> QED
      BY <2>1, <2>3, <2>5 DEF Walked, Stopped
  <1>3. CASE Continue
    <2>1. UNCHANGED <<listed, funded, ep, pref, limit, start, delivered, refused, moves, wavered>>
          /\ pc' = "resolve" /\ pc = "answered" /\ answer = "page" /\ answer' = "none"
          /\ page' = page + 1
      BY <1>3 DEF Continue, world, asked, history
    <2>2. Walked /\ ep # "balance"
      BY <2>1, <1>w DEF Walked
    <2>3. Covered' = Covered
      BY <2>1, <1>0, <1>p DEF Covered
    <2>4. \A i : Accounted(i) => Accounted(i)'
      BY <2>1, <1>a
    <2> QED
      BY <2>1, <2>2, <2>3, <2>4, <1>0 DEF Walked, Stopped
  <1>4. CASE Retry
    <2>1. UNCHANGED <<listed, funded, ep, pref, limit, start, delivered, refused, moves, page, wavered>>
          /\ pc' = "resolve" /\ pc = "answered" /\ answer = "error" /\ answer' = "none"
      BY <1>4 DEF Retry, world, asked, history
    <2>2. Covered' = Covered
      BY <2>1, <1>0 DEF Covered
    <2> QED
      BY <2>1, <2>2, <1>1 DEF Stopped
  <1>5. ASSUME UNCHANGED <<world, asked, history, page>>, DeliverNothing, wavered => wavered',
               Answer("error"), pc # "idle"
        PROVE  Walked'
    <2>1. UNCHANGED <<listed, funded, ep, pref, limit, start, delivered, refused, moves, page>>
          /\ pc' = "answered" /\ answer' = "error"
      BY <1>5 DEF DeliverNothing, Answer, world, asked, history
    <2>2. Covered' = (page - 1) * PageSize
      BY <2>1, <1>0 DEF Covered
    <2> QED
      BY <2>1, <2>2, <1>5, <1>1 DEF Stopped
  <1>6. CASE LookUpWallet
    <2>1. CASE Answer("error")
      BY <1>6, <2>1, <1>5 DEF LookUpWallet
    <2>2. CASE pc' = "resolve" /\ UNCHANGED answer
      <3>1. UNCHANGED <<listed, funded, ep, pref, limit, start, delivered, refused, moves, page, wavered>>
            /\ pc = "wallet"
        BY <1>6 DEF LookUpWallet, DeliverNothing, world, asked, history
      <3>2. Covered' = Covered /\ answer # "end"
        BY <2>2, <3>1, <1>0, <1>w DEF Covered, Walked
      <3> QED
        BY <2>2, <3>1, <3>2, <1>1 DEF Stopped
    <2> QED
      BY <1>6, <2>1, <2>2 DEF LookUpWallet
  <1>7. CASE NativeConnect
    <2>1. UNCHANGED <<listed, funded, ep, pref, limit, start, delivered, refused, moves, page>>
          /\ UNCHANGED <<pc, batch, answer>> /\ (wavered => wavered')
      BY <1>7 DEF NativeConnect, Use, DeliverNothing, world, asked, history
    <2>2. Covered' = Covered /\ pc # "idle" /\ ~wavered
      BY <2>1, <1>0 DEF Covered
    <2>3. Walked
      BY <2>1, <2>2, <1>w
    <2> QED
      BY <2>1, <2>2, <2>3, <1>1 DEF Stopped, Walked
  <1>8. CASE NativeFetch
    <2>1. pc # "idle"
      BY <1>8 DEF NativeFetch, IdleInv
    <2>2. CASE Answer("error")
      BY <1>8, <2>1, <2>2, <1>5 DEF NativeFetch
    <2>3. CASE UNCHANGED <<pc, answer, batch>>
      <3>1. UNCHANGED <<listed, funded, ep, pref, limit, start, delivered, refused, moves, page, wavered>>
        BY <1>8 DEF NativeFetch, DeliverNothing, world, asked, history
      <3>2. Covered' = Covered /\ Walked
        BY <2>1, <2>3, <3>1, <1>0, <1>w DEF Covered
      <3> QED
        BY <2>1, <2>3, <3>1, <3>2, <1>1 DEF Stopped, Walked
    <2> QED
      BY <1>8, <2>2, <2>3 DEF NativeFetch
  <1>9. CASE Connect
    <2>1. UNCHANGED <<listed, funded, ep, pref, limit, start, delivered, refused, moves, page>>
          /\ UNCHANGED answer /\ (wavered => wavered') /\ pc = "resolve" /\ pc' = "fetch"
      BY <1>9 DEF Connect, Use, GoOn, DeliverNothing, world, asked, history
    <2>2. Covered' = Covered
      BY <2>1, <1>0 DEF Covered
    <2>3. answer # "end"
      BY <2>1, <1>w DEF Walked
    <2> QED
      BY <2>1, <2>2, <2>3, <1>1 DEF Stopped
  <1>10. CASE FetchFails \/ DetailsFail
    BY <1>10, <1>5 DEF FetchFails, DetailsFail
  <1>11. CASE BlockWithoutResult
    BY <1>11 DEF BlockWithoutResult, ByCursor, asked
  <1>12. CASE Join
    <2>1. UNCHANGED <<listed, funded, ep, pref, limit, start, delivered, refused, moves, page, wavered>>
          /\ pc = "join" /\ pc' = "answered" /\ answer' = "end"
      BY <1>12 DEF Join, Answer, DeliverNothing, world, asked, history
    <2>2. Covered' = Covered
      BY <2>1, <1>0 DEF Covered
    <2> QED
      BY <2>1, <2>2, <1>1 DEF Stopped
  \* The pages.
  <1>f. ASSUME Fetch, UNCHANGED <<ep, moves, wavered>>
        PROVE  /\ FetchedPage = PageOf(page, PageSize, Listing(Steady))
               /\ Covered = (page - 1) * PageSize
               /\ pc = "fetch" /\ answer # "end"
    <2>1. pc = "fetch"
      BY <1>f DEF Fetch, FetchFails, BlockWithoutResult, OwnerPage, FungiblePage,
         PortfolioPage, BalancePage, NativePage, Signatures
    <2>2. ep \notin ByCursor /\ ~wavered /\ moves = 0
      BY <1>f
    <2>3. Walked
      BY <2>1, <2>2, <1>w
    <2> QED
      BY <2>1, <2>2, <2>3, FetchedPageOf DEF Covered, Walked
  \* The end of an endpoint that answers a page with nothing on it.
  <1>e. ASSUME PageOf(page, PageSize, Listing(Steady)) \cap Wanted = {},
               NEW i \in Listing(Steady), Rank(i, Listing(Steady)) >= page * PageSize
        PROVE  Passed(i)
    BY <1>e, EmptyPage DEF Passed
  <1>13. CASE NativePage
    <2>1. UNCHANGED <<listed, funded, ep, pref, limit, start, delivered, refused, moves, page, wavered>>
          /\ pc' = "answered" /\ answer' = "end" /\ Wanted = {} /\ ep # "balance"
      BY <1>13, WantedKinds DEF NativePage, Answer, DeliverNothing, world, asked, history
    <2>2. Covered' = page * PageSize
      BY <2>1, <1>0 DEF Covered
    <2> QED
      BY <1>13, <2>1, <2>2, <1>f, <1>g DEF Fetch
  <1>14. CASE OwnerPage
    <2>1. UNCHANGED <<listed, funded, ep, pref, limit, start, moves, page, wavered>>
          /\ pc' = "answered" /\ answer' = (IF FetchedPage = {} THEN "end" ELSE "page")
          /\ ep = "owner" /\ Deliver(FetchedPage, {})
      BY <1>14 DEF OwnerPage, AnswerPage, Answer, world, asked, history
    <2>2. Covered' = page * PageSize
      BY <2>1, <1>0 DEF Covered
    <2>3. /\ FetchedPage = PageOf(page, PageSize, Listing(Steady))
          /\ Covered = (page - 1) * PageSize /\ pc = "fetch"
      BY <1>14, <2>1, <1>f DEF Fetch
    <2>4. Stopped' => PageOf(page, PageSize, Listing(Steady)) \cap Wanted = {}
      BY <2>1, <2>3 DEF Stopped
    <2>5. \A i \in PageOf(page, PageSize, Listing(Steady)) : Accounted(i)'
      BY <2>1, <2>3 DEF Deliver, Accounted
    <2> QED
      BY <2>1, <2>2, <2>3, <2>4, <2>5, <1>e, <1>g DEF Deliver
  <1>15. CASE FungiblePage
    <2> DEFINE tokens == FetchedPage \cap Fungible
               given  == Newest(limit, tokens)
    <2>1. UNCHANGED <<listed, funded, ep, pref, limit, start, page, moves, wavered>>
          /\ UNCHANGED <<world, asked, history>> /\ pc = "fetch" /\ ep = "fungible"
      BY <1>15 DEF FungiblePage, world, asked, history
    <2>2. CASE given \cap Bare = {}
      <3>1. pc' = "answered" /\ answer' = (IF given = {} THEN "end" ELSE "page")
            /\ Deliver(given, {})
        BY <1>15, <2>2 DEF FungiblePage, AnswerPage, Answer
      <3>2. Covered' = page * PageSize
        BY <2>1, <3>1, <1>0 DEF Covered
      <3>3. /\ tokens = PageOf(page, PageSize, Listing(Steady)) \cap Wanted
            /\ Covered = (page - 1) * PageSize
        BY <1>15, <2>1, <1>f, WantedKinds DEF Fetch
      <3>4. given = {} => tokens = {}
        <4>1. tokens \in SUBSET Listing(net)
          BY FetchedListed
        <4>2. IsFiniteSet(tokens) /\ tokens \subseteq Int
          BY <4>1, ListingFinite, FS_Subset
        <4>3. limit \in Nat \ {0}
          BY DEF TypeOK
        <4> HIDE DEF tokens
        <4> QED
          BY <4>2, <4>3, NewestSome
      <3>5. Stopped' => tokens = {}
        BY <3>1, <3>4 DEF Stopped
      <3>6. delivered \subseteq delivered' /\ refused \subseteq refused' /\ given \subseteq delivered'
        BY <3>1 DEF Deliver
      <3>7. ASSUME NEW i \in tokens PROVE Accounted(i)'
        <4>1. CASE i \in given
          BY <3>6, <4>1 DEF Accounted
        <4>2. CASE i \notin given
          <5> DEFINE asset == PageOf(page, PageSize, Listing(Steady))
          <5>1. Listing(Steady)' = Listing(Steady) /\ PageSize' = PageSize
            BY <2>1, <1>0
          <5>2. asset = FetchedPage
            BY <1>15, <2>1, <1>f DEF Fetch
          <5>3. i \in asset /\ i \notin Newest(limit, asset \cap Fungible)
            BY <3>7, <4>2, <5>2
          <5>4. page \in 1..page
            BY <1>p
          <5> HIDE DEF tokens, given
          <5>5. Trimmed(i)'
            BY <2>1, <5>1, <5>3, <5>4, Zenon DEF Trimmed, PageOf, Newest, Rank
          <5> QED
            BY <2>1, <5>5 DEF Accounted
        <4> QED
          BY <4>1, <4>2
      <3> HIDE DEF given, tokens
      <3> QED
        BY <2>1, <3>1, <3>2, <3>3, <3>5, <3>6, <3>7, <1>e, <1>g
    <2>3. CASE given \cap Bare # {}
      <3>1. DeliverNothing /\ Answer("error")
        BY <1>15, <2>3 DEF FungiblePage
      <3> QED
        BY <2>1, <3>1, <1>5
    <2> QED
      BY <2>2, <2>3
  <1>16. CASE PortfolioPage
    <2> DEFINE tokens == FetchedPage \cap Fungible
               valued == Valued(Newest(MaxRequest, tokens))
    <2>1. UNCHANGED <<listed, funded, ep, pref, limit, start, moves, wavered>>
          /\ UNCHANGED <<world, asked, history>> /\ pc = "fetch" /\ ep \in Portfolios
      BY <1>16 DEF PortfolioPage, world, asked, history
    <2>2. CASE tokens \cap Bare # {}
      <3>1. DeliverNothing /\ Answer("error") /\ UNCHANGED page
        BY <1>16, <2>2 DEF PortfolioPage
      <3> QED
        BY <2>1, <3>1, <1>5
    <2>3. CASE tokens \cap Bare = {}
      <3>1. Deliver(valued, {})
        BY <1>16, <2>3 DEF PortfolioPage
      <3>2. \/ pc' = "resolve" /\ page' = page + 1 /\ answer' = answer
            \/ /\ Cardinality(valued) # MaxRequest
               /\ page' = page
               /\ \/ pc' = "join" /\ answer' = answer
                  \/ pc' = "answered" /\ answer' = "end"
        BY <1>16, <2>3 DEF PortfolioPage, GoOn, Answer
      <3>3. /\ FetchedPage = PageOf(page, PageSize, Listing(Steady))
            /\ Covered = (page - 1) * PageSize /\ answer # "end"
        BY <1>16, <2>1, <1>f DEF Fetch
      <3>4. Covered' = page * PageSize
        <4>1. PageSize' = PageSize
          BY <2>1, <1>0
        <4>2. pc' = "resolve" /\ page' = page + 1 => Covered' = page * PageSize
          BY <4>1, <1>p DEF Covered
        <4>3. pc' # "resolve" => Covered' = page * PageSize
          BY <3>2, <3>3, <4>1 DEF Covered
        <4> QED
          BY <3>2, <4>2, <4>3
      <3>5. /\ valued = PageOf(page, PageSize, Listing(Steady)) \cap Wanted
            /\ Cardinality(valued) # MaxRequest =>
                 \A i \in Listing(Steady) :
                    Rank(i, Listing(Steady)) >= page * PageSize => Passed(i)
        BY <2>1, <3>3, PortfolioRound DEF Passed
      <3>6. delivered \subseteq delivered' /\ refused \subseteq refused' /\ valued \subseteq delivered'
        BY <3>1 DEF Deliver
      <3>9. (\A i \in valued : Accounted(i)') /\ page' \in {page, page + 1}
        BY <3>2, <3>6 DEF Accounted
      <3>7. Stopped' => Cardinality(valued) # MaxRequest
        BY <3>2, <3>3 DEF Stopped
      <3>8. /\ ep # "balance" /\ pc' # "details" /\ pc # "idle"
            /\ answer' = "end" => pc' = "answered"
        BY <2>1, <3>2, <3>3 DEF Portfolios
      <3> HIDE DEF valued, tokens
      <3> QED
        BY <2>1, <3>3, <3>4, <3>5, <3>6, <3>7, <3>8, <3>9, <1>g
    <2> QED
      BY <2>2, <2>3
  <1>17. CASE BalancePage
    <2>1. UNCHANGED <<listed, funded, ep, pref, limit, start, page, moves, wavered>>
          /\ pc' = "answered" /\ answer' = "end" /\ ep = "balance"
          /\ Deliver(FetchedPage \cap Fungible, {})
      BY <1>17 DEF BalancePage, Answer, world, asked, history
    <2>2. Covered' = page * PageSize
      BY <2>1, <1>0 DEF Covered
    <2>3. /\ FetchedPage = PageOf(page, PageSize, Listing(Steady))
          /\ Covered = (page - 1) * PageSize /\ pc = "fetch" /\ Wanted = Fungible
      BY <1>17, <2>1, <1>f, WantedKinds DEF Fetch
    <2>4. \A i : Passed(i)
      BY <2>1 DEF Passed
    <2>5. \A i \in FetchedPage \cap Fungible : Accounted(i)'
      BY <2>1 DEF Deliver, Accounted
    <2> QED
      BY <2>1, <2>2, <2>3, <2>4, <2>5, <1>g DEF Deliver
  <1>18. CASE Signatures
    <2>1. UNCHANGED <<listed, funded, ep, pref, limit, start, page, delivered, refused, moves, wavered>>
          /\ ep = "cnft"
      BY <1>18 DEF Signatures, DeliverNothing, ByCursor, world, asked, history
    <2>2. /\ FetchedPage = PageOf(page, PageSize, Listing(Steady))
          /\ Covered = (page - 1) * PageSize /\ pc = "fetch" /\ answer # "end"
      BY <1>18, <2>1, <1>f DEF Fetch
    <2>3. CASE FetchedPage = {} /\ Answer("end")
      <3>1. Covered' = page * PageSize /\ pc' = "answered" /\ answer' = "end"
        BY <2>1, <2>3, <1>0 DEF Answer, Covered
      <3>2. PageOf(page, PageSize, Listing(Steady)) \cap Wanted = {}
        BY <2>2, <2>3
      <3> QED
        BY <2>1, <2>2, <3>1, <3>2, <1>e, <1>g
    <2>4. CASE batch' = FetchedPage /\ GoOn("details")
      <3>1. Covered' = Covered /\ pc' = "details" /\ answer' = answer
        BY <2>1, <2>2, <2>4, <1>0 DEF GoOn, Covered
      <3>2. Walked
        BY <2>1, <2>2, <1>w
      <3>3. \A i : Accounted(i) => Accounted(i)'
        BY <2>1, <1>a
      <3> QED
        BY <2>1, <2>2, <2>4, <3>1, <3>2, <3>3, <1>0 DEF Walked, Stopped
    <2> QED
      BY <1>18, <2>3, <2>4 DEF Signatures
  <1>19. CASE Details
    <2>1. PICK gone \in Omitted : Deliver(batch \ gone, gone)
      BY <1>19 DEF Details
    <2>2. UNCHANGED <<listed, funded, ep, pref, limit, start, page, moves, wavered>>
          /\ pc' = "answered" /\ answer' = (IF batch = {} THEN "end" ELSE "page") /\ pc = "details"
      BY <1>19 DEF Details, AnswerPage, Answer, world, asked, history
    <2>3. Covered = (page - 1) * PageSize /\ Covered' = page * PageSize
      BY <2>2, <1>0 DEF Covered
    <2>4. batch = PageOf(page, PageSize, Listing(Steady))
      BY <2>2, <1>w DEF Walked
    <2>5. ep = "cnft"
      BY <2>2 DEF WhereInv
    <2>6. Stopped' => PageOf(page, PageSize, Listing(Steady)) \cap Wanted = {}
      BY <2>2, <2>4 DEF Stopped
    <2>7. delivered \subseteq delivered' /\ refused \subseteq refused'
          /\ \A i \in batch : Accounted(i)'
      BY <2>1, <2>2, <2>5 DEF Deliver, Accounted
    <2> QED
      BY <2>2, <2>3, <2>4, <2>5, <2>6, <2>7, <1>e, <1>g
  <1>20. ASSUME NEW i \in Ids, Arrive(i) \/ Leave(i) PROVE Walked'
    <2>1. moves' = moves + 1 /\ moves \in Nat
      BY <1>20 DEF Arrive, Leave, TypeOK
    <2> QED
      BY <2>1
  <1>21. CASE AccountChanges
    BY <1>21 DEF AccountChanges
  <1>22. CASE UNCHANGED vars
    <2>1. UNCHANGED <<listed, funded, ep, pref, limit, start, delivered, refused, moves, page, wavered>>
          /\ UNCHANGED <<batch, pc, answer>>
      BY <1>22 DEF vars
    <2>2. Covered' = Covered /\ Walked
      BY <2>1, <1>0, <1>w DEF Covered
    <2> QED
      BY <2>1, <2>2, <1>1 DEF Stopped, Walked
  <1> QED
    BY <1>2, <1>3, <1>4, <1>6, <1>7, <1>8, <1>9, <1>10, <1>11, <1>12, <1>13, <1>14, <1>15,
       <1>16, <1>17, <1>18, <1>19, <1>20, <1>21, <1>22 DEF Next, Serve, Fetch

LEMMA WalkEnd == TypeOK /\ IdleInv /\ NetInv /\ WalkInv => PagesComplete
  <1> SUFFICES ASSUME TypeOK, IdleInv, NetInv, WalkInv, ep \notin ByCursor, answer = "end",
                      ~wavered, moves = 0, NEW i \in Missing
               PROVE  \/ ep = "balance" /\ Rank(i, Listing(net)) >= BalanceLimit
                      \/ ep = "fungible" /\ CutOff(i)
                      \/ ep = "cnft" /\ i \in refused
                      \/ \E j \in Listing(net) \ Promised : j > i
    BY DEF PagesComplete
  <1>1. Walked
    BY DEF IdleInv, WalkInv
  <1>2. i \in Ids /\ i \in start /\ Home[i] = net /\ i \in Wanted /\ i \notin delivered
    BY DEF Missing, Promised, TypeOK
  <1>3. net = Steady
    <2>1. net \in Networks
      BY <1>2, ListingsAssumption
    <2>2. nets \subseteq {Steady} /\ net \in nets \cup {None}
      BY DEF NetInv, Sure
    <2> QED
      BY <2>1, <2>2
  <1>4. i \in Listing(Steady) \cap Wanted
    BY <1>1, <1>2, <1>3 DEF Walked, Listing
  <1>5. Covered = page * PageSize /\ Covered \in Int /\ page \in Nat \ {0}
    BY <1>1, PageSizeType, PageArithmetic DEF Covered, Walked, TypeOK
  <1>6. Rank(i, Listing(Steady)) \in Nat
    BY ListingFinite, RankNat
  <1>7. CASE Accounted(i)
    <2>1. Trimmed(i) => CutOff(i)
      BY <1>3 DEF Trimmed, CutOff
    <2> QED
      BY <1>2, <1>7, <2>1 DEF Accounted
  <1>10. ASSUME ~Accounted(i) PROVE Rank(i, Listing(Steady)) >= Covered /\ Passed(i)
    BY <1>1, <1>4, <1>5, <1>6, <1>10 DEF Walked, Stopped
  <1>8. CASE ~Accounted(i) /\ ep = "balance"
    <2>1. PageSize = BalanceLimit /\ page = 1
      BY <1>1, <1>8 DEF PageSize, Portfolios, Walked
    <2>2. Covered = BalanceLimit
      BY <1>5, <2>1, LimitsAssumption
    <2> QED
      BY <1>3, <1>8, <1>10, <2>2
  <1>9. CASE ~Accounted(i) /\ ep # "balance"
    <2>1. PICK j \in Listing(Steady) \ Wanted : j > i
      BY <1>9, <1>10 DEF Passed
    <2> QED
      BY <1>3, <2>1 DEF Promised
  <1> QED
    BY <1>7, <1>8, <1>9

\* Whoever turns the pages of a listing that stands still, on one network, misses
\* only what something the filter drops stood before, what a page of fungible tokens
\* was cut back by, the details the provider has refused, and for a balance what
\* comes after the first page.
THEOREM PagesGivenAll == Spec => []PagesComplete
  BY TypeInit, TypeStep, IdleInit, IdleStep, NetInit, NetStep, WhereInit, WhereStep,
     WalkInit, WalkStep, WalkEnd, PTL DEF Spec
=============================================================================
