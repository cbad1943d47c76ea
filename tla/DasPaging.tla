------------------------------- MODULE DasPaging -------------------------------
(***************************************************************************)
(* The listings of src/src/das: the assets of a wallet, its portfolio, the *)
(* transactions of an account, of a block and of a compressed NFT.         *)
(*                                                                         *)
(* The service keeps nothing between two calls.  What can go wrong is in   *)
(* the walk over a listing: the RPC provider cuts it into pages, the       *)
(* service filters each page, chooses the network anew for each request,   *)
(* and gives the caller a page number or a cursor to go on from, while the *)
(* listing itself goes on changing.  One walk is modelled at a time; a     *)
(* portfolio is a walk the service makes itself, the others are walks of   *)
(* its caller.                                                             *)
(*                                                                         *)
(* An item is an integer, newer items being greater; a listing is the set  *)
(* of its items, so that a page of it is a range of ranks.                 *)
(***************************************************************************)
EXTENDS Integers, FiniteSets

CONSTANTS
    Ids,           \* everything a listing can hold
    Home,          \* the network of each item
    Fungible,      \* assets with the interface FungibleToken
    Priced,        \* assets whose value can be calculated
    Bare,          \* assets without the authority the filter takes apart
    Votes,         \* transactions of a block that only call the vote program
    MaxRequest,    \* the largest page asked of the provider: 100 in the code
    BalanceLimit,  \* the page a balance is looked for on: 1000 in the code
    Limits,        \* the limits callers ask for
    MaxMoves,      \* bound on the changes of a listing during a walk
    None           \* no preference, no network, no cursor

Networks == {"mainnet", "devnet"}

\* The service turns the pages itself, the caller does, or there is only one.
Portfolios == {"portfolio", "complete"}
ByCursor   == {"account", "block"}
Endpoints  == {"owner", "fungible", "cnft", "balance", "native"} \cup Portfolios \cup ByCursor

\* The endpoints that pass an address to getRpcUrl.
Addressed == Endpoints \ {"block", "cnft"}

\* Listings of transactions only grow, and a block is what it is.
Growing == {"account", "cnft"}
Fixed   == {"block"}

Serving == {"wallet", "resolve", "fetch", "details", "join"}

ASSUME ListingsAssumption ==
    /\ Ids \subseteq Int /\ IsFiniteSet(Ids)
    /\ Home \in [Ids -> Networks]
    /\ {Fungible, Priced, Bare, Votes} \subseteq SUBSET Ids

ASSUME LimitsAssumption ==
    /\ MaxRequest \in Nat \ {0}
    /\ BalanceLimit \in Nat \ {0}
    /\ Limits \subseteq Nat \ {0}
    /\ MaxMoves \in Nat

ASSUME NoneAssumption == None \notin Ids /\ None \notin Networks

VARIABLES
    listed,     \* what is listed at the moment, on either network
    funded,     \* whether the address has an account on mainnet
    ep,         \* the endpoint of the walk
    pref,       \* the network the caller asks for, or None
    limit,      \* the limit the caller asks for
    pc,         \* where the request for a page is
    half,       \* the native balance that getCompleteWalletBalance fetches
    net,        \* the network of the page
    page,       \* the page to ask for
    cursor,     \* the last item of the page before
    batch,      \* the page while its details are fetched
    answer,     \* the last answer: none, a page, the end or an error
    delivered,  \* what the caller has been given
    refused,    \* the transactions whose details the provider has refused
    \* History, for the properties only.
    start,      \* what was listed when the walk began
    moves,      \* how often the listing has changed since
    nets,       \* the networks the walk has used
    twice,      \* what the caller has been given more than once
    wavered,    \* detection has failed, or what it detects has changed
    cutShort    \* an error of the provider was taken for an empty block

world   == <<listed, funded>>
asked   == <<ep, pref, limit>>
history == <<start, moves>>
vars    == <<listed, funded, ep, pref, limit, pc, half, net, page, cursor, batch,
             answer, delivered, refused, start, moves, nets, twice, wavered, cutShort>>

-----------------------------------------------------------------------------
(* Listings and their pages.                                                *)

Listing(n)    == {i \in listed : Home[i] = n}
Rank(i, S)    == Cardinality({j \in S : j > i})
Newest(k, S)  == {i \in S : Rank(i, S) < k}
Before(c, S)  == {i \in S : c = None \/ i < c}
Oldest(S)     == {i \in S : \A j \in S : i <= j}

\* The provider cuts a listing into pages; they are counted from one.
PageOf(p, k, S) == {i \in S : (p - 1) * k <= Rank(i, S) /\ Rank(i, S) < p * k}

\* A larger page is asked for than wanted, to account for filtering.
RequestLimit(l) == IF 2 * l < MaxRequest THEN 2 * l ELSE MaxRequest

\* (mutant) A cursor that is given is included in the page that follows it.
AfterCursorInclusive(n) ==
    {i \in Listing(n) : cursor = None \/ (cursor \in Listing(n) /\ i <= cursor)}

\* getSignaturesForAddress: what is older than the cursor; nothing when it does
\* not know the cursor.
AfterCursor(n) ==
    {i \in Listing(n) : cursor = None \/ (cursor \in Listing(n) /\ i < cursor)}

\* The transactions of a block without the votes, after the cursor if it is one
\* of them, from the start if it is not.
BlockRest(n) ==
    LET kept == Listing(n) \ Votes
    IN  IF cursor \in kept THEN Before(cursor, kept) ELSE kept

\* How many items a page by number has.
PageSize ==
    CASE ep = "balance"    -> BalanceLimit
      [] ep \in Portfolios -> RequestLimit(MaxRequest)
      [] ep = "fungible"   -> RequestLimit(limit)
      [] OTHER             -> limit

\* What the provider answers with, or what of a block is taken from its answer.
FetchedPage ==
    IF ep = "account" THEN Newest(MaxRequest, AfterCursor(net))
    ELSE IF ep = "block" THEN Newest(limit, BlockRest(net))
    ELSE PageOf(page, PageSize, Listing(net))

\* calculateTokenValue gives nothing for a token without a price.
Valued(tokens) == tokens \cap Priced

-----------------------------------------------------------------------------
(* The network.                                                             *)

Detected == IF funded THEN "mainnet" ELSE "devnet"

\* The networks getRpcUrl can come to: the one asked for; mainnet without an
\* address; else the one detected, or mainnet when detection fails.
RpcUrls(p, e) ==
    IF p # None THEN {p}
    ELSE IF e \in Addressed THEN {Detected, "mainnet"} ELSE {"mainnet"}

\* The request goes to network n.
Use(n) ==
    /\ n \in RpcUrls(pref, ep)
    /\ nets' = nets \cup {n}
    /\ wavered' = (wavered \/ (pref = None /\ ep \in Addressed /\ n # Detected))

-----------------------------------------------------------------------------
(* Answers.                                                                 *)

Deliver(S, gone) ==
    /\ delivered' = delivered \cup S
    /\ twice' = twice \cup (delivered \cap S)
    /\ refused' = refused \cup gone

DeliverNothing == UNCHANGED <<delivered, twice, refused>>

Answer(a) ==
    /\ pc' = "answered"
    /\ answer' = a
    /\ half' = "none"
    /\ batch' = {}

AnswerPage(empty) == Answer(IF empty THEN "end" ELSE "page")

GoOn(where) == pc' = where /\ UNCHANGED <<answer, half>>

Init ==
    /\ listed \in SUBSET Ids
    /\ funded \in BOOLEAN
    /\ ep = "owner" /\ pref = None /\ limit = MaxRequest
    /\ pc = "idle" /\ half = "none" /\ net = None
    /\ page = 1 /\ cursor = None /\ batch = {}
    /\ answer = "none" /\ delivered = {} /\ refused = {}
    /\ start = {} /\ moves = 0 /\ nets = {} /\ twice = {}
    /\ wavered = FALSE /\ cutShort = FALSE

\* A caller begins a walk with its first request.
Begin(e, p, l) ==
    /\ pc = "idle"
    /\ ep' = e /\ pref' = p
    /\ limit' = IF e \in Portfolios \cup {"account", "balance", "native"} THEN MaxRequest ELSE l
    /\ pc' = IF e = "complete" THEN "wallet" ELSE "resolve"
    /\ start' = listed
    /\ UNCHANGED <<half, net, page, cursor, batch, answer, delivered, refused, moves,
                   nets, twice, wavered, cutShort>>
    /\ UNCHANGED world

\* A caller goes on: to the next page, or from the item the answer named as
\* the oldest.
Continue ==
    /\ pc = "answered" /\ answer = "page"
    /\ pc' = "resolve" /\ answer' = "none"
    /\ page' = IF ep \in ByCursor THEN page ELSE page + 1
    /\ UNCHANGED <<half, net, cursor, batch, delivered, refused, nets, twice, wavered, cutShort>>
    /\ UNCHANGED world /\ UNCHANGED asked /\ UNCHANGED history

\* A caller repeats a request that was answered with an error.
Retry ==
    /\ pc = "answered" /\ answer = "error"
    /\ ep \notin Portfolios
    /\ pc' = "resolve" /\ answer' = "none"
    /\ UNCHANGED <<half, net, page, cursor, batch, delivered, refused, nets, twice, wavered, cutShort>>
    /\ UNCHANGED world /\ UNCHANGED asked /\ UNCHANGED history

-----------------------------------------------------------------------------
(* The service.                                                             *)

\* getCompleteWalletBalance asks Vault for the wallet first; then it starts the
\* native balance and the portfolio in parallel.
LookUpWallet ==
    /\ pc = "wallet"
    /\ \/ pc' = "resolve" /\ half' = "resolve" /\ UNCHANGED <<answer, batch>>
       \/ Answer("error")
    /\ DeliverNothing
    /\ UNCHANGED <<net, page, cursor, nets, wavered, cutShort>>
    /\ UNCHANGED world /\ UNCHANGED asked /\ UNCHANGED history

\* (mutant) The native balance is fetched without the caller's preference.
NativeConnectUnasked ==
    /\ half = "resolve" /\ half' = "fetch"
    /\ \E n \in {Detected, "mainnet"} :
          /\ nets' = nets \cup {n}
          /\ wavered' = (wavered \/ (pref = None /\ n # Detected))
    /\ DeliverNothing
    /\ UNCHANGED <<pc, net, page, cursor, batch, answer, cutShort>>
    /\ UNCHANGED world /\ UNCHANGED asked /\ UNCHANGED history

\* getNativeBalance chooses its network by itself ...
NativeConnect ==
    /\ half = "resolve" /\ half' = "fetch"
    /\ \E n \in Networks : Use(n)
    /\ DeliverNothing
    /\ UNCHANGED <<pc, net, page, cursor, batch, answer, cutShort>>
    /\ UNCHANGED world /\ UNCHANGED asked /\ UNCHANGED history

\* ... and fails on any error, also one within an answer.  Promise.all then
\* fails at once; what the portfolio still reads is seen by nobody.
NativeFetch ==
    /\ half = "fetch"
    /\ \/ half' = "done" /\ UNCHANGED <<pc, answer, batch>>
       \/ Answer("error")
    /\ DeliverNothing
    /\ UNCHANGED <<net, page, cursor, nets, wavered, cutShort>>
    /\ UNCHANGED world /\ UNCHANGED asked /\ UNCHANGED history

\* getRpcUrl, for every page anew.
Connect ==
    /\ pc = "resolve" /\ GoOn("fetch")
    /\ \E n \in Networks : Use(n) /\ net' = n
    /\ DeliverNothing
    /\ UNCHANGED <<page, cursor, batch, cutShort>>
    /\ UNCHANGED world /\ UNCHANGED asked /\ UNCHANGED history

\* The provider refuses, does not answer, or answers with an error: the whole
\* answer is an error, of a portfolio as well.
FetchFails ==
    /\ pc = "fetch"
    /\ Answer("error")
    /\ DeliverNothing
    /\ UNCHANGED <<net, page, cursor, nets, wavered, cutShort>>
    /\ UNCHANGED world /\ UNCHANGED asked /\ UNCHANGED history

\* Nobody looks at an error within the answer to getBlock: there is no result
\* then, and no result is an empty block.
BlockWithoutResult ==
    /\ pc = "fetch" /\ ep = "block"
    /\ Answer("end") /\ cutShort' = TRUE
    /\ DeliverNothing
    /\ UNCHANGED <<net, page, cursor, nets, wavered>>
    /\ UNCHANGED world /\ UNCHANGED asked /\ UNCHANGED history

\* getAssetsByOwner hands on what it gets.
OwnerPage ==
    /\ pc = "fetch" /\ ep = "owner"
    /\ Deliver(FetchedPage, {}) /\ AnswerPage(FetchedPage = {})
    /\ UNCHANGED <<net, page, cursor, nets, wavered, cutShort>>
    /\ UNCHANGED world /\ UNCHANGED asked /\ UNCHANGED history

\* getFungibleTokensByOwner cuts what its filter leaves back to the limit; one
\* asset it cannot take apart fails the whole page.
FungiblePage ==
    LET tokens == FetchedPage \cap Fungible
        given  == Newest(limit, tokens)
    IN
    /\ pc = "fetch" /\ ep = "fungible"
    /\ IF given \cap Bare = {}
       THEN Deliver(given, {}) /\ AnswerPage(given = {})
       ELSE DeliverNothing /\ Answer("error")
    /\ UNCHANGED <<net, page, cursor, nets, wavered, cutShort>>
    /\ UNCHANGED world /\ UNCHANGED asked /\ UNCHANGED history

\* (mutant) A full page is taken for the last.
PortfolioPageOnce ==
    LET tokens == FetchedPage \cap Fungible
        valued == Valued(Newest(MaxRequest, tokens))
    IN
    /\ pc = "fetch" /\ ep \in Portfolios
    /\ IF tokens \cap Bare # {}
       THEN DeliverNothing /\ Answer("error") /\ UNCHANGED page
       ELSE /\ Deliver(valued, {})
            /\ page' = page
            /\ IF ep = "complete" THEN GoOn("join") /\ batch' = {} ELSE Answer("end")
    /\ UNCHANGED <<net, cursor, nets, wavered, cutShort>>
    /\ UNCHANGED world /\ UNCHANGED asked /\ UNCHANGED history

\* (mutant) The page is not turned.
PortfolioPageStuck ==
    LET tokens == FetchedPage \cap Fungible
        valued == Valued(Newest(MaxRequest, tokens))
    IN
    /\ pc = "fetch" /\ ep \in Portfolios
    /\ IF tokens \cap Bare # {}
       THEN DeliverNothing /\ Answer("error")
       ELSE /\ Deliver(valued, {})
            /\ IF Cardinality(valued) = MaxRequest
               THEN GoOn("resolve") /\ batch' = {}
               ELSE IF ep = "complete" THEN GoOn("join") /\ batch' = {} ELSE Answer("end")
    /\ UNCHANGED <<net, page, cursor, nets, wavered, cutShort>>
    /\ UNCHANGED world /\ UNCHANGED asked /\ UNCHANGED history

\* One round of getWalletPortfolioValue: a page on which fewer tokens than the
\* limit have a value is the last.
PortfolioPage ==
    LET tokens == FetchedPage \cap Fungible
        valued == Valued(Newest(MaxRequest, tokens))
    IN
    /\ pc = "fetch" /\ ep \in Portfolios
    /\ IF tokens \cap Bare # {}
       THEN DeliverNothing /\ Answer("error") /\ UNCHANGED page
       ELSE /\ Deliver(valued, {})
            /\ IF Cardinality(valued) = MaxRequest
               THEN GoOn("resolve") /\ page' = page + 1 /\ batch' = {}
               ELSE /\ page' = page
                    /\ IF ep = "complete" THEN GoOn("join") /\ batch' = {}
                                          ELSE Answer("end")
    /\ UNCHANGED <<net, cursor, nets, wavered, cutShort>>
    /\ UNCHANGED world /\ UNCHANGED asked /\ UNCHANGED history

\* Both halves of a complete balance are there.
Join ==
    /\ pc = "join" /\ half = "done"
    /\ Answer("end")
    /\ DeliverNothing
    /\ UNCHANGED <<net, page, cursor, nets, wavered, cutShort>>
    /\ UNCHANGED world /\ UNCHANGED asked /\ UNCHANGED history

\* getTokenOrNativeBalance looks for the token on one page: delivered are the
\* tokens for which it would find a balance, all others have balance nought.
BalancePage ==
    /\ pc = "fetch" /\ ep = "balance"
    /\ Deliver(FetchedPage \cap Fungible, {}) /\ Answer("end")
    /\ UNCHANGED <<net, page, cursor, nets, wavered, cutShort>>
    /\ UNCHANGED world /\ UNCHANGED asked /\ UNCHANGED history

\* A native balance alone, without a token to look for, is one item of no
\* listing.
NativePage ==
    /\ pc = "fetch" /\ ep = "native"
    /\ Answer("end")
    /\ DeliverNothing
    /\ UNCHANGED <<net, page, cursor, nets, wavered, cutShort>>
    /\ UNCHANGED world /\ UNCHANGED asked /\ UNCHANGED history

\* The three listings of transactions have the signatures now.  Without any they
\* are at their end, but for a block of which none are left after the cursor:
\* it asks for the details of none.
Signatures ==
    /\ pc = "fetch" /\ ep \in ByCursor \cup {"cnft"}
    /\ IF FetchedPage = {} /\ (ep = "block" => Listing(net) \subseteq Votes)
       THEN Answer("end")
       ELSE batch' = FetchedPage /\ GoOn("details")
    /\ DeliverNothing
    /\ UNCHANGED <<net, page, cursor, nets, wavered, cutShort>>
    /\ UNCHANGED world /\ UNCHANGED asked /\ UNCHANGED history

\* The details of an account's transactions are fetched one by one: those the
\* provider refuses are left out.
LeftOutSingly == SUBSET batch

\* Those of a block or a compressed NFT are fetched together: with an error
\* within the answer all are left out.
LeftOutTogether == {{}, batch}

Omitted == IF ep = "account" THEN LeftOutSingly ELSE LeftOutTogether

\* (mutant) The oldest is the last transaction whose details have come.
DetailsOfReceived ==
    /\ pc = "details"
    /\ \E gone \in Omitted :
          /\ Deliver(batch \ gone, {})
          /\ cursor' \in IF batch \ gone = {} THEN {cursor} ELSE Oldest(batch \ gone)
          /\ AnswerPage(batch \ gone = {})
    /\ UNCHANGED <<net, page, nets, wavered, cutShort>>
    /\ UNCHANGED world /\ UNCHANGED asked /\ UNCHANGED history

\* The page is answered, with its last signature as the oldest; '' is the end.
Details ==
    /\ pc = "details"
    /\ \E gone \in Omitted : Deliver(batch \ gone, gone)
    /\ cursor' \in IF batch = {} THEN {cursor} ELSE Oldest(batch)
    /\ AnswerPage(batch = {})
    /\ UNCHANGED <<net, page, nets, wavered, cutShort>>
    /\ UNCHANGED world /\ UNCHANGED asked /\ UNCHANGED history

\* A request for details that is refused as a whole, or never answered.
DetailsFail ==
    /\ pc = "details"
    /\ Answer("error")
    /\ DeliverNothing
    /\ UNCHANGED <<net, page, cursor, nets, wavered, cutShort>>
    /\ UNCHANGED world /\ UNCHANGED asked /\ UNCHANGED history

-----------------------------------------------------------------------------
(* The networks.                                                            *)

Walking == pc \in Serving \/ answer \in {"page", "error"}

\* An item is listed: a transaction before all others, an asset anywhere.
Arrive(i) ==
    /\ Walking /\ moves < MaxMoves
    /\ i \notin listed /\ ep \notin Fixed
    /\ ep \in Growing => \A j \in Listing(Home[i]) : j < i
    /\ listed' = listed \cup {i} /\ moves' = moves + 1
    /\ UNCHANGED <<funded, ep, pref, limit, pc, half, net, page, cursor, batch, answer,
                   delivered, refused, start, nets, twice, wavered, cutShort>>

\* An asset is sent away.
Leave(i) ==
    /\ Walking /\ moves < MaxMoves
    /\ i \in listed /\ ep \notin Growing \cup Fixed
    /\ listed' = listed \ {i} /\ moves' = moves + 1
    /\ UNCHANGED <<funded, ep, pref, limit, pc, half, net, page, cursor, batch, answer,
                   delivered, refused, start, nets, twice, wavered, cutShort>>

\* The account appears on mainnet, or has been drained and is gone.
AccountChanges ==
    /\ Walking
    /\ funded' = ~funded /\ wavered' = TRUE
    /\ UNCHANGED <<listed, ep, pref, limit, pc, half, net, page, cursor, batch, answer,
                   delivered, refused, start, moves, nets, twice, cutShort>>

-----------------------------------------------------------------------------
Fetch ==
    \/ FetchFails \/ BlockWithoutResult
    \/ OwnerPage \/ FungiblePage \/ PortfolioPage \/ BalancePage \/ NativePage
    \/ Signatures

Serve ==
    \/ LookUpWallet \/ NativeConnect \/ NativeFetch
    \/ Connect \/ Fetch \/ Details \/ DetailsFail \/ Join

Next ==
    \/ \E e \in Endpoints, p \in Networks \cup {None}, l \in Limits : Begin(e, p, l)
    \/ Continue \/ Retry
    \/ Serve
    \/ \E i \in Ids : Arrive(i) \/ Leave(i)
    \/ AccountChanges

Spec == Init /\ [][Next]_vars

\* The provider answers every request or the client library gives up, and Node
\* runs what waited for it.  Nobody has to call.
FairSpec == Spec /\ WF_vars(Serve)

-----------------------------------------------------------------------------
TypeOK ==
    /\ listed \subseteq Ids /\ funded \in BOOLEAN
    /\ ep \in Endpoints /\ pref \in Networks \cup {None} /\ limit \in Nat \ {0}
    /\ pc \in {"idle", "answered"} \cup Serving
    /\ half \in {"none", "resolve", "fetch", "done"}
    /\ net \in Networks \cup {None}
    /\ page \in Nat \ {0} /\ cursor \in Ids \cup {None} /\ batch \subseteq Ids
    /\ answer \in {"none", "page", "end", "error"}
    /\ delivered \subseteq Ids /\ refused \subseteq Ids
    /\ start \subseteq Ids /\ twice \subseteq Ids
    /\ moves \in 0..MaxMoves /\ nets \subseteq Networks
    /\ wavered \in BOOLEAN /\ cutShort \in BOOLEAN

\* One walk reads one network, the one its caller asks for: the pages of a
\* listing, the native and the token half of a balance.  Only detection can
\* tear it apart, by failing or because the account has appeared on mainnet or
\* gone from it in the meantime, and only for a caller who names no network.
OneNetworkPerWalk ==
    /\ pref # None => nets \subseteq {pref}
    /\ ~wavered => Cardinality(nets) <= 1

\* Nothing is given to a caller twice.  Cursors keep this up whatever arrives
\* in the meantime and however often a page is asked for again; page numbers
\* only while the listing stands still on one network.
NothingTwice ==
    twice # {} => ep \notin ByCursor /\ (moves > 0 \/ wavered)

\* What the endpoint promises of the listing the walk began with.
Wanted ==
    CASE ep \in Portfolios -> Fungible \cap Priced
      [] ep \in {"fungible", "balance"} -> Fungible
      [] ep = "native" -> {}
      [] ep = "block" -> Ids \ Votes
      [] OTHER -> Ids

Promised == {i \in start : Home[i] = net} \cap Wanted

Missing == Promised \ delivered

\* A caller who follows the cursors to the end has been given everything that
\* was there when he began, but for the transactions whose details the provider
\* refused: transactions that arrive push nothing past him.  This is not promised
\* when detection has torn his network apart, nor when an error of getBlock has
\* looked to him like the end.
NothingSkipped ==
    ep \in ByCursor /\ answer = "end" /\ ~wavered /\ ~cutShort => Missing \subseteq refused

\* A page of fungible tokens is asked for twice as large as wanted and cut back to
\* the limit: what stands behind the limit on its page is on no page at all.
CutOff(i) ==
    \E p \in 1..page :
        LET asset == PageOf(p, PageSize, Listing(net))
        IN  i \in asset /\ i \notin Newest(limit, asset \cap Fungible)

\* What a caller misses who turns pages to the end over a listing that stands
\* still, on one network, he misses for one of these reasons:
\*   - a balance is looked for on the first page only;
\*   - a page of fungible tokens has been cut back to the limit;
\*   - the provider has refused the details of a transaction;
\*   - something the filter drops stood before it: a portfolio stops, and a page
\*     of fungible tokens looks like the end, where too few are left on it.
\* In particular nothing is cut off the pages of a portfolio.
PagesComplete ==
    ep \notin ByCursor /\ answer = "end" /\ ~wavered /\ moves = 0 =>
        \A i \in Missing :
            \/ ep = "balance" /\ Rank(i, Listing(net)) >= BalanceLimit
            \/ ep = "fungible" /\ CutOff(i)
            \/ ep = "cnft" /\ i \in refused
            \/ \E j \in Listing(net) \ Promised : j > i

\* Every call is answered, however the listing changes and the provider fails:
\* the loop of a portfolio comes to its end.
CallAnswered == pc \in Serving ~> pc = "answered"
=============================================================================
