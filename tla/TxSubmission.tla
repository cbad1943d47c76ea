----------------------------- MODULE TxSubmission -----------------------------
(***************************************************************************)
(* The endpoints of src/src/actions that send one or two Solana            *)
(* transactions for a wallet: tip links, deployments, pump.fun launches,   *)
(* lending, staking, NFTs, swaps, transfers, the faucet and the game of    *)
(* rock, paper, scissors.  (Airdrops are the subject of Airdrop.)          *)
(*                                                                         *)
(* Each endpoint is a plan, the sequence of its awaited calls; the calls   *)
(* of different requests interleave with each other and with the networks. *)
(* An amount of one unit stands for what a transaction spends or brings,   *)
(* and a node may refuse a transaction, take it and lose the answer, and   *)
(* execute it later, with success or not, or never.                        *)
(***************************************************************************)
EXTENDS Integers, FiniteSets, Sequences

CONSTANTS
    Reqs,        \* the requests of a behaviour
    Wallets,     \* the wallets they are for
    Ops,         \* the endpoints that are called
    MaxBalance,  \* bound on what a wallet holds at the start
    None         \* no preference, no network

Networks == {"mainnet", "devnet"}

-----------------------------------------------------------------------------
(* The plans.  How a plan ends tells what its answer means: after submit    *)
(* without looking further, after confirm when the transaction has been     *)
(* executed in whichever way, after check when it has succeeded.            *)

CreateTipLink    == <<"connect", "prepare", "submit", "check">>
DeployCollection == <<"connect", "validate", "submit", "confirm">>
DeployToken      == <<"validate", "connect", "submit", "confirm">>
LaunchPumpFun    == <<"key", "validate", "prepare", "connect", "submit", "check">>

\* (mutant) The amount is looked at after the transaction has been sent.
LendAssetUnchecked == <<"key", "prepare", "connect", "submit", "validate", "check">>

LendAsset        == <<"key", "validate", "prepare", "connect", "submit", "check">>
MintNFT          == <<"validate", "connect", "prepare", "submit", "confirm">>
RequestFaucet    == <<"submit", "check">>
StakeWithJup     == <<"validate", "prepare", "connect", "submit", "check">>
StakeWithSolayer == <<"validate", "prepare", "connect", "submit", "check">>
ListNFT          == <<"connect", "prepare", "submit">>
CancelNFTListing == <<"connect", "prepare", "submit">>

\* helius.rpc.sendSmartTransaction polls for the execution itself.
TradeTokensTx    == <<"key", "connect", "prepare", "submit", "poll", "confirm">>
TransferTokens   == <<"key", "connect", "prepare", "submit">>

\* (mutant) The game goes on without waiting for its stake.
PlayRPSUnconfirmed ==
    <<"connect", "prepare", "submit", "outcome", "win", "connect", "claim", "postWin">>

PlayRPS ==
    <<"connect", "prepare", "submit", "check", "outcome",
      "win", "connect", "claim", "postWin">>

Plan == [tipLink |-> CreateTipLink, collection |-> DeployCollection,
         token |-> DeployToken, pump |-> LaunchPumpFun, lend |-> LendAsset,
         mint |-> MintNFT, faucet |-> RequestFaucet, stakeJup |-> StakeWithJup,
         stakeSolayer |-> StakeWithSolayer, list |-> ListNFT,
         cancel |-> CancelNFTListing, swap |-> TradeTokensTx,
         transfer |-> TransferTokens, rps |-> PlayRPS]

AllOps == DOMAIN Plan

StepsOf(o) == {Plan[o][i] : i \in DOMAIN Plan[o]}

ASSUME ConstantsAssumption ==
    /\ Ops \subseteq AllOps
    /\ MaxBalance \in Nat
    /\ None \notin Networks

-----------------------------------------------------------------------------

VARIABLES
    op, wallet, pref,  \* the request: endpoint, wallet, options.network
    at,                \* the call it is at in its plan, 0 before the request
    probed,            \* it has read an empty mainnet balance
    network,           \* the network it is connected to
    tx, claim,         \* its transaction, and the claim of a prize
    answer,
    gaveUp,            \* a call of it has thrown for want of an answer (history)
    balance            \* what each wallet holds on each network

reqVars == <<op, wallet, pref, at, probed, network, answer, gaveUp>>
netVars == <<tx, claim, balance>>
vars    == <<reqVars, netVars>>

Statuses == {"none", "pending", "landed", "failed", "expired"}

Txs == [net : Networks \cup {None}, status : Statuses]

NoTx == [net |-> None, status |-> "none"]

Answers == {"none", "ok", "lost", "noGame", "error"}

TypeOK ==
    /\ op \in [Reqs -> AllOps \cup {None}]
    /\ wallet \in [Reqs -> Wallets \cup {None}]
    /\ pref \in [Reqs -> Networks \cup {None}]
    /\ at \in [Reqs -> Nat]
    /\ probed \subseteq Reqs
    /\ network \in [Reqs -> Networks \cup {None}]
    /\ tx \in [Reqs -> Txs]
    /\ claim \in [Reqs -> Txs]
    /\ answer \in [Reqs -> Answers]
    /\ gaveUp \subseteq Reqs
    /\ balance \in [Networks -> [Wallets -> Nat]]
    /\ \A r \in Reqs : at[r] # 0 =>
          op[r] \in AllOps /\ wallet[r] \in Wallets /\ at[r] <= Len(Plan[op[r]])
    /\ \A r \in Reqs :
          /\ tx[r].status = "pending" => tx[r].net \in Networks /\ at[r] # 0
          /\ claim[r].status = "pending" => claim[r].net \in Networks /\ at[r] # 0

Init ==
    /\ op = [r \in Reqs |-> None]
    /\ wallet = [r \in Reqs |-> None]
    /\ pref = [r \in Reqs |-> None]
    /\ at = [r \in Reqs |-> 0]
    /\ probed = {}
    /\ network = [r \in Reqs |-> None]
    /\ tx = [r \in Reqs |-> NoTx]
    /\ claim = [r \in Reqs |-> NoTx]
    /\ answer = [r \in Reqs |-> "none"]
    /\ gaveUp = {}
    /\ balance \in [Networks -> [Wallets -> 0..MaxBalance]]

-----------------------------------------------------------------------------

Begin(r) ==
    /\ at[r] = 0
    /\ at' = [at EXCEPT ![r] = 1]
    /\ \E o \in Ops, w \in Wallets, p \in Networks \cup {None} :
          /\ op' = [op EXCEPT ![r] = o]
          /\ wallet' = [wallet EXCEPT ![r] = w]
          /\ pref' = [pref EXCEPT ![r] = IF o = "faucet" THEN None ELSE p]
          \* The faucet asks the devnet, whatever else is configured.
          /\ network' = [network EXCEPT ![r] = IF o = "faucet" THEN "devnet" ELSE None]
    /\ UNCHANGED <<probed, answer, gaveUp, netVars>>

\* The request awaits this call.
Awaits(r, step) ==
    /\ at[r] # 0
    /\ answer[r] = "none"
    /\ Plan[op[r]][at[r]] = step

Answer(r, a) ==
    /\ answer' = [answer EXCEPT ![r] = a]
    /\ UNCHANGED at

\* Go on to the next call, or answer after the last.
Continue(r) ==
    IF at[r] = Len(Plan[op[r]]) THEN Answer(r, "ok")
    ELSE at' = [at EXCEPT ![r] = @ + 1] /\ UNCHANGED answer

\* Reading the private key, validating the options, building the transaction
\* with the help of other services: done or refused.
Call(r) ==
    /\ \/ Awaits(r, "key") \/ Awaits(r, "validate") \/ Awaits(r, "prepare")
       \/ Awaits(r, "postWin")
    /\ Continue(r) \/ Answer(r, "error")
    /\ UNCHANGED <<op, wallet, pref, probed, network, gaveUp, netVars>>

\* The service has no game for the player.
NoGame(r) ==
    /\ op[r] = "rps"
    /\ Awaits(r, "prepare")
    /\ Answer(r, "noGame")
    /\ UNCHANGED <<op, wallet, pref, probed, network, gaveUp, netVars>>

-----------------------------------------------------------------------------
(* createConnection and getRpcUrl.                                          *)

ConnectTo(r, net) ==
    /\ network' = [network EXCEPT ![r] = net]
    /\ probed' = probed \ {r}
    /\ Continue(r)
    /\ UNCHANGED <<op, wallet, pref, gaveUp, netVars>>

\* (mutant) The second connection of a request forgets the options.
UsePreferenceOnce(r) ==
    /\ Awaits(r, "connect")
    /\ pref[r] # None
    /\ ConnectTo(r, IF network[r] = None THEN pref[r] ELSE "mainnet")

UsePreference(r) ==
    /\ Awaits(r, "connect")
    /\ pref[r] # None
    /\ ConnectTo(r, pref[r])

Detecting(r) == Awaits(r, "connect") /\ pref[r] = None

\* detectNetwork: mainnet if the wallet holds anything there ...
DetectMainnet(r) ==
    /\ Detecting(r)
    /\ r \notin probed
    /\ balance["mainnet"][wallet[r]] > 0
    /\ ConnectTo(r, "mainnet")

ProbeMainnet(r) ==
    /\ Detecting(r)
    /\ r \notin probed
    /\ balance["mainnet"][wallet[r]] = 0
    /\ probed' = probed \cup {r}
    /\ UNCHANGED <<op, wallet, pref, at, network, answer, gaveUp, netVars>>

\* ... otherwise devnet, whatever it holds there, and mainnet if a call fails.
DetectDevnet(r) ==
    /\ Detecting(r)
    /\ r \in probed
    /\ ConnectTo(r, "devnet")

DetectFails(r) ==
    /\ Detecting(r)
    /\ ConnectTo(r, "mainnet")

-----------------------------------------------------------------------------
(* Sending.                                                                 *)

\* A swap is sent by Helius, which is set up for mainnet.
TargetOf(r) == IF op[r] = "swap" THEN "mainnet" ELSE network[r]

\* The simulation before a transaction is taken: it can be paid for.  Swaps skip
\* it, and what the faucet sends is not the wallet's.
Simulates(r) == op[r] \in {"swap", "faucet"} \/ balance[TargetOf(r)][wallet[r]] > 0

Pending(net) == [net |-> net, status |-> "pending"]

GivesUp(r) == Answer(r, "error") /\ gaveUp' = gaveUp \cup {r}

\* The node takes the transaction, refuses it, or takes it and the answer is lost.
Submit(r) ==
    /\ Awaits(r, "submit")
    /\ \/ /\ Simulates(r)
          /\ tx' = [tx EXCEPT ![r] = Pending(TargetOf(r))]
          /\ (Continue(r) /\ UNCHANGED gaveUp) \/ GivesUp(r)
       \/ Answer(r, "error") /\ UNCHANGED <<tx, gaveUp>>
    /\ UNCHANGED <<op, wallet, pref, probed, network, claim, balance>>

Executed(t) == t.status \in {"landed", "failed"}

Poll(r) ==
    /\ Awaits(r, "poll")
    /\ Executed(tx[r])
    /\ Continue(r)
    /\ UNCHANGED <<op, wallet, pref, probed, network, gaveUp, netVars>>

\* confirmTransaction, on the network of the connection, without a look at err.
Confirm(r) ==
    /\ Awaits(r, "confirm")
    /\ Executed(tx[r])
    /\ tx[r].net = network[r]
    /\ Continue(r)
    /\ UNCHANGED <<op, wallet, pref, probed, network, gaveUp, netVars>>

\* (mutant) confirmation.value.err is not looked at.
CheckUnlooked(r) ==
    /\ Awaits(r, "check")
    /\ Executed(tx[r])
    /\ Continue(r)
    /\ UNCHANGED <<op, wallet, pref, probed, network, gaveUp, netVars>>

\* sendAndConfirmTransaction, or confirmTransaction and a look at err.
Check(r) ==
    /\ Awaits(r, "check")
    /\ \/ tx[r].status = "landed" /\ Continue(r)
       \/ tx[r].status = "failed" /\ Answer(r, "error")
    /\ UNCHANGED <<op, wallet, pref, probed, network, gaveUp, netVars>>

\* (mutant) A confirmation that does not come is asked for again.
GiveUpNever(r) ==
    /\ Awaits(r, "poll") \/ Awaits(r, "confirm") \/ Awaits(r, "check")
    /\ UNCHANGED vars

\* The confirmation does not come in time, or cannot be asked for.
GiveUp(r) ==
    /\ Awaits(r, "poll") \/ Awaits(r, "confirm") \/ Awaits(r, "check")
    /\ GivesUp(r)
    /\ UNCHANGED <<op, wallet, pref, probed, network, netVars>>

-----------------------------------------------------------------------------
(* The rest of a game of rock, paper, scissors.                             *)

Outcome(r) ==
    /\ Awaits(r, "outcome")
    /\ Continue(r) \/ Answer(r, "lost") \/ Answer(r, "error")
    /\ UNCHANGED <<op, wallet, pref, probed, network, gaveUp, netVars>>

\* The service hands out a transaction that claims the prize, or none.
Win(r) ==
    /\ Awaits(r, "win")
    /\ \/ Continue(r)
       \/ at' = [at EXCEPT ![r] = Len(Plan[op[r]])] /\ UNCHANGED answer
       \/ Answer(r, "error")
    /\ UNCHANGED <<op, wallet, pref, probed, network, gaveUp, netVars>>

\* The claim passes its simulation where the game was played.  It is sent and
\* not waited for.
Claim(r) ==
    /\ Awaits(r, "claim")
    /\ \/ /\ network[r] = tx[r].net
          /\ claim' = [claim EXCEPT ![r] = Pending(network[r])]
          /\ Continue(r) \/ Answer(r, "error")
       \/ Answer(r, "error") /\ UNCHANGED claim
    /\ UNCHANGED <<op, wallet, pref, probed, network, gaveUp, tx, balance>>

-----------------------------------------------------------------------------
(* The networks.                                                            *)

Credit(net, w, units) == balance' = [balance EXCEPT ![net][w] = @ + units]

Execute(r) ==
    /\ tx[r].status = "pending"
    /\ \/ /\ tx' = [tx EXCEPT ![r].status = "landed"]
          /\ \/ op[r] = "faucet" /\ Credit(tx[r].net, wallet[r], 1)
             \/ /\ op[r] # "faucet"
                /\ balance[tx[r].net][wallet[r]] > 0
                /\ Credit(tx[r].net, wallet[r], -1)
       \/ tx' = [tx EXCEPT ![r].status = "failed"] /\ UNCHANGED balance
       \/ tx' = [tx EXCEPT ![r].status = "expired"] /\ UNCHANGED balance
    /\ UNCHANGED <<reqVars, claim>>

ExecuteClaim(r) ==
    /\ claim[r].status = "pending"
    /\ \/ claim' = [claim EXCEPT ![r].status = "landed"] /\ Credit(claim[r].net, wallet[r], 1)
       \/ claim' = [claim EXCEPT ![r].status = "failed"] /\ UNCHANGED balance
       \/ claim' = [claim EXCEPT ![r].status = "expired"] /\ UNCHANGED balance
    /\ UNCHANGED <<reqVars, tx>>

Connect(r) ==
    UsePreference(r) \/ DetectMainnet(r) \/ ProbeMainnet(r) \/ DetectDevnet(r) \/ DetectFails(r)

Step(r) ==
    \/ Call(r) \/ NoGame(r) \/ Connect(r) \/ Submit(r)
    \/ Poll(r) \/ Confirm(r) \/ Check(r) \/ GiveUp(r)
    \/ Outcome(r) \/ Win(r) \/ Claim(r)

Next == \E r \in Reqs : Begin(r) \/ Step(r) \/ Execute(r) \/ ExecuteClaim(r)

Spec == Init /\ [][Next]_vars

\* Every awaited call returns or throws.
Fairness == \A r \in Reqs : WF_vars(Step(r))

FairSpec == Spec /\ Fairness

-----------------------------------------------------------------------------
(* What an answer is worth.                                                 *)

\* An endpoint that waits for its transaction answers ok only when it has been
\* executed on the network it watches, and one that looks at err only when it
\* has succeeded, whatever other requests spend in between.
OkMeansExecuted ==
    \A r \in Reqs : answer[r] = "ok" =>
        /\ "confirm" \in StepsOf(op[r]) => Executed(tx[r]) /\ tx[r].net = network[r]
        /\ "check" \in StepsOf(op[r]) => tx[r].status = "landed"

\* An error of anything but a game means that nothing has been spent and nothing
\* will be, so that the request can be repeated, unless one of its calls has
\* thrown for want of an answer.
ErrorMeansUnspent ==
    \A r \in Reqs : answer[r] = "error" /\ op[r] # "rps" /\ r \notin gaveUp =>
        tx[r].status \in {"none", "failed"}

\* The claim of a prize is given to the network only after the stake of its game
\* has been paid, however late the network executes either of them.
PrizeAfterStake ==
    \A r \in Reqs : claim[r].status # "none" => tx[r].status = "landed"

\* A request with options.network connects to that network only and sends its
\* transactions there, each time it connects, so that a prize can be claimed
\* where the game was played.  Swaps do not (see PreferenceUsed).
PreferredNetworkOnly ==
    \A r \in Reqs : pref[r] # None =>
        /\ network[r] \in {None, pref[r]}
        /\ op[r] # "swap" => {tx[r].net, claim[r].net} \subseteq {None, pref[r]}

\* Every request is answered.
RequestAnswered == \A r \in Reqs : at[r] # 0 ~> answer[r] # "none"

-----------------------------------------------------------------------------
(* What a comment says and the code does not do.                            *)

\* "If network preference is specified, use it" (getRpcUrl): no transaction goes
\* to another network.
PreferenceUsed ==
    \A r \in Reqs : pref[r] # None => tx[r].net \in {None, pref[r]}
=============================================================================
