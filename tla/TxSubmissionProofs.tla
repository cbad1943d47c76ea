-------------------------- MODULE TxSubmissionProofs --------------------------
(***************************************************************************)
(* Proofs about TxSubmission.  The properties are inductive only together  *)
(* with how far each request is in its plan: what has not been passed has  *)
(* not happened, and what has been passed stays so.  The order of the      *)
(* calls within the plans is all that is used of them (Orderly).           *)
(***************************************************************************)
EXTENDS TxSubmission, TLAPS

\* What the argument needs of a plan p of endpoint o.
Orderly(o, p) ==
    /\ Len(p) \in Nat /\ DOMAIN p = 1..Len(p)
    /\ Len(p) >= 1
    /\ \A i, j \in 1..Len(p) :
          p[i] = "submit" =>
             /\ p[j] \in {"key", "validate", "prepare", "submit"} => j <= i
             /\ p[j] \in {"poll", "confirm", "check"} => i < j
    /\ \A i, j \in 1..Len(p) : p[i] = "confirm" /\ p[j] = "connect" => j < i
    /\ \A i \in 1..Len(p) : p[i] \in {"submit", "claim"} /\ o # "faucet" =>
          \E j \in 1..Len(p) : j < i /\ p[j] = "connect"
    /\ \A i \in 1..Len(p) : p[i] \in {"outcome", "win", "claim", "postWin"} =>
          /\ o = "rps"
          /\ \E j \in 1..Len(p) : j < i /\ p[j] = "check"
    /\ \A i, j \in 1..Len(p) :
          p[i] = "win" /\ p[j] \in {"connect", "check", "confirm"} =>
          \E k \in 1..Len(p) : k < i /\ p[k] = p[j]

LEMMA PlansOrderly == \A o \in AllOps : Orderly(o, Plan[o])
  <1>1. Orderly("tipLink", CreateTipLink)
    BY SMT DEF Orderly, CreateTipLink
  <1>2. Orderly("collection", DeployCollection)
    BY SMT DEF Orderly, DeployCollection
  <1>3. Orderly("token", DeployToken)
    BY SMT DEF Orderly, DeployToken
  <1>4. Orderly("pump", LaunchPumpFun)
    BY SMT DEF Orderly, LaunchPumpFun
  <1>5. Orderly("lend", LendAsset)
    BY SMT DEF Orderly, LendAsset
  <1>6. Orderly("mint", MintNFT)
    BY SMT DEF Orderly, MintNFT
  <1>7. Orderly("faucet", RequestFaucet)
    BY SMT DEF Orderly, RequestFaucet
  <1>8. Orderly("stakeJup", StakeWithJup)
    BY SMT DEF Orderly, StakeWithJup
  <1>9. Orderly("stakeSolayer", StakeWithSolayer)
    BY SMT DEF Orderly, StakeWithSolayer
  <1>10. Orderly("list", ListNFT)
    BY SMT DEF Orderly, ListNFT
  <1>11. Orderly("cancel", CancelNFTListing)
    BY SMT DEF Orderly, CancelNFTListing
  <1>12. Orderly("swap", TradeTokensTx)
    BY SMT DEF Orderly, TradeTokensTx
  <1>13. Orderly("transfer", TransferTokens)
    BY SMT DEF Orderly, TransferTokens
  <1>14. Orderly("rps", PlayRPS)
    BY SMT DEF Orderly, PlayRPS
  <1> QED
    BY <1>1, <1>2, <1>3, <1>4, <1>5, <1>6, <1>7, <1>8, <1>9, <1>10, <1>11,
       <1>12, <1>13, <1>14 DEF Plan, AllOps

-----------------------------------------------------------------------------
(* How far a request is.                                                    *)

\* Call s of plan p has been answered for a request at i with answer a.
Passed(p, i, a, s) ==
    \E j \in 1..Len(p) : p[j] = s /\ (j < i \/ (j = i /\ a = "ok"))

\* A request of endpoint o that has moved from i on to i2 and answer a2.
Moved(o, i, i2, a2) ==
    \/ i < Len(Plan[o]) /\ i2 = i + 1 /\ a2 = "none"
    \/ i = Len(Plan[o]) /\ i2 = i /\ a2 = "ok"
    \/ i2 = i /\ a2 \in Answers \ {"none", "ok"}

\* Moving passes nothing but the call the request is at, and an answer other
\* than ok passes nothing.
LEMMA MovedPasses ==
    ASSUME NEW o \in AllOps, NEW i \in 1..Len(Plan[o]), NEW i2, NEW a2,
           Moved(o, i, i2, a2)
    PROVE  /\ i2 \in 1..Len(Plan[o])
           /\ a2 \in Answers
           /\ \A s : Passed(Plan[o], i2, a2, s) =>
                 Passed(Plan[o], i, "none", s) \/ (s = Plan[o][i] /\ a2 \in {"none", "ok"})
  <1>1. Len(Plan[o]) \in Nat /\ Len(Plan[o]) >= 1
    BY PlansOrderly DEF Orderly
  <1>2. i2 \in 1..Len(Plan[o]) /\ a2 \in Answers
    BY <1>1 DEF Moved, Answers
  <1>3. ASSUME NEW s, NEW j \in 1..Len(Plan[o]), Plan[o][j] = s,
               j < i2 \/ (j = i2 /\ a2 = "ok")
        PROVE  j < i \/ (j = i /\ a2 \in {"none", "ok"})
    BY <1>1, <1>3 DEF Moved, Answers
  <1>4. \A s : Passed(Plan[o], i2, a2, s) =>
           Passed(Plan[o], i, "none", s) \/ (s = Plan[o][i] /\ a2 \in {"none", "ok"})
    <2> SUFFICES ASSUME NEW s, Passed(Plan[o], i2, a2, s)
                 PROVE  Passed(Plan[o], i, "none", s) \/ (s = Plan[o][i] /\ a2 \in {"none", "ok"})
      OBVIOUS
    <2>1. PICK j \in 1..Len(Plan[o]) :
             Plan[o][j] = s /\ (j < i2 \/ (j = i2 /\ a2 = "ok"))
      BY DEF Passed
    <2>2. j < i \/ (j = i /\ a2 \in {"none", "ok"})
      BY <1>3, <2>1
    <2> QED
      BY <2>1, <2>2 DEF Passed
  <1> QED
    BY <1>2, <1>4

\* What is known of a request of endpoint o with preference p that is at i with
\* network n, transaction t, claim c and answer a.
Sent(o, i, a, t) ==
    t.status # "none" =>
        \E j \in 1..Len(Plan[o]) : Plan[o][j] = "submit" /\ (j < i \/ (j = i /\ a # "none"))

Ended(o, i, a) == a = "ok" => i = Len(Plan[o])

Connected(o, i, a, n) ==
    o = "faucet" \/ Passed(Plan[o], i, a, "connect") => n \in Networks

Checked(o, i, a, t) == Passed(Plan[o], i, a, "check") => t.status = "landed"

Confirmed(o, i, a, n, t) ==
    Passed(Plan[o], i, a, "confirm") => Executed(t) /\ t.net = n

Claimed(t, c) == c.status # "none" => t.status = "landed"

Unspent(o, a, t) == a = "error" /\ o # "rps" => t.status \in {"none", "failed"}

Preferred(o, p, n, t, c) ==
    p # None =>
        /\ o # "faucet"
        /\ n \in {None, p}
        /\ o # "swap" => t.net \in {None, p} /\ c.net \in {None, p}

Known(o, p, i, n, t, c, a) ==
    /\ Ended(o, i, a)
    /\ Sent(o, i, a, t)
    /\ Connected(o, i, a, n)
    /\ Checked(o, i, a, t)
    /\ Confirmed(o, i, a, n, t)
    /\ Claimed(t, c)
    /\ Preferred(o, p, n, t, c)

KnownOf(r) ==
    IF at[r] = 0
    THEN answer[r] = "none" /\ tx[r] = NoTx /\ claim[r] = NoTx /\ network[r] = None /\ pref[r] = None
    ELSE Known(op[r], pref[r], at[r], network[r], tx[r], claim[r], answer[r])

IInv ==
    /\ TypeOK
    /\ \A r \in Reqs : KnownOf(r)
    /\ \A r \in Reqs : r \in gaveUp \/ Unspent(op[r], answer[r], tx[r])

-----------------------------------------------------------------------------
(* What a call leaves known.                                                *)

\* A call that is answered without a change to network, transaction or claim.
LEMMA AnsweredKnown ==
    ASSUME NEW o \in AllOps, NEW i \in 1..Len(Plan[o]), NEW i2, NEW a2,
           NEW p, NEW n, NEW t, NEW c,
           Known(o, p, i, n, t, c, "none"), Moved(o, i, i2, a2),
           Plan[o][i] = "connect" => n \in Networks,
           Plan[o][i] = "check" /\ a2 \in {"none", "ok"} => t.status = "landed",
           Plan[o][i] = "confirm" /\ a2 \in {"none", "ok"} => Executed(t) /\ t.net = n
    PROVE  Known(o, p, i2, n, t, c, a2)
  <1>1. i2 \in 1..Len(Plan[o]) /\ a2 \in Answers
    BY MovedPasses
  <1>2. \A s : Passed(Plan[o], i2, a2, s) =>
           Passed(Plan[o], i, "none", s) \/ (s = Plan[o][i] /\ a2 \in {"none", "ok"})
    BY MovedPasses
  <1>3. Sent(o, i2, a2, t)
    <2>1. \A j \in 1..Len(Plan[o]) : j < i => j < i2 \/ (j = i2 /\ a2 # "none")
      BY PlansOrderly DEF Moved, Orderly
    <2> QED
      BY <2>1 DEF Known, Sent
  <1>4. Connected(o, i2, a2, n)
    BY <1>2 DEF Known, Connected
  <1>5. Checked(o, i2, a2, t)
    BY <1>2 DEF Known, Checked
  <1>6. Confirmed(o, i2, a2, n, t)
    BY <1>2 DEF Known, Confirmed
  <1>7. Ended(o, i2, a2)
    BY DEF Moved, Ended
  <1> QED
    BY <1>3, <1>4, <1>5, <1>6, <1>7 DEF Known

\* A connection: nothing has been confirmed before it.
LEMMA ConnectedKnown ==
    ASSUME NEW o \in AllOps, NEW i \in 1..Len(Plan[o]), NEW i2, NEW a2,
           NEW p, NEW n, NEW t, NEW c, NEW n2 \in Networks,
           Known(o, p, i, n, t, c, "none"), Moved(o, i, i2, a2),
           a2 \in {"none", "ok"}, Plan[o][i] = "connect", p # None => n2 = p
    PROVE  Known(o, p, i2, n2, t, c, a2)
  <1>1. Known(o, p, i, n2, t, c, "none")
    <2>1. ~ Passed(Plan[o], i, "none", "confirm")
      BY PlansOrderly DEF Passed, Orderly
    <2>2. Connected(o, i, "none", n2) /\ Confirmed(o, i, "none", n2, t)
      BY <2>1 DEF Connected, Confirmed
    <2>3. Preferred(o, p, n2, t, c)
      BY DEF Known, Preferred
    <2> QED
      BY <2>2, <2>3 DEF Known
  <1> QED
    BY <1>1, AnsweredKnown

\* Before and at its submission a request has sent nothing and claimed nothing.
LEMMA UnsentBefore ==
    ASSUME NEW o \in AllOps, NEW i \in 1..Len(Plan[o]), NEW t,
           Sent(o, i, "none", t), Plan[o][i] \in {"key", "validate", "prepare", "submit"}
    PROVE  t.status = "none"
  BY PlansOrderly DEF Sent, Orderly

\* A submission, to the network of the connection unless it is a swap.
LEMMA SubmittedKnown ==
    ASSUME NEW o \in AllOps, NEW i \in 1..Len(Plan[o]), NEW i2, NEW a2,
           NEW p, NEW n, NEW t, NEW c, NEW net,
           Known(o, p, i, n, t, c, "none"), Moved(o, i, i2, a2),
           Plan[o][i] = "submit", o # "swap" => net = n
    PROVE  Known(o, p, i2, n, Pending(net), c, a2)
  <1> DEFINE t2 == Pending(net)
  <1>1. t2.net = net /\ t2.status = "pending"
    BY DEF Pending
  <1>2. t.status = "none" /\ c.status = "none"
    BY UnsentBefore DEF Known, Claimed
  <1>3. \A s : Passed(Plan[o], i2, a2, s) =>
           Passed(Plan[o], i, "none", s) \/ (s = Plan[o][i] /\ a2 \in {"none", "ok"})
    BY MovedPasses
  <1>4. ~ Passed(Plan[o], i, "none", "check") /\ ~ Passed(Plan[o], i, "none", "confirm")
    BY PlansOrderly DEF Passed, Orderly
  <1>5. Sent(o, i2, a2, t2)
    BY <1>1, PlansOrderly DEF Sent, Moved, Orderly
  <1>6. Connected(o, i2, a2, n)
    BY <1>3 DEF Known, Connected
  <1>7. Checked(o, i2, a2, t2) /\ Confirmed(o, i2, a2, n, t2)
    BY <1>3, <1>4 DEF Checked, Confirmed
  <1>8. Claimed(t2, c)
    BY <1>2 DEF Claimed
  <1>9. Preferred(o, p, n, t2, c)
    BY <1>1 DEF Known, Preferred
  <1>10. Ended(o, i2, a2)
    BY DEF Moved, Ended
  <1> QED
    BY <1>5, <1>6, <1>7, <1>8, <1>9, <1>10 DEF Known

\* The claim of a prize, of which the stake has been checked.
LEMMA ClaimedKnown ==
    ASSUME NEW o \in AllOps, NEW i \in 1..Len(Plan[o]),
           NEW p, NEW n, NEW t, NEW c,
           Known(o, p, i, n, t, c, "none"), Plan[o][i] = "claim"
    PROVE  Known(o, p, i, n, t, Pending(n), "none")
  <1>1. Passed(Plan[o], i, "none", "check") /\ o = "rps"
    BY PlansOrderly DEF Passed, Orderly
  <1>2. t.status = "landed"
    BY <1>1 DEF Known, Checked
  <1>3. Claimed(t, Pending(n)) /\ Preferred(o, p, n, t, Pending(n))
    BY <1>2 DEF Known, Claimed, Preferred, Pending
  <1> QED
    BY <1>3 DEF Known

\* Without a transaction of the service the claim is skipped.
LEMMA SkippedKnown ==
    ASSUME NEW o \in AllOps, NEW i \in 1..Len(Plan[o]),
           NEW p, NEW n, NEW t, NEW c,
           Known(o, p, i, n, t, c, "none"), Plan[o][i] = "win"
    PROVE  Known(o, p, Len(Plan[o]), n, t, c, "none")
  <1> DEFINE e == Len(Plan[o])
  <1>1. e \in Nat /\ e >= 1
    BY PlansOrderly DEF Orderly
  <1>2. ASSUME NEW s \in {"connect", "check", "confirm"}, Passed(Plan[o], e, "none", s)
        PROVE  Passed(Plan[o], i, "none", s)
    BY <1>2, PlansOrderly DEF Passed, Orderly
  <1>3. Connected(o, e, "none", n) /\ Checked(o, e, "none", t) /\ Confirmed(o, e, "none", n, t)
    BY <1>2 DEF Known, Connected, Checked, Confirmed
  <1>4. Sent(o, e, "none", t)
    BY <1>1 DEF Known, Sent
  <1>5. Ended(o, e, "none")
    BY DEF Ended
  <1> QED
    BY <1>3, <1>4, <1>5 DEF Known

\* What the network does with a transaction that is pending.
LEMMA ExecutedKnown ==
    ASSUME NEW o \in AllOps, NEW i \in 1..Len(Plan[o]), NEW a \in Answers,
           NEW p, NEW n, NEW t \in Txs, NEW c, NEW t2 \in Txs,
           Known(o, p, i, n, t, c, a), t.status = "pending",
           t2.net = t.net, t2.status # "none"
    PROVE  Known(o, p, i, n, t2, c, a)
  <1>1. ~ Passed(Plan[o], i, a, "check") /\ ~ Passed(Plan[o], i, a, "confirm")
    BY DEF Known, Checked, Confirmed, Executed
  <1>2. Sent(o, i, a, t2) /\ Checked(o, i, a, t2) /\ Confirmed(o, i, a, n, t2)
    BY <1>1 DEF Known, Sent, Checked, Confirmed
  <1>3. Claimed(t2, c) /\ Preferred(o, p, n, t2, c)
    BY DEF Known, Claimed, Preferred
  <1> QED
    BY <1>2, <1>3 DEF Known

-----------------------------------------------------------------------------
(* The steps.                                                               *)

\* A step that changes what is known of one request only.
LEMMA OneChanged ==
    ASSUME IInv, NEW r \in Reqs, at[r] # 0,
           NEW i2 \in 1..Len(Plan[op[r]]), NEW a2 \in Answers,
           NEW n2 \in Networks \cup {None}, NEW t2 \in Txs, NEW c2 \in Txs,
           t2.status = "pending" => t2.net \in Networks,
           c2.status = "pending" => c2.net \in Networks,
           UNCHANGED <<op, wallet, pref>>,
           at' = [at EXCEPT ![r] = i2], answer' = [answer EXCEPT ![r] = a2],
           network' = [network EXCEPT ![r] = n2],
           tx' = [tx EXCEPT ![r] = t2], claim' = [claim EXCEPT ![r] = c2],
           probed' \subseteq Reqs, gaveUp' \in {gaveUp, gaveUp \cup {r}},
           balance' \in [Networks -> [Wallets -> Nat]],
           Known(op[r], pref[r], i2, n2, t2, c2, a2),
           r \in gaveUp' \/ Unspent(op[r], a2, t2)
    PROVE  IInv'
  <1>1. op[r] \in AllOps /\ wallet[r] \in Wallets /\ Len(Plan[op[r]]) \in Nat
    BY PlansOrderly DEF IInv, TypeOK, Orderly
  <1>2. ASSUME NEW q \in Reqs
        PROVE  IF q = r
               THEN at'[q] = i2 /\ answer'[q] = a2 /\ network'[q] = n2 /\ tx'[q] = t2 /\ claim'[q] = c2
               ELSE /\ at'[q] = at[q] /\ answer'[q] = answer[q] /\ network'[q] = network[q]
                    /\ tx'[q] = tx[q] /\ claim'[q] = claim[q]
                    /\ q \in gaveUp' <=> q \in gaveUp
    BY DEF IInv, TypeOK
  <1>3. TypeOK'
    <2>1. /\ op' \in [Reqs -> AllOps \cup {None}]
          /\ wallet' \in [Reqs -> Wallets \cup {None}]
          /\ pref' \in [Reqs -> Networks \cup {None}]
          /\ at' \in [Reqs -> Nat]
          /\ network' \in [Reqs -> Networks \cup {None}]
          /\ answer' \in [Reqs -> Answers]
          /\ gaveUp' \subseteq Reqs
      BY <1>1 DEF IInv, TypeOK
    <2>2. tx' \in [Reqs -> Txs] /\ claim' \in [Reqs -> Txs]
      BY DEF IInv, TypeOK
    <2>3. \A q \in Reqs : at'[q] # 0 =>
             op'[q] \in AllOps /\ wallet'[q] \in Wallets /\ at'[q] <= Len(Plan[op'[q]])
      BY <1>1, <1>2 DEF IInv, TypeOK
    <2>4. \A q \in Reqs :
             /\ tx'[q].status = "pending" => tx'[q].net \in Networks /\ at'[q] # 0
             /\ claim'[q].status = "pending" => claim'[q].net \in Networks /\ at'[q] # 0
      BY <1>1, <1>2 DEF IInv, TypeOK
    <2> QED
      BY <2>1, <2>2, <2>3, <2>4 DEF TypeOK
  <1>4. ASSUME NEW q \in Reqs PROVE KnownOf(q)'
    <2>1. CASE q = r
      BY <1>1, <1>2, <2>1 DEF KnownOf
    <2>2. CASE q # r
      <3>1. KnownOf(q)
        BY DEF IInv
      <3> QED
        BY <1>2, <2>2, <3>1 DEF KnownOf
    <2> QED
      BY <2>1, <2>2
  <1>5. ASSUME NEW q \in Reqs PROVE q \in gaveUp' \/ Unspent(op'[q], answer'[q], tx'[q])
    BY <1>2 DEF IInv
  <1> QED
    BY <1>3, <1>4, <1>5 DEF IInv

\* A request that awaits a call, and how it goes on.
LEMMA Awaiting ==
    ASSUME IInv, NEW r \in Reqs, NEW s, Awaits(r, s)
    PROVE  /\ at[r] # 0 /\ answer[r] = "none"
           /\ op[r] \in AllOps /\ wallet[r] \in Wallets /\ pref[r] \in Networks \cup {None}
           /\ at[r] \in 1..Len(Plan[op[r]])
           /\ Plan[op[r]][at[r]] = s
           /\ network[r] \in Networks \cup {None} /\ tx[r] \in Txs /\ claim[r] \in Txs
           /\ tx[r].status = "pending" => tx[r].net \in Networks
           /\ claim[r].status = "pending" => claim[r].net \in Networks
           /\ Known(op[r], pref[r], at[r], network[r], tx[r], claim[r], "none")
  <1>1. at[r] # 0 /\ answer[r] = "none" /\ Plan[op[r]][at[r]] = s
    BY DEF Awaits
  <1>2. /\ op[r] \in AllOps /\ wallet[r] \in Wallets /\ pref[r] \in Networks \cup {None}
        /\ at[r] \in Nat /\ at[r] <= Len(Plan[op[r]])
        /\ network[r] \in Networks \cup {None} /\ tx[r] \in Txs /\ claim[r] \in Txs
        /\ tx[r].status = "pending" => tx[r].net \in Networks
        /\ claim[r].status = "pending" => claim[r].net \in Networks
    BY <1>1 DEF IInv, TypeOK
  <1>3. Len(Plan[op[r]]) \in Nat
    BY <1>2, PlansOrderly DEF Orderly
  <1>4. KnownOf(r)
    BY DEF IInv
  <1> QED
    BY <1>1, <1>2, <1>3, <1>4 DEF KnownOf

LEMMA Moving ==
    ASSUME IInv, NEW r \in Reqs, at[r] # 0, answer[r] = "none"
    PROVE  /\ Continue(r) => \E i2, a2 :
                 /\ Moved(op[r], at[r], i2, a2) /\ a2 \in {"none", "ok"}
                 /\ at' = [at EXCEPT ![r] = i2] /\ answer' = [answer EXCEPT ![r] = a2]
           /\ \A a \in Answers \ {"none", "ok"} : Answer(r, a) =>
                 /\ Moved(op[r], at[r], at[r], a)
                 /\ at' = [at EXCEPT ![r] = at[r]] /\ answer' = [answer EXCEPT ![r] = a]
  <1>1. at = [at EXCEPT ![r] = at[r]] /\ answer = [answer EXCEPT ![r] = "none"]
    BY DEF IInv, TypeOK
  <1>2. at[r] \in Nat /\ at[r] <= Len(Plan[op[r]]) /\ Len(Plan[op[r]]) \in Nat
    BY PlansOrderly DEF IInv, TypeOK, Orderly
  <1>3. ASSUME Continue(r), at[r] = Len(Plan[op[r]])
        PROVE  /\ Moved(op[r], at[r], at[r], "ok")
               /\ at' = [at EXCEPT ![r] = at[r]] /\ answer' = [answer EXCEPT ![r] = "ok"]
    BY <1>1, <1>3 DEF Continue, Answer, Moved
  <1>4. ASSUME Continue(r), at[r] # Len(Plan[op[r]])
        PROVE  /\ Moved(op[r], at[r], at[r] + 1, "none")
               /\ at' = [at EXCEPT ![r] = at[r] + 1] /\ answer' = [answer EXCEPT ![r] = "none"]
    BY <1>1, <1>2, <1>4 DEF Continue, Moved
  <1>5. ASSUME NEW a \in Answers \ {"none", "ok"}, Answer(r, a)
        PROVE  /\ Moved(op[r], at[r], at[r], a)
               /\ at' = [at EXCEPT ![r] = at[r]] /\ answer' = [answer EXCEPT ![r] = a]
    BY <1>1, <1>5 DEF Answer, Moved
  <1> QED
    BY <1>3, <1>4, <1>5

\* An answered call that changes nothing but where the request is.
LEMMA QuietStep ==
    ASSUME IInv, NEW r \in Reqs, NEW s, Awaits(r, s), NEW i2, NEW a2,
           Moved(op[r], at[r], i2, a2),
           at' = [at EXCEPT ![r] = i2], answer' = [answer EXCEPT ![r] = a2],
           UNCHANGED <<op, wallet, pref, probed, network, netVars>>,
           gaveUp' \in {gaveUp, gaveUp \cup {r}},
           s # "connect",
           s = "check" /\ a2 \in {"none", "ok"} => tx[r].status = "landed",
           s = "confirm" /\ a2 \in {"none", "ok"} => Executed(tx[r]) /\ tx[r].net = network[r],
           r \in gaveUp' \/ Unspent(op[r], a2, tx[r])
    PROVE  IInv'
  <1>1. /\ at[r] # 0 /\ op[r] \in AllOps /\ at[r] \in 1..Len(Plan[op[r]])
        /\ Plan[op[r]][at[r]] = s
        /\ network[r] \in Networks \cup {None} /\ tx[r] \in Txs /\ claim[r] \in Txs
        /\ tx[r].status = "pending" => tx[r].net \in Networks
        /\ claim[r].status = "pending" => claim[r].net \in Networks
        /\ Known(op[r], pref[r], at[r], network[r], tx[r], claim[r], "none")
    BY Awaiting
  <1>2. i2 \in 1..Len(Plan[op[r]]) /\ a2 \in Answers
    BY <1>1, MovedPasses
  <1>3. Known(op[r], pref[r], i2, network[r], tx[r], claim[r], a2)
    BY <1>1, AnsweredKnown
  <1>4. /\ network' = [network EXCEPT ![r] = network[r]]
        /\ tx' = [tx EXCEPT ![r] = tx[r]] /\ claim' = [claim EXCEPT ![r] = claim[r]]
        /\ probed' \subseteq Reqs /\ balance' \in [Networks -> [Wallets -> Nat]]
    BY DEF IInv, TypeOK, netVars
  <1> QED
    BY <1>1, <1>2, <1>3, <1>4, OneChanged

\* The two ways a call that changes nothing else can be answered.
LEMMA RefusedStep ==
    ASSUME IInv, NEW r \in Reqs, NEW s, Awaits(r, s), s # "connect",
           NEW a \in Answers \ {"none", "ok"}, Answer(r, a),
           UNCHANGED <<op, wallet, pref, probed, network, netVars>>,
           gaveUp' \in {gaveUp, gaveUp \cup {r}},
           r \in gaveUp' \/ Unspent(op[r], a, tx[r])
    PROVE  IInv'
  <1>1. at[r] # 0 /\ answer[r] = "none"
    BY Awaiting
  <1>2. /\ Moved(op[r], at[r], at[r], a)
        /\ at' = [at EXCEPT ![r] = at[r]] /\ answer' = [answer EXCEPT ![r] = a]
    BY <1>1, Moving
  <1>3. a \notin {"none", "ok"}
    OBVIOUS
  <1> QED
    BY <1>2, <1>3, QuietStep

LEMMA ContinuedStep ==
    ASSUME IInv, NEW r \in Reqs, NEW s, Awaits(r, s), s # "connect", Continue(r),
           UNCHANGED <<op, wallet, pref, probed, network, gaveUp, netVars>>,
           s = "check" => tx[r].status = "landed",
           s = "confirm" => Executed(tx[r]) /\ tx[r].net = network[r]
    PROVE  IInv'
  <1>1. at[r] # 0 /\ answer[r] = "none"
    BY Awaiting
  <1>2. PICK i2, a2 :
           /\ Moved(op[r], at[r], i2, a2) /\ a2 \in {"none", "ok"}
           /\ at' = [at EXCEPT ![r] = i2] /\ answer' = [answer EXCEPT ![r] = a2]
    BY <1>1, Moving
  <1>3. Unspent(op[r], a2, tx[r])
    BY <1>2 DEF Unspent
  <1>4. UNCHANGED <<op, wallet, pref, probed, network, netVars>> /\ gaveUp' = gaveUp
    OBVIOUS
  <1> QED
    BY <1>2, <1>3, <1>4, QuietStep

\* A step to the network net, for a request without a preference or with this one.
LEMMA ConnectionStep ==
    ASSUME IInv, NEW r \in Reqs, NEW net \in Networks, Awaits(r, "connect"),
           pref[r] # None => net = pref[r], ConnectTo(r, net)
    PROVE  IInv'
  <1>1. /\ at[r] # 0 /\ answer[r] = "none" /\ op[r] \in AllOps /\ at[r] \in 1..Len(Plan[op[r]])
        /\ Plan[op[r]][at[r]] = "connect"
        /\ tx[r] \in Txs /\ claim[r] \in Txs
        /\ tx[r].status = "pending" => tx[r].net \in Networks
        /\ claim[r].status = "pending" => claim[r].net \in Networks
        /\ Known(op[r], pref[r], at[r], network[r], tx[r], claim[r], "none")
    BY Awaiting
  <1>2. PICK i2, a2 :
           /\ Moved(op[r], at[r], i2, a2) /\ a2 \in {"none", "ok"}
           /\ at' = [at EXCEPT ![r] = i2] /\ answer' = [answer EXCEPT ![r] = a2]
    BY <1>1, Moving DEF ConnectTo
  <1>3. i2 \in 1..Len(Plan[op[r]]) /\ a2 \in Answers
    BY <1>1, <1>2, MovedPasses
  <1>4. /\ Known(op[r], pref[r], i2, net, tx[r], claim[r], a2)
        /\ Unspent(op[r], a2, tx[r])
    BY <1>1, <1>2, ConnectedKnown DEF Unspent
  <1>5. /\ tx' = [tx EXCEPT ![r] = tx[r]] /\ claim' = [claim EXCEPT ![r] = claim[r]]
        /\ probed' \subseteq Reqs /\ balance' \in [Networks -> [Wallets -> Nat]]
        /\ network' = [network EXCEPT ![r] = net] /\ gaveUp' = gaveUp
        /\ UNCHANGED <<op, wallet, pref>>
    BY DEF IInv, TypeOK, netVars, ConnectTo
  <1> QED
    BY <1>1, <1>2, <1>3, <1>4, <1>5, OneChanged

LEMMA SubmitStep ==
    ASSUME IInv, NEW r \in Reqs, Submit(r) PROVE IInv'
  <1>1. /\ at[r] # 0 /\ answer[r] = "none" /\ op[r] \in AllOps /\ at[r] \in 1..Len(Plan[op[r]])
        /\ Plan[op[r]][at[r]] = "submit"
        /\ network[r] \in Networks \cup {None} /\ tx[r] \in Txs /\ claim[r] \in Txs
        /\ claim[r].status = "pending" => claim[r].net \in Networks
        /\ pref[r] \in Networks \cup {None}
        /\ Known(op[r], pref[r], at[r], network[r], tx[r], claim[r], "none")
    BY Awaiting DEF Submit
  <1>2. CASE /\ Simulates(r)
             /\ tx' = [tx EXCEPT ![r] = Pending(TargetOf(r))]
             /\ (Continue(r) /\ UNCHANGED gaveUp) \/ GivesUp(r)
    <2>1. PICK i2, a2 :
             /\ Moved(op[r], at[r], i2, a2)
             /\ at' = [at EXCEPT ![r] = i2] /\ answer' = [answer EXCEPT ![r] = a2]
             /\ gaveUp' \in {gaveUp, gaveUp \cup {r}} /\ (r \in gaveUp' \/ a2 # "error")
      BY <1>1, <1>2, Moving DEF GivesUp, Answers
    <2>2. i2 \in 1..Len(Plan[op[r]]) /\ a2 \in Answers
      BY <1>1, <2>1, MovedPasses
    <2>3. TargetOf(r) \in Networks
      <3>1. op[r] # "faucet" => Passed(Plan[op[r]], at[r], "none", "connect")
        BY <1>1, PlansOrderly DEF Passed, Orderly
      <3>2. network[r] \in Networks
        BY <1>1, <3>1 DEF Known, Connected
      <3> QED
        BY <3>2 DEF TargetOf, Networks
    <2>4. /\ Known(op[r], pref[r], i2, network[r], Pending(TargetOf(r)), claim[r], a2)
          /\ r \in gaveUp' \/ Unspent(op[r], a2, Pending(TargetOf(r)))
      <3>1. op[r] # "swap" => TargetOf(r) = network[r]
        BY DEF TargetOf
      <3> QED
        BY <1>1, <2>1, <3>1, SubmittedKnown DEF Unspent
    <2>5. Pending(TargetOf(r)) \in Txs /\ Pending(TargetOf(r)).net \in Networks
      BY <2>3 DEF Pending, Txs, Statuses
    <2>6. /\ claim' = [claim EXCEPT ![r] = claim[r]]
          /\ network' = [network EXCEPT ![r] = network[r]]
          /\ probed' \subseteq Reqs /\ balance' \in [Networks -> [Wallets -> Nat]]
          /\ UNCHANGED <<op, wallet, pref>>
      BY DEF IInv, TypeOK, Submit
    <2> QED
      BY <1>1, <1>2, <2>1, <2>2, <2>4, <2>5, <2>6, OneChanged
  <1>3. CASE Answer(r, "error") /\ UNCHANGED <<tx, gaveUp>>
    <2>1. tx[r].status = "none"
      BY <1>1, UnsentBefore DEF Known
    <2>2. Unspent(op[r], "error", tx[r])
      BY <2>1 DEF Unspent
    <2>3. UNCHANGED <<op, wallet, pref, probed, network, netVars>> /\ Awaits(r, "submit")
      BY <1>3 DEF Submit, netVars
    <2>4. "error" \in Answers \ {"none", "ok"}
      BY DEF Answers
    <2> QED
      BY <1>3, <2>2, <2>3, <2>4, RefusedStep
  <1> QED
    BY <1>2, <1>3 DEF Submit

LEMMA CallStep ==
    ASSUME IInv, NEW r \in Reqs, Call(r) PROVE IInv'
  <1>1. PICK s \in {"key", "validate", "prepare", "postWin"} : Awaits(r, s)
    BY DEF Call
  <1>2. UNCHANGED <<op, wallet, pref, probed, network, netVars>> /\ gaveUp' = gaveUp
    BY DEF Call
  <1>3. CASE Continue(r)
    BY <1>1, <1>2, <1>3, ContinuedStep
  <1>4. CASE Answer(r, "error")
    <2>1. /\ op[r] \in AllOps /\ at[r] \in 1..Len(Plan[op[r]]) /\ Plan[op[r]][at[r]] = s
          /\ Sent(op[r], at[r], "none", tx[r])
      BY <1>1, Awaiting DEF Known
    <2>2. s = "postWin" => op[r] = "rps"
      BY <2>1, PlansOrderly DEF Orderly
    <2>3. s # "postWin" => tx[r].status = "none"
      BY <2>1, UnsentBefore
    <2>4. Unspent(op[r], "error", tx[r]) /\ "error" \in Answers \ {"none", "ok"}
      BY <2>2, <2>3 DEF Unspent, Answers
    <2> QED
      BY <1>1, <1>2, <1>4, <2>4, RefusedStep
  <1> QED
    BY <1>3, <1>4 DEF Call

LEMMA NoGameStep ==
    ASSUME IInv, NEW r \in Reqs, NoGame(r) PROVE IInv'
  <1>1. Awaits(r, "prepare") /\ Answer(r, "noGame")
    BY DEF NoGame
  <1>2. UNCHANGED <<op, wallet, pref, probed, network, netVars>> /\ gaveUp' = gaveUp
    BY DEF NoGame
  <1>3. Unspent(op[r], "noGame", tx[r]) /\ "noGame" \in Answers \ {"none", "ok"}
    BY DEF Unspent, Answers
  <1> QED
    BY <1>1, <1>2, <1>3, RefusedStep

LEMMA ConnectStep ==
    ASSUME IInv, NEW r \in Reqs, Connect(r) PROVE IInv'
  <1> USE DEF Networks
  <1>1. CASE UsePreference(r)
    <2>1. pref[r] \in Networks
      BY <1>1 DEF IInv, TypeOK, UsePreference
    <2> QED
      BY <1>1, <2>1, ConnectionStep DEF UsePreference
  <1>2. CASE DetectMainnet(r)
    BY <1>2, ConnectionStep DEF DetectMainnet, Detecting
  <1>3. CASE DetectDevnet(r)
    BY <1>3, ConnectionStep DEF DetectDevnet, Detecting
  <1>4. CASE DetectFails(r)
    BY <1>4, ConnectionStep DEF DetectFails, Detecting
  <1>5. CASE ProbeMainnet(r)
    <2>1. /\ UNCHANGED <<op, wallet, pref, at, network, answer, gaveUp, tx, claim, balance>>
          /\ probed' \subseteq Reqs
      BY <1>5 DEF ProbeMainnet, IInv, TypeOK, netVars
    <2>2. TypeOK'
      BY <2>1 DEF IInv, TypeOK
    <2>3. \A q \in Reqs : KnownOf(q)'
      BY <2>1 DEF IInv, KnownOf
    <2>4. \A q \in Reqs : q \in gaveUp' \/ Unspent(op'[q], answer'[q], tx'[q])
      BY <2>1 DEF IInv
    <2> QED
      BY <2>2, <2>3, <2>4 DEF IInv
  <1> QED
    BY <1>1, <1>2, <1>3, <1>4, <1>5 DEF Connect

LEMMA PollStep ==
    ASSUME IInv, NEW r \in Reqs, Poll(r) PROVE IInv'
  BY ContinuedStep DEF Poll

LEMMA ConfirmStep ==
    ASSUME IInv, NEW r \in Reqs, Confirm(r) PROVE IInv'
  BY ContinuedStep DEF Confirm

LEMMA CheckStep ==
    ASSUME IInv, NEW r \in Reqs, Check(r) PROVE IInv'
  <1>1. /\ Awaits(r, "check")
        /\ UNCHANGED <<op, wallet, pref, probed, network, gaveUp, netVars>>
    BY DEF Check
  <1>2. CASE tx[r].status = "landed" /\ Continue(r)
    BY <1>1, <1>2, ContinuedStep
  <1>3. CASE tx[r].status = "failed" /\ Answer(r, "error")
    <2>1. Unspent(op[r], "error", tx[r]) /\ "error" \in Answers \ {"none", "ok"}
      BY <1>3 DEF Unspent, Answers
    <2>2. UNCHANGED <<op, wallet, pref, probed, network, netVars>> /\ gaveUp' = gaveUp
      BY <1>1
    <2> QED
      BY <1>1, <1>3, <2>1, <2>2, RefusedStep
  <1> QED
    BY <1>2, <1>3 DEF Check

LEMMA GiveUpStep ==
    ASSUME IInv, NEW r \in Reqs, GiveUp(r) PROVE IInv'
  <1>1. PICK s \in {"poll", "confirm", "check"} : Awaits(r, s)
    BY DEF GiveUp
  <1>2. /\ Answer(r, "error") /\ gaveUp' = gaveUp \cup {r}
        /\ UNCHANGED <<op, wallet, pref, probed, network, netVars>>
    BY DEF GiveUp, GivesUp
  <1>3. "error" \in Answers \ {"none", "ok"} /\ r \in gaveUp'
    BY <1>2 DEF Answers
  <1> QED
    BY <1>1, <1>2, <1>3, RefusedStep

\* Only a game has these calls, and its error promises nothing.
LEMMA GameRefused ==
    ASSUME IInv, NEW r \in Reqs, NEW s \in {"outcome", "win", "claim"}, Awaits(r, s),
           NEW a \in {"lost", "error"}, Answer(r, a),
           UNCHANGED <<op, wallet, pref, probed, network, gaveUp, netVars>>
    PROVE  IInv'
  <1>1. /\ op[r] \in AllOps /\ at[r] \in 1..Len(Plan[op[r]])
        /\ Plan[op[r]][at[r]] = s
    BY Awaiting
  <1>2. op[r] = "rps"
    BY <1>1, PlansOrderly DEF Orderly
  <1>3. Unspent(op[r], a, tx[r]) /\ a \in Answers \ {"none", "ok"}
    BY <1>2 DEF Unspent, Answers
  <1>4. UNCHANGED <<op, wallet, pref, probed, network, netVars>> /\ gaveUp' = gaveUp
    OBVIOUS
  <1> QED
    BY <1>3, <1>4, RefusedStep

LEMMA OutcomeStep ==
    ASSUME IInv, NEW r \in Reqs, Outcome(r) PROVE IInv'
  <1>1. CASE Continue(r)
    BY <1>1, ContinuedStep DEF Outcome
  <1>2. CASE Answer(r, "lost")
    BY <1>2, GameRefused DEF Outcome
  <1>3. CASE Answer(r, "error")
    BY <1>3, GameRefused DEF Outcome
  <1> QED
    BY <1>1, <1>2, <1>3 DEF Outcome

LEMMA WinStep ==
    ASSUME IInv, NEW r \in Reqs, Win(r) PROVE IInv'
  <1>1. CASE Continue(r)
    BY <1>1, ContinuedStep DEF Win
  <1>2. CASE at' = [at EXCEPT ![r] = Len(Plan[op[r]])] /\ UNCHANGED answer
    <2>1. /\ at[r] # 0 /\ answer[r] = "none" /\ op[r] \in AllOps
          /\ at[r] \in 1..Len(Plan[op[r]]) /\ Plan[op[r]][at[r]] = "win"
          /\ network[r] \in Networks \cup {None} /\ tx[r] \in Txs /\ claim[r] \in Txs
          /\ tx[r].status = "pending" => tx[r].net \in Networks
          /\ claim[r].status = "pending" => claim[r].net \in Networks
          /\ Known(op[r], pref[r], at[r], network[r], tx[r], claim[r], "none")
      BY Awaiting DEF Win
    <2>2. Known(op[r], pref[r], Len(Plan[op[r]]), network[r], tx[r], claim[r], "none")
      BY <2>1, SkippedKnown
    <2>3. Len(Plan[op[r]]) \in 1..Len(Plan[op[r]])
      BY <2>1, PlansOrderly DEF Orderly
    <2>4. Unspent(op[r], "none", tx[r]) /\ "none" \in Answers
      BY DEF Unspent, Answers
    <2>5. /\ answer' = [answer EXCEPT ![r] = "none"]
          /\ network' = [network EXCEPT ![r] = network[r]]
          /\ tx' = [tx EXCEPT ![r] = tx[r]] /\ claim' = [claim EXCEPT ![r] = claim[r]]
          /\ probed' \subseteq Reqs /\ balance' \in [Networks -> [Wallets -> Nat]]
          /\ UNCHANGED <<op, wallet, pref, gaveUp>>
      BY <1>2, <2>1 DEF IInv, TypeOK, Win, netVars
    <2> QED
      BY <1>2, <2>1, <2>2, <2>3, <2>4, <2>5, OneChanged
  <1>3. CASE Answer(r, "error")
    BY <1>3, GameRefused DEF Win
  <1> QED
    BY <1>1, <1>2, <1>3 DEF Win

LEMMA ClaimStep ==
    ASSUME IInv, NEW r \in Reqs, Claim(r) PROVE IInv'
  <1>1. Awaits(r, "claim")
    BY DEF Claim
  <1>2. CASE /\ claim' = [claim EXCEPT ![r] = Pending(network[r])]
             /\ Continue(r) \/ Answer(r, "error")
    <2>1. /\ at[r] # 0 /\ answer[r] = "none" /\ op[r] \in AllOps
          /\ at[r] \in 1..Len(Plan[op[r]]) /\ Plan[op[r]][at[r]] = "claim"
          /\ network[r] \in Networks \cup {None} /\ tx[r] \in Txs
          /\ tx[r].status = "pending" => tx[r].net \in Networks
          /\ Known(op[r], pref[r], at[r], network[r], tx[r], claim[r], "none")
      BY <1>1, Awaiting
    <2>2. PICK i2, a2 :
             /\ Moved(op[r], at[r], i2, a2)
             /\ at' = [at EXCEPT ![r] = i2] /\ answer' = [answer EXCEPT ![r] = a2]
      BY <1>2, <2>1, Moving DEF Answers
    <2>3. i2 \in 1..Len(Plan[op[r]]) /\ a2 \in Answers
      BY <2>1, <2>2, MovedPasses
    <2>4. Known(op[r], pref[r], at[r], network[r], tx[r], Pending(network[r]), "none")
      BY <2>1, ClaimedKnown
    <2>5. Known(op[r], pref[r], i2, network[r], tx[r], Pending(network[r]), a2)
      BY <2>1, <2>2, <2>4, AnsweredKnown
    <2>6. network[r] \in Networks
      <3>1. op[r] = "rps"
        BY <2>1, PlansOrderly DEF Orderly
      <3>2. Passed(Plan[op[r]], at[r], "none", "connect")
        BY <2>1, <3>1, PlansOrderly DEF Passed, Orderly
      <3> QED
        BY <2>1, <3>2 DEF Known, Connected
    <2>7. Unspent(op[r], a2, tx[r])
      <3>1. op[r] = "rps"
        BY <2>1, PlansOrderly DEF Orderly
      <3> QED
        BY <3>1 DEF Unspent
    <2>8. Pending(network[r]) \in Txs /\ Pending(network[r]).net \in Networks
      BY <2>6 DEF Pending, Txs, Statuses
    <2>9. /\ network' = [network EXCEPT ![r] = network[r]]
          /\ tx' = [tx EXCEPT ![r] = tx[r]]
          /\ probed' \subseteq Reqs /\ balance' \in [Networks -> [Wallets -> Nat]]
          /\ UNCHANGED <<op, wallet, pref, gaveUp>>
      BY DEF IInv, TypeOK, Claim
    <2> QED
      BY <1>2, <2>1, <2>2, <2>3, <2>5, <2>7, <2>8, <2>9, OneChanged
  <1>3. CASE Answer(r, "error") /\ UNCHANGED claim
    <2>1. UNCHANGED <<op, wallet, pref, probed, network, gaveUp, netVars>>
      BY <1>3 DEF Claim, netVars
    <2> QED
      BY <1>1, <1>3, <2>1, GameRefused
  <1> QED
    BY <1>2, <1>3 DEF Claim

LEMMA ExecuteStep ==
    ASSUME IInv, NEW r \in Reqs, Execute(r) PROVE IInv'
  <1>1. /\ tx[r].status = "pending" /\ at[r] # 0 /\ tx[r].net \in Networks
        /\ op[r] \in AllOps /\ wallet[r] \in Wallets
        /\ at[r] \in 1..Len(Plan[op[r]])
        /\ network[r] \in Networks \cup {None} /\ tx[r] \in Txs /\ claim[r] \in Txs
        /\ answer[r] \in Answers
        /\ claim[r].status = "pending" => claim[r].net \in Networks
    BY PlansOrderly DEF Execute, IInv, TypeOK, Orderly
  <1>2. Known(op[r], pref[r], at[r], network[r], tx[r], claim[r], answer[r])
    BY <1>1 DEF IInv, KnownOf
  <1>3. balance' \in [Networks -> [Wallets -> Nat]]
    <2>1. balance \in [Networks -> [Wallets -> Nat]]
      BY DEF IInv, TypeOK
    <2>2. CASE UNCHANGED balance
      BY <2>1, <2>2
    <2>3. CASE Credit(tx[r].net, wallet[r], 1)
      BY <1>1, <2>1, <2>3 DEF Credit
    <2>4. CASE balance[tx[r].net][wallet[r]] > 0 /\ Credit(tx[r].net, wallet[r], -1)
      BY <1>1, <2>1, <2>4 DEF Credit
    <2> QED
      BY <2>2, <2>3, <2>4 DEF Execute
  <1>4. PICK t2 \in Txs :
           /\ tx' = [tx EXCEPT ![r] = t2]
           /\ t2.net = tx[r].net /\ t2.status \in {"landed", "failed", "expired"}
    <2>1. PICK st \in {"landed", "failed", "expired"} : tx' = [tx EXCEPT ![r].status = st]
      BY DEF Execute
    <2> DEFINE t2 == [tx[r] EXCEPT !.status = st]
    <2>2. t2 \in Txs /\ t2.net = tx[r].net /\ t2.status = st
      BY <1>1 DEF Txs, Statuses
    <2>3. tx' = [tx EXCEPT ![r] = t2]
      BY <2>1 DEF IInv, TypeOK
    <2> QED
      BY <2>2, <2>3
  <1>5. Known(op[r], pref[r], at[r], network[r], t2, claim[r], answer[r])
    BY <1>1, <1>2, <1>4, ExecutedKnown
  <1>6. r \in gaveUp \/ Unspent(op[r], answer[r], t2)
    BY <1>1 DEF IInv, Unspent
  <1>7. /\ at' = [at EXCEPT ![r] = at[r]] /\ answer' = [answer EXCEPT ![r] = answer[r]]
        /\ network' = [network EXCEPT ![r] = network[r]]
        /\ claim' = [claim EXCEPT ![r] = claim[r]]
        /\ probed' \subseteq Reqs /\ UNCHANGED <<op, wallet, pref, gaveUp>>
    BY DEF IInv, TypeOK, Execute, reqVars
  <1> QED
    BY <1>1, <1>3, <1>4, <1>5, <1>6, <1>7, OneChanged

LEMMA ExecuteClaimStep ==
    ASSUME IInv, NEW r \in Reqs, ExecuteClaim(r) PROVE IInv'
  <1>1. /\ claim[r].status = "pending" /\ at[r] # 0 /\ claim[r].net \in Networks
        /\ op[r] \in AllOps /\ wallet[r] \in Wallets
        /\ at[r] \in 1..Len(Plan[op[r]])
        /\ network[r] \in Networks \cup {None} /\ tx[r] \in Txs /\ claim[r] \in Txs
        /\ answer[r] \in Answers
        /\ tx[r].status = "pending" => tx[r].net \in Networks
    BY PlansOrderly DEF ExecuteClaim, IInv, TypeOK, Orderly
  <1>2. Known(op[r], pref[r], at[r], network[r], tx[r], claim[r], answer[r])
    BY <1>1 DEF IInv, KnownOf
  <1>3. balance' \in [Networks -> [Wallets -> Nat]]
    <2>1. balance \in [Networks -> [Wallets -> Nat]]
      BY DEF IInv, TypeOK
    <2>2. CASE UNCHANGED balance
      BY <2>1, <2>2
    <2>3. CASE Credit(claim[r].net, wallet[r], 1)
      BY <1>1, <2>1, <2>3 DEF Credit
    <2> QED
      BY <2>2, <2>3 DEF ExecuteClaim
  <1>4. PICK c2 \in Txs :
           /\ claim' = [claim EXCEPT ![r] = c2]
           /\ c2.net = claim[r].net /\ c2.status \in {"landed", "failed", "expired"}
    <2>1. PICK st \in {"landed", "failed", "expired"} : claim' = [claim EXCEPT ![r].status = st]
      BY DEF ExecuteClaim
    <2> DEFINE c2 == [claim[r] EXCEPT !.status = st]
    <2>2. c2 \in Txs /\ c2.net = claim[r].net /\ c2.status = st
      BY <1>1 DEF Txs, Statuses
    <2>3. claim' = [claim EXCEPT ![r] = c2]
      BY <2>1 DEF IInv, TypeOK
    <2> QED
      BY <2>2, <2>3
  <1>5. Known(op[r], pref[r], at[r], network[r], tx[r], c2, answer[r])
    BY <1>1, <1>2, <1>4 DEF Known, Claimed, Preferred
  <1>6. r \in gaveUp \/ Unspent(op[r], answer[r], tx[r])
    BY DEF IInv
  <1>7. /\ at' = [at EXCEPT ![r] = at[r]] /\ answer' = [answer EXCEPT ![r] = answer[r]]
        /\ network' = [network EXCEPT ![r] = network[r]]
        /\ tx' = [tx EXCEPT ![r] = tx[r]]
        /\ probed' \subseteq Reqs /\ UNCHANGED <<op, wallet, pref, gaveUp>>
    BY DEF IInv, TypeOK, ExecuteClaim, reqVars
  <1> QED
    BY <1>1, <1>3, <1>4, <1>5, <1>6, <1>7, OneChanged

LEMMA BeginStep ==
    ASSUME IInv, NEW r \in Reqs, Begin(r) PROVE IInv'
  <1>1. PICK o \in Ops, w \in Wallets, p \in Networks \cup {None} :
           /\ op' = [op EXCEPT ![r] = o]
           /\ wallet' = [wallet EXCEPT ![r] = w]
           /\ pref' = [pref EXCEPT ![r] = IF o = "faucet" THEN None ELSE p]
           /\ network' = [network EXCEPT ![r] = IF o = "faucet" THEN "devnet" ELSE None]
    BY DEF Begin
  <1>2. /\ at[r] = 0 /\ at' = [at EXCEPT ![r] = 1] /\ UNCHANGED <<probed, answer, gaveUp, tx, claim, balance>>
    BY DEF Begin, netVars
  <1>3. o \in AllOps /\ Len(Plan[o]) \in Nat /\ Len(Plan[o]) >= 1
    BY ConstantsAssumption, PlansOrderly DEF ConstantsAssumption, Orderly
  <1>4. TypeOK'
    <2>1. /\ op' \in [Reqs -> AllOps \cup {None}]
          /\ wallet' \in [Reqs -> Wallets \cup {None}]
          /\ pref' \in [Reqs -> Networks \cup {None}]
          /\ at' \in [Reqs -> Nat]
          /\ network' \in [Reqs -> Networks \cup {None}]
      BY <1>1, <1>2, <1>3 DEF IInv, TypeOK, Networks
    <2>2. /\ probed' \subseteq Reqs /\ gaveUp' \subseteq Reqs
          /\ tx' \in [Reqs -> Txs] /\ claim' \in [Reqs -> Txs]
          /\ answer' \in [Reqs -> Answers]
          /\ balance' \in [Networks -> [Wallets -> Nat]]
      BY <1>2 DEF IInv, TypeOK
    <2>3. \A q \in Reqs : at'[q] # 0 =>
             op'[q] \in AllOps /\ wallet'[q] \in Wallets /\ at'[q] <= Len(Plan[op'[q]])
      BY <1>1, <1>2, <1>3 DEF IInv, TypeOK
    <2>4. \A q \in Reqs :
             /\ tx'[q].status = "pending" => tx'[q].net \in Networks /\ at'[q] # 0
             /\ claim'[q].status = "pending" => claim'[q].net \in Networks /\ at'[q] # 0
      BY <1>2 DEF IInv, TypeOK
    <2> QED
      BY <2>1, <2>2, <2>3, <2>4 DEF TypeOK
  <1>5. answer[r] = "none" /\ tx[r] = NoTx /\ claim[r] = NoTx
    BY <1>2 DEF IInv, KnownOf
  <1>6. \A q \in Reqs : KnownOf(q)'
    <2> TAKE q \in Reqs
    <2>1. CASE q = r
      <3> DEFINE n == IF o = "faucet" THEN "devnet" ELSE None
      <3> DEFINE pr == IF o = "faucet" THEN None ELSE p
      <3>1. at'[r] = 1 /\ op'[r] = o /\ pref'[r] = pr /\ network'[r] = n
        BY <1>1, <1>2 DEF IInv, TypeOK
      <3>2. \A s : ~ Passed(Plan[o], 1, "none", s)
        BY <1>3 DEF Passed
      <3>3. NoTx.status = "none" /\ NoTx.net = None
        BY DEF NoTx
      <3>4. Known(o, pr, 1, n, NoTx, NoTx, "none")
        BY <3>2, <3>3 DEF Known, Ended, Sent, Connected, Checked, Confirmed, Claimed, Preferred,
                     Networks
      <3> HIDE DEF n, pr
      <3> QED
        BY <1>2, <1>5, <2>1, <3>1, <3>4 DEF KnownOf
    <2>2. CASE q # r
      <3>1. KnownOf(q)
        BY DEF IInv
      <3>2. /\ at'[q] = at[q] /\ op'[q] = op[q] /\ pref'[q] = pref[q]
            /\ network'[q] = network[q]
        BY <1>1, <1>2, <2>2 DEF IInv, TypeOK
      <3> QED
        BY <1>2, <3>1, <3>2 DEF KnownOf
    <2> QED
      BY <2>1, <2>2
  <1>7. \A q \in Reqs : q \in gaveUp' \/ Unspent(op'[q], answer'[q], tx'[q])
    <2> TAKE q \in Reqs
    <2>1. CASE q = r
      BY <1>2, <1>5, <2>1 DEF Unspent
    <2>2. CASE q # r
      BY <1>1, <1>2, <2>2 DEF IInv, TypeOK
    <2> QED
      BY <2>1, <2>2
  <1> QED
    BY <1>4, <1>6, <1>7 DEF IInv

-----------------------------------------------------------------------------

LEMMA InitIInv == Init => IInv
  <1> SUFFICES ASSUME Init PROVE IInv
    OBVIOUS
  <1>1. NoTx \in Txs /\ NoTx.status = "none"
    BY DEF NoTx, Txs, Statuses
  <1>2. TypeOK
    <2>1. balance \in [Networks -> [Wallets -> Nat]]
      <3>1. 0..MaxBalance \subseteq Nat
        BY ConstantsAssumption DEF ConstantsAssumption
      <3> QED
        BY <3>1 DEF Init
    <2> QED
      BY <1>1, <2>1 DEF Init, TypeOK, Answers
  <1>3. \A r \in Reqs : KnownOf(r)
    BY DEF Init, KnownOf
  <1>4. \A r \in Reqs : Unspent(op[r], answer[r], tx[r])
    BY DEF Init, Unspent
  <1> QED
    BY <1>2, <1>3, <1>4 DEF IInv

LEMMA NextIInv == IInv /\ [Next]_vars => IInv'
  <1> SUFFICES ASSUME IInv, [Next]_vars PROVE IInv'
    OBVIOUS
  <1>1. ASSUME NEW r \in Reqs, Step(r) PROVE IInv'
    BY <1>1, CallStep, NoGameStep, ConnectStep, SubmitStep, PollStep, ConfirmStep,
       CheckStep, GiveUpStep, OutcomeStep, WinStep, ClaimStep DEF Step
  <1>2. ASSUME NEW r \in Reqs, Begin(r) \/ Execute(r) \/ ExecuteClaim(r) PROVE IInv'
    BY <1>2, BeginStep, ExecuteStep, ExecuteClaimStep
  <1>3. CASE UNCHANGED vars
    BY <1>3 DEF vars, reqVars, netVars, IInv, TypeOK, KnownOf
  <1> QED
    BY <1>1, <1>2, <1>3 DEF Next

LEMMA Invariant == Spec => []IInv
  BY InitIInv, NextIInv, PTL DEF Spec

\* The variables of the model keep their types, for any number of requests and
\* wallets and whatever the wallets hold.
THEOREM TypeCorrect == Spec => []TypeOK
  <1>1. IInv => TypeOK
    BY DEF IInv
  <1> QED
    BY <1>1, Invariant, PTL

\* A request answered with ok has passed all the calls of its plan.
LEMMA OkPassed ==
    ASSUME IInv, NEW r \in Reqs, answer[r] = "ok"
    PROVE  /\ at[r] # 0 /\ op[r] \in AllOps
           /\ \A s \in StepsOf(op[r]) : Passed(Plan[op[r]], at[r], "ok", s)
           /\ Known(op[r], pref[r], at[r], network[r], tx[r], claim[r], "ok")
  <1>1. at[r] # 0
    BY DEF IInv, KnownOf
  <1>2. op[r] \in AllOps
    BY <1>1 DEF IInv, TypeOK
  <1>3. Known(op[r], pref[r], at[r], network[r], tx[r], claim[r], "ok")
    BY <1>1 DEF IInv, KnownOf
  <1>4. at[r] = Len(Plan[op[r]])
    BY <1>3 DEF Known, Ended
  <1>5. \A s \in StepsOf(op[r]) : Passed(Plan[op[r]], at[r], "ok", s)
    <2> TAKE s \in StepsOf(op[r])
    <2>1. PICK j \in DOMAIN Plan[op[r]] : Plan[op[r]][j] = s
      BY DEF StepsOf
    <2>2. j \in 1..Len(Plan[op[r]]) /\ Len(Plan[op[r]]) \in Nat
      BY <1>2, <2>1, PlansOrderly DEF Orderly
    <2> QED
      BY <1>4, <2>1, <2>2 DEF Passed
  <1> QED
    BY <1>1, <1>2, <1>3, <1>5

\* An endpoint that waits answers ok only when its transaction has been executed
\* on the network it watches, one that looks at err only when it has succeeded.
THEOREM OkExecuted == Spec => []OkMeansExecuted
  <1>1. IInv => OkMeansExecuted
    <2> SUFFICES ASSUME IInv, NEW r \in Reqs, answer[r] = "ok"
                 PROVE  /\ "confirm" \in StepsOf(op[r]) =>
                              Executed(tx[r]) /\ tx[r].net = network[r]
                        /\ "check" \in StepsOf(op[r]) => tx[r].status = "landed"
      BY DEF OkMeansExecuted
    <2> QED
      BY OkPassed DEF Known, Confirmed, Checked
  <1> QED
    BY <1>1, Invariant, PTL

\* After an error of anything but a game nothing has been spent and nothing will
\* be, unless a call of the request has thrown for want of an answer.
THEOREM ErrorUnspent == Spec => []ErrorMeansUnspent
  <1>1. IInv => ErrorMeansUnspent
    BY DEF IInv, Unspent, ErrorMeansUnspent
  <1> QED
    BY <1>1, Invariant, PTL

\* No prize is claimed before the stake of its game has been paid.
THEOREM ClaimAfterStake == Spec => []PrizeAfterStake
  <1>1. IInv => PrizeAfterStake
    <2> SUFFICES ASSUME IInv, NEW r \in Reqs, claim[r].status # "none"
                 PROVE  tx[r].status = "landed"
      BY DEF PrizeAfterStake
    <2>1. at[r] # 0
      BY DEF IInv, KnownOf, NoTx
    <2> QED
      BY <2>1 DEF IInv, KnownOf, Known, Claimed
  <1> QED
    BY <1>1, Invariant, PTL

\* Whatever a request with a preference sends, a swap excepted, goes to the
\* network of its preference, and it connects to no other.
THEOREM PreferenceKept == Spec => []PreferredNetworkOnly
  <1>1. IInv => PreferredNetworkOnly
    <2> SUFFICES ASSUME IInv, NEW r \in Reqs, pref[r] # None
                 PROVE  /\ network[r] \in {None, pref[r]}
                        /\ op[r] # "swap" =>
                              {tx[r].net, claim[r].net} \subseteq {None, pref[r]}
      BY DEF PreferredNetworkOnly
    <2>1. at[r] # 0
      BY DEF IInv, KnownOf
    <2>2. Preferred(op[r], pref[r], network[r], tx[r], claim[r])
      BY <2>1 DEF IInv, KnownOf, Known
    <2> QED
      BY <2>2 DEF Preferred
  <1> QED
    BY <1>1, Invariant, PTL
=============================================================================
