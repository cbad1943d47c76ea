------------------------------- MODULE Airdrop -------------------------------
(***************************************************************************)
(* The compressed airdrop of src/src/actions/actions.service.ts: one call  *)
(* of sendCompressedAirdrop pays a list of recipients with transactions of *)
(* 15 recipients, at most MAX_CONCURRENT_TXS at a time, each tried up to   *)
(* MAX_RETRIES times.                                                      *)
(*                                                                         *)
(* The network is external.  It takes a transaction or refuses it, and the *)
(* call that sends it may fail either way.  One that it has taken is       *)
(* executed at any later time or expires, whether or not the server still  *)
(* waits for its confirmation.  Executing it pays its recipients or ends   *)
(* in an error, and a confirmation is reported for both: sendAndConfirmTx  *)
(* gives the signature without a look at the error.                        *)
(*                                                                         *)
(* Recipients are numbered by their place in the list, batches from 0, and *)
(* a transaction is named by its batch and its attempt.                    *)
(***************************************************************************)
EXTENDS Integers, FiniteSets

CONSTANTS
    Counts,                 \* the numbers of recipients that are asked for
    MAX_AIRDROP_RECIPIENTS,
    MAX_CONCURRENT_TXS,
    MAX_RETRIES

ASSUME ConstantsAssumption ==
    /\ Counts \subseteq Nat
    /\ MAX_AIRDROP_RECIPIENTS \in Nat
    /\ MAX_CONCURRENT_TXS \in Nat \ {0}
    /\ MAX_RETRIES \in Nat \ {0}

maxRecipientsPerInstruction == 5

maxIxs == 3

PerBatch == maxRecipientsPerInstruction * maxIxs

-----------------------------------------------------------------------------
(* How the recipients are divided.                                          *)

\* (mutant) A last batch that is not full is left out.
FullBatches(n) == n \div PerBatch

\* The rounds of the loop i = 0, 15, ... while i < n.
BatchCount(n) == (n + PerBatch - 1) \div PerBatch

Batches == 0..(BatchCount(MAX_AIRDROP_RECIPIENTS) - 1)

\* The recipients of the i-th compress instruction of batch b.
Instruction(n, b, i) ==
    LET from == b * PerBatch + i * maxRecipientsPerInstruction IN
    {r \in 1..n : from < r /\ r <= from + maxRecipientsPerInstruction}

RecipientsOf(n, b) == UNION {Instruction(n, b, i) : i \in 0..(maxIxs - 1)}

\* getAirdropCostEstimate: Math.ceil(n / 15).
TxsNeeded(n) == IF n % 15 = 0 THEN n \div 15 ELSE n \div 15 + 1

-----------------------------------------------------------------------------

VARIABLES
    pc,       \* of the call
    count,    \* its number of recipients
    window,   \* the first of the batches that are being sent
    status,   \* of each batch
    attempt,  \* of each batch
    flying,   \* the transactions the network has taken
    landed,   \* those that have paid their recipients
    failed,   \* and those that were executed with an error
    givenUp   \* the batches whose sender has left a transaction behind that
              \* the network had taken (history)

vars == <<pc, count, window, status, attempt, flying, landed, failed, givenUp>>

batchVars == <<status, attempt, flying, landed, failed, givenUp>>

Transactions == Batches \X (0..(MAX_RETRIES - 1))

Answers == {"signatures", "error"}

Settled == {"fulfilled", "rejected"}

\* The transactions that the network has executed, well or not.
Executed == landed \cup failed

InProgress == {"build", "confirm", "backoff"}

TypeOK ==
    /\ pc \in {"new", "pool", "prepare", "sending"} \cup Answers
    /\ count \in Nat
    /\ window \in Nat
    /\ status \in [Batches -> {"waiting", "unreachable"} \cup InProgress \cup Settled]
    /\ attempt \in [Batches -> 0..(MAX_RETRIES - 1)]
    /\ flying \subseteq Transactions
    /\ landed \subseteq Transactions
    /\ failed \subseteq Transactions
    /\ givenUp \subseteq Batches

Init ==
    /\ pc = "new"
    /\ count = 0
    /\ window = 0
    /\ status = [b \in Batches |-> "waiting"]
    /\ attempt = [b \in Batches |-> 0]
    /\ flying = {}
    /\ landed = {}
    /\ failed = {}
    /\ givenUp = {}

-----------------------------------------------------------------------------
(* sendCompressedAirdrop and processAirdropBatches.                         *)

Begin(n) ==
    /\ pc = "new"
    /\ count' = n
    /\ pc' = IF n > MAX_AIRDROP_RECIPIENTS THEN "error" ELSE "pool"
    /\ UNCHANGED <<window, batchVars>>

\* The token pool is created or is already in use, or creating it fails.
CreatePool ==
    /\ pc = "pool"
    /\ pc' \in {"prepare", "error"}
    /\ UNCHANGED <<count, window, batchVars>>

\* (mutant) All transactions are sent at once.
StartAll(first) ==
    status' = [b \in Batches |->
                 IF first <= b /\ b < BatchCount(count) THEN "build" ELSE status[b]]

\* The batches of the window are sent together.
Start(first) ==
    status' = [b \in Batches |->
                 IF /\ first <= b /\ b < first + MAX_CONCURRENT_TXS
                    /\ b < BatchCount(count)
                 THEN "build" ELSE status[b]]

\* The token account, the lookup table and the instructions.
Prepare ==
    /\ pc = "prepare"
    /\ \/ pc' = "sending" /\ Start(0)
       \/ pc' = "error" /\ UNCHANGED status
    /\ UNCHANGED <<count, window, attempt, flying, landed, failed, givenUp>>

Sending == {b \in Batches : b < BatchCount(count)}

\* Promise.allSettled on the batches of a window.
AllSettled == \A b \in Batches : status[b] \notin InProgress

NextWindow ==
    /\ pc = "sending"
    /\ AllSettled
    /\ window + MAX_CONCURRENT_TXS < BatchCount(count)
    /\ window' = window + MAX_CONCURRENT_TXS
    /\ Start(window + MAX_CONCURRENT_TXS)
    /\ UNCHANGED <<pc, count, attempt, flying, landed, failed, givenUp>>

\* (mutant) Promise.all: the first failure is the answer.
AnswerFirstFailure ==
    /\ pc = "sending"
    /\ \/ /\ \E b \in Batches : status[b] = "rejected"
          /\ pc' = "error"
       \/ /\ AllSettled
          /\ window + MAX_CONCURRENT_TXS >= BatchCount(count)
          /\ pc' = "signatures"
    /\ UNCHANGED <<count, window, batchVars>>

\* One batch that failed makes an error of the answer, and the signatures of
\* all others are dropped.
Answer ==
    /\ pc = "sending"
    /\ AllSettled
    /\ window + MAX_CONCURRENT_TXS >= BatchCount(count)
    /\ pc' = IF \E b \in Sending : status[b] = "rejected" THEN "error" ELSE "signatures"
    /\ UNCHANGED <<count, window, batchVars>>

-----------------------------------------------------------------------------
(* sendTransactionWithRetry.                                                *)

Fails(b) ==
    \E isRetryable \in BOOLEAN :
        status' = [status EXCEPT ![b] =
            IF ~isRetryable \/ attempt[b] = MAX_RETRIES - 1 THEN "rejected" ELSE "backoff"]

\* A transaction is built on the latest blockhash and given to the network, or
\* one of the two is refused, or the answer of the network is lost and the call
\* throws although the network has taken the transaction.
Submit(b) ==
    /\ status[b] = "build"
    /\ \/ /\ flying' = flying \cup {<<b, attempt[b]>>}
          /\ status' = [status EXCEPT ![b] = "confirm"]
          /\ UNCHANGED givenUp
       \/ Fails(b) /\ UNCHANGED <<flying, givenUp>>
       \/ /\ flying' = flying \cup {<<b, attempt[b]>>}
          /\ Fails(b)
          /\ givenUp' = givenUp \cup {b}
    /\ UNCHANGED <<pc, count, window, attempt, landed, failed>>

\* (mutant) The loop goes on after a success.
ConfirmedGoesOn(b) ==
    /\ status[b] = "confirm"
    /\ <<b, attempt[b]>> \in Executed
    /\ status' = [status EXCEPT ![b] = IF attempt[b] = MAX_RETRIES - 1 THEN "fulfilled"
                                                                      ELSE "backoff"]
    /\ UNCHANGED <<pc, count, window, attempt, flying, landed, failed, givenUp>>

\* A transaction that was executed with an error has a signature as well.
Confirmed(b) ==
    /\ status[b] = "confirm"
    /\ <<b, attempt[b]>> \in Executed
    /\ status' = [status EXCEPT ![b] = "fulfilled"]
    /\ UNCHANGED <<pc, count, window, attempt, flying, landed, failed, givenUp>>

\* Waiting for the confirmation fails: a timeout, a rate limit, anything else.
Unconfirmed(b) ==
    /\ status[b] = "confirm"
    /\ Fails(b)
    /\ givenUp' = givenUp \cup {b}
    /\ UNCHANGED <<pc, count, window, attempt, flying, landed, failed>>

\* (mutant) The attempts are not counted.
RetryUncounted(b) ==
    /\ status[b] = "backoff"
    /\ status' = [status EXCEPT ![b] = "build"]
    /\ UNCHANGED <<pc, count, window, attempt, flying, landed, failed, givenUp>>

Retry(b) ==
    /\ status[b] = "backoff"
    /\ IF attempt[b] + 1 < MAX_RETRIES
       THEN /\ attempt' = [attempt EXCEPT ![b] = @ + 1]
            /\ status' = [status EXCEPT ![b] = "build"]
       ELSE status' = [status EXCEPT ![b] = "unreachable"] /\ UNCHANGED attempt
    /\ UNCHANGED <<pc, count, window, flying, landed, failed, givenUp>>

-----------------------------------------------------------------------------
(* The network.                                                             *)

Land(t) ==
    /\ t \in flying
    /\ flying' = flying \ {t}
    /\ \/ landed' = landed \cup {t} /\ UNCHANGED failed
       \/ failed' = failed \cup {t} /\ UNCHANGED landed
    /\ UNCHANGED <<pc, count, window, status, attempt, givenUp>>

Expire(t) ==
    /\ t \in flying
    /\ flying' = flying \ {t}
    /\ UNCHANGED <<pc, count, window, status, attempt, landed, failed, givenUp>>

Request == CreatePool \/ Prepare \/ NextWindow \/ Answer

Send(b) == Submit(b) \/ Confirmed(b) \/ Unconfirmed(b) \/ Retry(b)

Next ==
    \/ \E n \in Counts : Begin(n)
    \/ Request
    \/ \E b \in Batches : Send(b)
    \/ \E t \in Transactions : Land(t) \/ Expire(t)

Spec == Init /\ [][Next]_vars

\* Node runs the continuations and timers, and every call of the network
\* library returns or throws.
Fairness == WF_vars(Request) /\ \A b \in Batches : WF_vars(Send(b))

FairSpec == Spec /\ Fairness

-----------------------------------------------------------------------------
(* What the airdrop keeps.                                                  *)

\* When the call answers with signatures, a transaction for every recipient of
\* the list has been executed, whatever was refused, left behind and tried
\* again before, also those of a last batch that is not full.  Executed is not
\* paid: a recipient of a transaction in failed got nothing, and the caller has
\* its signature all the same.
SuccessMeansExecuted ==
    pc = "signatures" =>
        \A r \in 1..count : \E t \in Executed : r \in RecipientsOf(count, t[1])

\* The transactions pay disjoint parts of the list: nobody is paid by two
\* batches.
PaidByOneBatch ==
    \A t, u \in landed :
        t[1] # u[1] => RecipientsOf(count, t[1]) \cap RecipientsOf(count, u[1]) = {}

\* The answer for a batch is exact unless its sender has left a transaction
\* behind, by giving up waiting or because the call that sent it threw after
\* the network had taken it: the network has taken exactly one transaction of a
\* fulfilled batch and executed it, so that its recipients are paid once or, if
\* it failed, not at all; and it has taken none of a rejected batch.
PaymentsCertain ==
    \A b \in Batches \ givenUp :
        LET taken == {t \in Executed \cup flying : t[1] = b} IN
        /\ status[b] = "fulfilled" => Cardinality(taken) = 1 /\ taken \subseteq Executed
        /\ status[b] = "rejected" => taken = {}

\* The loop of attempts is never left by its condition: the throw behind it is
\* unreachable, as its message says.
UnreachableNotReached == \A b \in Batches : status[b] # "unreachable"

\* No more than MAX_CONCURRENT_TXS batches are in progress, whichever batches of
\* a window settle first, and no more than that many transactions of batches
\* that have left none behind are on their way.  Those that were left behind
\* come on top: they may still be on their way while their batch is tried again
\* and the next window is sent.
AtMostConcurrent ==
    /\ Cardinality({b \in Batches : status[b] \in InProgress}) <= MAX_CONCURRENT_TXS
    /\ Cardinality({t \in flying : t[1] \notin givenUp}) <= MAX_CONCURRENT_TXS

\* Once the call has been answered, the server gives nothing more to the
\* network, also when the answer is the failure of one batch of many.
NothingSentAfterAnswer == [][(pc \in Answers) => (flying' \subseteq flying)]_vars

\* Every call is answered.
AirdropAnswered == pc # "new" ~> pc \in Answers
=============================================================================
