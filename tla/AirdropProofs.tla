---------------------------- MODULE AirdropProofs ----------------------------
(***************************************************************************)
(* Proofs about Airdrop for any number of recipients, any bounds on the    *)
(* transactions in flight and on the attempts.                             *)
(*                                                                         *)
(* The invariant splits the batches by the window: those before it are     *)
(* settled, those behind it wait, and only those inside can be in          *)
(* progress.  A batch whose sender has left nothing behind has no          *)
(* transaction but the one of its current attempt.                         *)
(***************************************************************************)
EXTENDS Airdrop, TLAPS, FiniteSetTheorems

-----------------------------------------------------------------------------
(* The division of the recipients into batches.                             *)

\* The loop over the recipients makes a natural number of batches.
LEMMA BatchCountNat == ASSUME NEW n \in Nat PROVE BatchCount(n) \in Nat
  BY DEF BatchCount, PerBatch, maxRecipientsPerInstruction, maxIxs

\* The cost estimate counts fees for exactly the transactions that the loop
\* over the recipients makes, also when the last one is not full.
THEOREM EstimateExact == \A n \in Nat : TxsNeeded(n) = BatchCount(n)
  BY DEF TxsNeeded, BatchCount, PerBatch, maxRecipientsPerInstruction, maxIxs

\* A call that passes the check on the number of recipients has no batch
\* outside Batches.
LEMMA BatchCountBounded ==
    ASSUME NEW n \in Nat, NEW m \in Nat, n <= m
    PROVE  BatchCount(n) <= BatchCount(m)
  BY DEF BatchCount, PerBatch, maxRecipientsPerInstruction, maxIxs

\* Every recipient is in a batch that the loop makes.
LEMMA EveryRecipientInABatch ==
    ASSUME NEW n \in Nat, NEW r \in 1..n
    PROVE  \E b \in 0..(BatchCount(n) - 1) : r \in RecipientsOf(n, b)
<1> DEFINE b == (r - 1) \div 15
<1> DEFINE i == ((r - 1) % 15) \div 5
<1>1. b \in 0..(BatchCount(n) - 1)
  BY DEF BatchCount, PerBatch, maxRecipientsPerInstruction, maxIxs
<1>2. i \in 0..2
  OBVIOUS
<1>3. r \in Instruction(n, b, i)
  BY <1>1, <1>2 DEF Instruction, PerBatch, maxRecipientsPerInstruction, maxIxs
<1> QED
  BY <1>1, <1>2, <1>3 DEF RecipientsOf, maxIxs

\* Two batches have no recipient in common.
LEMMA BatchesDisjoint ==
    ASSUME NEW n \in Nat, NEW b \in Nat, NEW c \in Nat, b # c
    PROVE  RecipientsOf(n, b) \cap RecipientsOf(n, c) = {}
<1>1. ASSUME NEW d \in Nat, NEW r \in RecipientsOf(n, d)
      PROVE  r \in 1..n /\ 15 * d < r /\ r <= 15 * d + 15
  <2>1. PICK i \in 0..2 : r \in Instruction(n, d, i)
    BY <1>1 DEF RecipientsOf, maxIxs
  <2> QED
    BY <2>1 DEF Instruction, PerBatch, maxRecipientsPerInstruction, maxIxs
<1>2. ASSUME NEW r \in RecipientsOf(n, b), r \in RecipientsOf(n, c) PROVE FALSE
  <2>1. r \in 1..n /\ 15 * b < r /\ r <= 15 * b + 15
    BY <1>1, <1>2
  <2>2. 15 * c < r /\ r <= 15 * c + 15
    BY <1>1, <1>2
  <2> QED
    BY <2>1, <2>2
<1> QED
  BY <1>2

-----------------------------------------------------------------------------
(* Types and constants.                                                     *)

\* Batches and attempts are natural numbers.
LEMMA Constants ==
    /\ Batches \subseteq Nat
    /\ MAX_CONCURRENT_TXS \in Nat \ {0}
    /\ MAX_RETRIES \in Nat \ {0}
    /\ 0 \in 0..(MAX_RETRIES - 1)
    /\ \A n \in Counts : n \in Nat
  BY ConstantsAssumption DEF Batches

\* A transaction is named by its batch and its attempt.
LEMMA TransactionNames ==
    ASSUME NEW b \in Batches, NEW k \in 0..(MAX_RETRIES - 1)
    PROVE  <<b, k>> \in Transactions /\ <<b, k>>[1] = b
  BY DEF Transactions

\* A transaction belongs to one of the batches.
LEMMA TransactionBatch ==
    ASSUME NEW t \in Transactions
    PROVE  t[1] \in Batches
  BY DEF Transactions

\* The states of a batch.
LEMMA Distinct ==
    /\ "waiting" \notin InProgress /\ "waiting" \notin Settled
    /\ "unreachable" \notin InProgress /\ "unreachable" \notin Settled
    /\ InProgress \cap Settled = {}
    /\ {"build", "confirm", "backoff"} = InProgress
    /\ {"fulfilled", "rejected"} = Settled
  BY DEF InProgress, Settled

-----------------------------------------------------------------------------
(* The invariant.                                                           *)

CallInv ==
    /\ pc \in {"pool", "prepare", "sending", "signatures"} => count <= MAX_AIRDROP_RECIPIENTS
    /\ pc \in {"new", "pool", "prepare"} => \A b \in Batches : status[b] = "waiting"
    /\ pc \in {"new", "pool", "prepare"} => window = 0
    /\ pc \in Answers => \A b \in Batches : status[b] \notin InProgress

WindowInv ==
    \A b \in Batches :
        /\ status[b] \in InProgress => window <= b /\ b < window + MAX_CONCURRENT_TXS
        /\ pc \in {"sending", "signatures"} /\ b < BatchCount(count)
             /\ b < window + MAX_CONCURRENT_TXS => status[b] # "waiting"
        /\ b >= window + MAX_CONCURRENT_TXS => status[b] = "waiting"
        /\ b >= BatchCount(count) => status[b] = "waiting"

DoneInv ==
    pc = "signatures" =>
        \A b \in Batches : b < BatchCount(count) => status[b] = "fulfilled"

LoopInv ==
    \A b \in Batches :
        /\ status[b] # "unreachable"
        /\ status[b] = "backoff" => attempt[b] < MAX_RETRIES - 1

PaidInv ==
    \A b \in Batches :
        /\ status[b] = "fulfilled" => <<b, attempt[b]>> \in Executed
        /\ b \notin givenUp =>
              \A t \in Executed \cup flying :
                  t[1] = b => /\ status[b] \in {"confirm", "fulfilled"}
                              /\ t = <<b, attempt[b]>>
                              /\ t \in flying => t \notin Executed

Inv == TypeOK /\ CallInv /\ WindowInv /\ DoneInv /\ LoopInv /\ PaidInv
-----------------------------------------------------------------------------
(* Steps.                                                                   *)

\* The invariant holds in the beginning.
LEMMA InitInv == Init => Inv
<1> SUFFICES ASSUME Init PROVE Inv
  OBVIOUS
<1> USE Constants
<1>1. TypeOK
  BY DEF Init, TypeOK
<1>2. CallInv /\ DoneInv
  BY DEF Init, CallInv, DoneInv, Answers
<1>3. WindowInv
  BY Distinct DEF Init, WindowInv
<1>4. LoopInv /\ PaidInv
  BY DEF Init, LoopInv, PaidInv, Executed
<1> QED
  BY <1>1, <1>2, <1>3, <1>4 DEF Inv

\* The check on the number of recipients keeps the batches in their bounds.
LEMMA BeginInv == ASSUME Inv, NEW n \in Counts, Begin(n) PROVE Inv'
<1> USE Constants
<1> USE DEF Inv
<1>1. TypeOK'
  BY DEF Begin, TypeOK, batchVars, Answers
<1>2. CallInv' /\ DoneInv'
  <2>1. n \in Nat /\ MAX_AIRDROP_RECIPIENTS \in Nat
    BY ConstantsAssumption
  <2> QED
    BY <2>1, Distinct DEF Begin, CallInv, DoneInv, batchVars, Answers
<1>3. WindowInv'
  BY Distinct DEF Begin, CallInv, WindowInv, batchVars
<1>4. LoopInv' /\ PaidInv'
  BY DEF Begin, LoopInv, PaidInv, Executed, batchVars
<1> QED
  BY <1>1, <1>2, <1>3, <1>4

\* Creating the token pool changes no batch.
LEMMA CreatePoolInv == ASSUME Inv, CreatePool PROVE Inv'
<1> USE Constants
<1> USE DEF Inv
<1>1. TypeOK'
  BY DEF CreatePool, TypeOK, batchVars, Answers
<1>2. CallInv' /\ DoneInv'
  BY Distinct DEF CreatePool, CallInv, DoneInv, batchVars, Answers
<1>3. WindowInv'
  BY Distinct DEF CreatePool, WindowInv, batchVars
<1>4. LoopInv' /\ PaidInv'
  BY DEF CreatePool, LoopInv, PaidInv, Executed, batchVars
<1> QED
  BY <1>1, <1>2, <1>3, <1>4

\* The batches of a new window are started, and all others are left alone.
LEMMA Started ==
    ASSUME TypeOK, NEW first \in Nat, Start(first)
    PROVE  /\ status' \in [Batches -> {"waiting", "unreachable"} \cup InProgress \cup Settled]
           /\ \A b \in Batches :
                 status'[b] = IF /\ first <= b /\ b < first + MAX_CONCURRENT_TXS
                                 /\ b < BatchCount(count)
                              THEN "build" ELSE status[b]
<1>1. \A b \in Batches : status[b] \in {"waiting", "unreachable"} \cup InProgress \cup Settled
  BY DEF TypeOK
<1>2. "build" \in InProgress
  BY Distinct
<1> QED
  BY <1>1, <1>2 DEF Start

\* The first window starts when no batch has started.
LEMMA PrepareInv == ASSUME Inv, Prepare PROVE Inv'
<1> USE Constants
<1> USE DEF Inv
<1>0. count \in Nat /\ BatchCount(count) \in Nat /\ window \in Nat
  BY BatchCountNat DEF TypeOK
<1>1. CASE pc' = "error" /\ UNCHANGED status
  <2>1. TypeOK'
    BY <1>1 DEF Prepare, TypeOK, Answers
  <2>2. CallInv' /\ DoneInv'
    BY <1>1, Distinct DEF Prepare, CallInv, DoneInv, Answers
  <2>3. WindowInv'
    BY <1>1, Distinct DEF Prepare, WindowInv
  <2>4. LoopInv' /\ PaidInv'
    BY <1>1 DEF Prepare, LoopInv, PaidInv, Executed
  <2> QED
    BY <2>1, <2>2, <2>3, <2>4
<1>2. CASE pc' = "sending" /\ Start(0)
  <2>0. /\ status' \in [Batches -> {"waiting", "unreachable"} \cup InProgress \cup Settled]
        /\ \A b \in Batches :
              status'[b] = IF /\ 0 <= b /\ b < 0 + MAX_CONCURRENT_TXS
                              /\ b < BatchCount(count)
                           THEN "build" ELSE status[b]
    BY <1>2, Started
  <2>1. TypeOK'
    BY <1>2, <2>0 DEF Prepare, TypeOK
  <2>2. CallInv' /\ DoneInv'
    BY <1>2 DEF Prepare, CallInv, DoneInv, Answers
  <2>w. window = 0 /\ window' = 0 /\ count' = count /\ \A b \in Batches : status[b] = "waiting"
    BY DEF Prepare, CallInv
  <2>3. WindowInv'
    BY <1>0, <1>2, <2>0, <2>w, Distinct DEF WindowInv
  <2>4. LoopInv' /\ PaidInv'
    BY <2>0, <2>w DEF Prepare, LoopInv, PaidInv, Executed
  <2> QED
    BY <2>1, <2>2, <2>3, <2>4
<1> QED
  BY <1>1, <1>2 DEF Prepare

\* A window starts when the one before it is settled.
LEMMA NextWindowInv == ASSUME Inv, NextWindow PROVE Inv'
<1> USE Constants
<1> USE DEF Inv
<1> DEFINE first == window + MAX_CONCURRENT_TXS
<1>0. count \in Nat /\ BatchCount(count) \in Nat /\ window \in Nat /\ first \in Nat
  BY BatchCountNat DEF TypeOK
<1>1. /\ status' \in [Batches -> {"waiting", "unreachable"} \cup InProgress \cup Settled]
      /\ \A b \in Batches :
            status'[b] = IF /\ first <= b /\ b < first + MAX_CONCURRENT_TXS
                            /\ b < BatchCount(count)
                         THEN "build" ELSE status[b]
  BY <1>0, Started DEF NextWindow
<1>2. pc = "sending" /\ pc' = "sending" /\ count' = count /\ window' = first
  BY DEF NextWindow
<1>3. \A b \in Batches : status[b] \notin InProgress
  BY DEF NextWindow, AllSettled
<1> HIDE DEF first
<1>4. TypeOK'
  BY <1>0, <1>1, <1>2 DEF NextWindow, TypeOK
<1>5. CallInv' /\ DoneInv'
  BY <1>2 DEF CallInv, DoneInv, Answers
<1>6. WindowInv'
  BY <1>0, <1>1, <1>2, <1>3, Distinct DEF WindowInv, first
<1>7. LoopInv' /\ PaidInv'
  <2>1. \A b \in Batches : b >= first => status[b] = "waiting"
    BY DEF WindowInv, first
  <2> QED
    BY <1>0, <1>1, <2>1 DEF NextWindow, LoopInv, PaidInv, Executed
<1> QED
  BY <1>4, <1>5, <1>6, <1>7

\* The call is answered when all windows are settled.
LEMMA AnswerInv == ASSUME Inv, Answer PROVE Inv'
<1> USE Constants
<1> USE DEF Inv
<1>0. count \in Nat /\ BatchCount(count) \in Nat /\ window \in Nat
  BY BatchCountNat DEF TypeOK
<1>1. TypeOK'
  BY DEF Answer, TypeOK, batchVars, Answers
<1>2. CallInv'
  BY DEF Answer, AllSettled, CallInv, batchVars, Answers
<1>3. WindowInv'
  BY DEF Answer, WindowInv, batchVars
<1>4. DoneInv'
  <2> SUFFICES ASSUME pc' = "signatures", NEW b \in Batches, b < BatchCount(count)
               PROVE  status[b] = "fulfilled"
    BY DEF Answer, DoneInv, batchVars
  <2>1. status[b] \notin InProgress /\ status[b] # "unreachable"
    BY DEF Answer, AllSettled, LoopInv
  <2>2. status[b] # "rejected"
    BY DEF Answer, Sending
  <2>3. status[b] # "waiting"
    BY <1>0 DEF Answer, WindowInv
  <2> QED
    BY <2>1, <2>2, <2>3, Distinct DEF TypeOK
<1>5. LoopInv' /\ PaidInv'
  BY DEF Answer, LoopInv, PaidInv, Executed, batchVars
<1> QED
  BY <1>1, <1>2, <1>3, <1>4, <1>5

\* A batch in progress that goes on or settles leaves the call and its windows
\* alone.
LEMMA BatchMoves ==
    ASSUME Inv, NEW b \in Batches, status[b] \in InProgress,
           NEW s \in InProgress \cup Settled,
           status' = [status EXCEPT ![b] = s],
           UNCHANGED <<pc, count, window>>
    PROVE  CallInv' /\ WindowInv' /\ DoneInv'
<1> USE Constants
<1>0. count \in Nat /\ BatchCount(count) \in Nat /\ window \in Nat
  BY BatchCountNat DEF Inv, TypeOK
<1>1. \A c \in Batches : status'[c] = IF c = b THEN s ELSE status[c]
  BY DEF Inv, TypeOK
<1>2. pc \notin {"new", "pool", "prepare"} \cup Answers
  BY Distinct DEF Inv, CallInv
<1>3. CallInv' /\ DoneInv'
  BY <1>2 DEF Inv, CallInv, DoneInv, Answers
<1>4. WindowInv'
  BY <1>0, <1>1, Distinct DEF Inv, WindowInv
<1> QED
  BY <1>3, <1>4

\* What a failure makes of a batch.
LEMMA Failed ==
    ASSUME NEW b \in Batches, Fails(b)
    PROVE  \E s \in {"rejected", "backoff"} :
              /\ status' = [status EXCEPT ![b] = s]
              /\ s = "backoff" => attempt[b] # MAX_RETRIES - 1
  BY DEF Fails

\* A transaction that is given to the network is the one of the current attempt.
LEMMA SubmitInv == ASSUME Inv, NEW b \in Batches, Submit(b) PROVE Inv'
<1> USE Constants
<1>0. /\ attempt[b] \in 0..(MAX_RETRIES - 1)
      /\ status[b] = "build" /\ status[b] \in InProgress
      /\ status \in [Batches -> {"waiting", "unreachable"} \cup InProgress \cup Settled]
  BY Distinct DEF Inv, TypeOK, Submit
<1>1. CASE /\ flying' = flying \cup {<<b, attempt[b]>>}
           /\ status' = [status EXCEPT ![b] = "confirm"]
           /\ UNCHANGED givenUp
  <2>1. TypeOK'
    BY <1>0, <1>1, TransactionNames, Distinct DEF Inv, TypeOK, Submit
  <2>2. CallInv' /\ WindowInv' /\ DoneInv'
    BY <1>0, <1>1, BatchMoves, Distinct DEF Submit
  <2>3. LoopInv' /\ PaidInv'
    BY <1>0, <1>1, TransactionNames DEF Inv, LoopInv, PaidInv, Executed, Submit
  <2> QED
    BY <2>1, <2>2, <2>3 DEF Inv
<1>2. CASE Fails(b) /\ UNCHANGED <<flying, givenUp>>
  <2>1. PICK s \in {"rejected", "backoff"} :
              /\ status' = [status EXCEPT ![b] = s]
              /\ s = "backoff" => attempt[b] # MAX_RETRIES - 1
    BY <1>2, Failed
  <2>2. TypeOK'
    BY <1>0, <1>2, <2>1, Distinct DEF Inv, TypeOK, Submit
  <2>3. CallInv' /\ WindowInv' /\ DoneInv'
    BY <1>0, <2>1, BatchMoves, Distinct DEF Submit
  <2>4. LoopInv' /\ PaidInv'
    BY <1>0, <1>2, <2>1 DEF Inv, LoopInv, PaidInv, Executed, Submit
  <2> QED
    BY <2>2, <2>3, <2>4 DEF Inv
<1>3. CASE /\ flying' = flying \cup {<<b, attempt[b]>>}
           /\ Fails(b)
           /\ givenUp' = givenUp \cup {b}
  <2>1. PICK s \in {"rejected", "backoff"} :
              /\ status' = [status EXCEPT ![b] = s]
              /\ s = "backoff" => attempt[b] # MAX_RETRIES - 1
    BY <1>3, Failed
  <2>2. TypeOK'
    BY <1>0, <1>3, <2>1, TransactionNames, Distinct DEF Inv, TypeOK, Submit
  <2>3. CallInv' /\ WindowInv' /\ DoneInv'
    BY <1>0, <2>1, BatchMoves, Distinct DEF Submit
  <2>4. LoopInv' /\ PaidInv'
    BY <1>0, <1>3, <2>1, TransactionNames DEF Inv, LoopInv, PaidInv, Executed, Submit
  <2> QED
    BY <2>2, <2>3, <2>4 DEF Inv
<1> QED
  BY <1>1, <1>2, <1>3 DEF Submit

\* Only a transaction that has been executed fulfills its batch.
LEMMA ConfirmedInv == ASSUME Inv, NEW b \in Batches, Confirmed(b) PROVE Inv'
<1> USE Constants
<1>0. /\ status[b] = "confirm" /\ status[b] \in InProgress
      /\ status \in [Batches -> {"waiting", "unreachable"} \cup InProgress \cup Settled]
  BY Distinct DEF Inv, TypeOK, Confirmed
<1>1. TypeOK'
  BY <1>0, Distinct DEF Inv, TypeOK, Confirmed
<1>2. CallInv' /\ WindowInv' /\ DoneInv'
  BY <1>0, BatchMoves, Distinct DEF Confirmed
<1>3. LoopInv' /\ PaidInv'
  BY <1>0 DEF Inv, LoopInv, PaidInv, Executed, Confirmed
<1> QED
  BY <1>1, <1>2, <1>3 DEF Inv

\* A confirmation that fails is given up.
LEMMA UnconfirmedInv == ASSUME Inv, NEW b \in Batches, Unconfirmed(b) PROVE Inv'
<1> USE Constants
<1>0. /\ attempt[b] \in 0..(MAX_RETRIES - 1)
      /\ status[b] = "confirm" /\ status[b] \in InProgress
      /\ status \in [Batches -> {"waiting", "unreachable"} \cup InProgress \cup Settled]
  BY Distinct DEF Inv, TypeOK, Unconfirmed
<1>1. PICK s \in {"rejected", "backoff"} :
            /\ status' = [status EXCEPT ![b] = s]
            /\ s = "backoff" => attempt[b] # MAX_RETRIES - 1
  BY Failed DEF Unconfirmed
<1>2. TypeOK'
  BY <1>0, <1>1, Distinct DEF Inv, TypeOK, Unconfirmed
<1>3. CallInv' /\ WindowInv' /\ DoneInv'
  BY <1>0, <1>1, BatchMoves, Distinct DEF Unconfirmed
<1>4. LoopInv' /\ PaidInv'
  BY <1>0, <1>1 DEF Inv, LoopInv, PaidInv, Executed, Unconfirmed
<1> QED
  BY <1>2, <1>3, <1>4 DEF Inv

\* After a backoff there is always an attempt left.
LEMMA RetryInv == ASSUME Inv, NEW b \in Batches, Retry(b) PROVE Inv'
<1> USE Constants
<1>0. /\ attempt \in [Batches -> 0..(MAX_RETRIES - 1)]
      /\ attempt[b] \in 0..(MAX_RETRIES - 1) /\ attempt[b] < MAX_RETRIES - 1
      /\ status[b] = "backoff" /\ status[b] \in InProgress
      /\ status \in [Batches -> {"waiting", "unreachable"} \cup InProgress \cup Settled]
  BY Distinct DEF Inv, TypeOK, LoopInv, Retry
<1>1. /\ attempt' = [attempt EXCEPT ![b] = attempt[b] + 1]
      /\ status' = [status EXCEPT ![b] = "build"]
  BY <1>0 DEF Retry
<1>2. TypeOK'
  BY <1>0, <1>1, Distinct DEF Inv, TypeOK, Retry
<1>3. CallInv' /\ WindowInv' /\ DoneInv'
  BY <1>0, <1>1, BatchMoves, Distinct DEF Retry
<1>4. LoopInv' /\ PaidInv'
  BY <1>0, <1>1 DEF Inv, LoopInv, PaidInv, Executed, Retry
<1> QED
  BY <1>2, <1>3, <1>4 DEF Inv

\* The network adds no transaction of its own.
LEMMA NetworkInv ==
    ASSUME Inv, NEW t \in Transactions, Land(t) \/ Expire(t)
    PROVE  Inv'
<1>1. TypeOK'
  BY DEF Inv, TypeOK, Land, Expire
<1>2. CallInv' /\ WindowInv' /\ DoneInv' /\ LoopInv'
  BY DEF Inv, CallInv, WindowInv, DoneInv, LoopInv, Land, Expire
<1>3. /\ Executed' \cup flying' \subseteq Executed \cup flying
      /\ Executed \subseteq Executed'
      /\ \A u \in flying' : u \in flying /\ (u \in Executed' => u \in Executed)
  BY DEF Land, Expire, Executed
<1>4. PaidInv'
  BY <1>3 DEF Inv, PaidInv, Land, Expire
<1> QED
  BY <1>1, <1>2, <1>4 DEF Inv

\* The invariant is inductive.
LEMMA StepInv == Inv /\ [Next]_vars => Inv'
<1> SUFFICES ASSUME Inv, [Next]_vars PROVE Inv'
  OBVIOUS
<1>1. CASE \E n \in Counts : Begin(n)
  BY <1>1, BeginInv
<1>2. CASE Request
  BY <1>2, CreatePoolInv, PrepareInv, NextWindowInv, AnswerInv DEF Request
<1>3. CASE \E b \in Batches : Send(b)
  BY <1>3, SubmitInv, ConfirmedInv, UnconfirmedInv, RetryInv DEF Send
<1>4. CASE \E t \in Transactions : Land(t) \/ Expire(t)
  BY <1>4, NetworkInv
<1>5. CASE UNCHANGED vars
  BY <1>5 DEF vars, Inv, TypeOK, CallInv, WindowInv, DoneInv, LoopInv, PaidInv,
                Executed
<1> QED
  BY <1>1, <1>2, <1>3, <1>4, <1>5 DEF Next

\* Every behaviour of the specification keeps the invariant.
THEOREM Invariance == Spec => []Inv
  BY InitInv, StepInv, PTL DEF Spec

-----------------------------------------------------------------------------
(* What follows from the invariant.                                         *)

\* Every variable keeps its type, for any numbers of recipients, windows and
\* attempts.
THEOREM TypeCorrect == Spec => []TypeOK
<1>1. Inv => TypeOK
  BY DEF Inv
<1> QED
  BY <1>1, Invariance, PTL

\* An airdrop that answers with signatures has had a transaction for every
\* recipient executed, well or with an error.
THEOREM EverybodyServed == Spec => []SuccessMeansExecuted
<1>1. Inv => SuccessMeansExecuted
  <2> SUFFICES ASSUME Inv, pc = "signatures", NEW r \in 1..count
               PROVE  \E t \in Executed : r \in RecipientsOf(count, t[1])
    BY DEF SuccessMeansExecuted
  <2>0. /\ count \in Nat /\ MAX_AIRDROP_RECIPIENTS \in Nat
        /\ count <= MAX_AIRDROP_RECIPIENTS
    BY ConstantsAssumption DEF Inv, TypeOK, CallInv
  <2>1. PICK b \in 0..(BatchCount(count) - 1) : r \in RecipientsOf(count, b)
    BY <2>0, EveryRecipientInABatch
  <2>2. b \in Batches /\ b < BatchCount(count)
    BY <2>0, BatchCountNat, BatchCountBounded DEF Batches
  <2>3. attempt[b] \in 0..(MAX_RETRIES - 1)
    BY <2>2 DEF Inv, TypeOK
  <2>4. <<b, attempt[b]>> \in Executed
    BY <2>2 DEF Inv, DoneInv, PaidInv
  <2> QED
    BY <2>1, <2>2, <2>3, <2>4, TransactionNames
<1> QED
  BY <1>1, Invariance, PTL

\* No recipient is paid by the transactions of two batches.
THEOREM BatchesPayApart == Spec => []PaidByOneBatch
<1>1. Inv => PaidByOneBatch
  <2> SUFFICES ASSUME Inv, NEW t \in landed, NEW u \in landed, t[1] # u[1]
               PROVE  RecipientsOf(count, t[1]) \cap RecipientsOf(count, u[1]) = {}
    BY DEF PaidByOneBatch
  <2>1. count \in Nat /\ t \in Transactions /\ u \in Transactions
    BY DEF Inv, TypeOK
  <2>2. t[1] \in Nat /\ u[1] \in Nat
    BY <2>1, TransactionBatch, Constants
  <2> QED
    BY <2>1, <2>2, BatchesDisjoint
<1> QED
  BY <1>1, Invariance, PTL

\* The answer for a batch is exact unless its sender has left a transaction
\* behind: fulfilled, one transaction of it has been executed and the network has
\* taken no other; rejected, the network has taken none.
THEOREM AnswersCertain == Spec => []PaymentsCertain
<1>1. Inv => PaymentsCertain
  <2> SUFFICES ASSUME Inv, NEW b \in Batches \ givenUp
               PROVE  LET taken == {t \in Executed \cup flying : t[1] = b} IN
                      /\ status[b] = "fulfilled" =>
                            Cardinality(taken) = 1 /\ taken \subseteq Executed
                      /\ status[b] = "rejected" => taken = {}
    BY DEF PaymentsCertain
  <2> DEFINE taken == {t \in Executed \cup flying : t[1] = b}
  <2>1. \A t \in taken : status[b] \in {"confirm", "fulfilled"} /\ t = <<b, attempt[b]>>
    BY DEF Inv, PaidInv
  <2>2. ASSUME status[b] = "fulfilled"
        PROVE  Cardinality(taken) = 1 /\ taken \subseteq Executed
    <3>1. attempt[b] \in 0..(MAX_RETRIES - 1)
      BY DEF Inv, TypeOK
    <3>2. <<b, attempt[b]>> \in taken /\ <<b, attempt[b]>> \in Executed
      BY <2>2, <3>1, TransactionNames DEF Inv, PaidInv
    <3>3. taken = {<<b, attempt[b]>>}
      BY <2>1, <3>2
    <3> HIDE DEF taken
    <3> QED
      BY <3>2, <3>3, FS_Singleton
  <2>3. status[b] = "rejected" => taken = {}
    BY <2>1
  <2> QED
    BY <2>2, <2>3
<1> QED
  BY <1>1, Invariance, PTL

\* The throw behind the loop of attempts is never reached.
THEOREM LoopNeverLeft == Spec => []UnreachableNotReached
<1>1. Inv => UnreachableNotReached
  BY DEF Inv, LoopInv, UnreachableNotReached
<1> QED
  BY <1>1, Invariance, PTL

\* A transaction on its way whose batch has left none behind is the one its batch
\* is waiting for.
LEMMA WaitedFor ==
    ASSUME Inv, NEW t \in flying, t[1] \notin givenUp
    PROVE  t[1] \in Batches /\ status[t[1]] = "confirm" /\ t = <<t[1], attempt[t[1]]>>
<1>1. t[1] \in Batches
  BY TransactionBatch DEF Inv, TypeOK
<1>2. /\ status[t[1]] \in {"confirm", "fulfilled"}
      /\ t = <<t[1], attempt[t[1]]>>
      /\ t \notin Executed
  BY <1>1 DEF Inv, PaidInv
<1>3. status[t[1]] # "fulfilled"
  BY <1>1, <1>2 DEF Inv, PaidInv
<1> QED
  BY <1>1, <1>2, <1>3

\* The number of batches in progress is bounded, and with it the number of
\* transactions on their way that have not been left behind.
THEOREM WindowBounded == Spec => []AtMostConcurrent
<1>1. Inv => AtMostConcurrent
  <2> SUFFICES ASSUME Inv PROVE AtMostConcurrent
    OBVIOUS
  <2> DEFINE busy == {b \in Batches : status[b] \in InProgress}
  <2> DEFINE sent == {t \in flying : t[1] \notin givenUp}
  <2> DEFINE inside == window..(window + MAX_CONCURRENT_TXS - 1)
  <2>1. window \in Nat /\ MAX_CONCURRENT_TXS \in Nat \ {0}
    BY Constants DEF Inv, TypeOK
  <2>2. busy \subseteq inside
    <3>1. \A b \in busy : b \in Nat /\ window <= b /\ b < window + MAX_CONCURRENT_TXS
      BY Constants DEF Inv, WindowInv
    <3> HIDE DEF busy
    <3> QED
      BY <2>1, <3>1
  <2>3. IsFiniteSet(inside) /\ Cardinality(inside) = MAX_CONCURRENT_TXS
    BY <2>1, FS_Interval
  <2>4. IsFiniteSet(busy) /\ Cardinality(busy) <= MAX_CONCURRENT_TXS
    BY <2>2, <2>3, FS_Subset
  <2>5. sent \subseteq {<<b, attempt[b]>> : b \in busy}
    <3> SUFFICES ASSUME NEW t \in sent PROVE \E b \in busy : t = <<b, attempt[b]>>
      OBVIOUS
    <3>1. t[1] \in Batches /\ status[t[1]] = "confirm" /\ t = <<t[1], attempt[t[1]]>>
      BY WaitedFor
    <3> QED
      BY <3>1, Distinct
  <2>6. Cardinality(sent) <= MAX_CONCURRENT_TXS
    <3> DEFINE image == {<<b, attempt[b]>> : b \in busy}
    <3>1. IsFiniteSet(image) /\ Cardinality(image) <= Cardinality(busy)
      <4> DEFINE name == [b \in busy |-> <<b, attempt[b]>>]
      <4>1. name \in Surjection(busy, image)
        <5>1. name \in [busy -> image]
          OBVIOUS
        <5>2. \A t \in image : \E b \in busy : name[b] = t
          OBVIOUS
        <5> QED
          BY <5>1, <5>2 DEF Surjection
      <4> QED
        BY <2>4, <4>1, FS_Surjection
    <3>2. IsFiniteSet(sent) /\ Cardinality(sent) <= Cardinality(image)
      BY <2>5, <3>1, FS_Subset
    <3>3. /\ Cardinality(sent) \in Nat /\ Cardinality(image) \in Nat
          /\ Cardinality(busy) \in Nat
      BY <2>4, <3>1, <3>2, FS_CardinalityType
    <3> HIDE DEF sent, image, busy
    <3> QED
      BY <2>1, <2>4, <3>1, <3>2, <3>3
  <2> QED
    BY <2>4, <2>6 DEF AtMostConcurrent
<1> QED
  BY <1>1, Invariance, PTL

\* Nothing is given to the network after the call has been answered.
THEOREM QuietAfterAnswer == Spec => NothingSentAfterAnswer
<1>1. Inv /\ [Next]_vars => [(pc \in Answers) => (flying' \subseteq flying)]_vars
  <2> SUFFICES ASSUME Inv, Next, pc \in Answers PROVE flying' \subseteq flying
    OBVIOUS
  <2>1. CASE \E n \in Counts : Begin(n)
    BY <2>1 DEF Begin, batchVars
  <2>2. CASE Request
    BY <2>2 DEF Request, CreatePool, Prepare, NextWindow, Answer, batchVars
  <2>3. CASE \E b \in Batches : Send(b)
    <3> PICK b \in Batches : Send(b)
      BY <2>3
    <3>1. status[b] # "build"
      BY Distinct DEF Inv, CallInv
    <3> QED
      BY <3>1 DEF Send, Submit, Confirmed, Unconfirmed, Retry
  <2>4. CASE \E t \in Transactions : Land(t) \/ Expire(t)
    BY <2>4 DEF Land, Expire
  <2> QED
    BY <2>1, <2>2, <2>3, <2>4 DEF Next
<1> QED
  BY <1>1, Invariance, PTL DEF Spec, NothingSentAfterAnswer
=============================================================================
