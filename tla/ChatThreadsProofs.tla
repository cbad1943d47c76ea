-------------------------- MODULE ChatThreadsProofs --------------------------
(* Theorems about ChatThreads, for any number of requests and faults.       *)
EXTENDS ChatThreads, TLAPS

USE DEF Labels, Over, Replies, Goto, End

LEMMA MessageType ==
    \A r \in Reqs : <<r, "user">> \in Messages /\ <<r, "assistant">> \in Messages
BY DEF Messages, Roles

LEMMA HistoryType ==
    ASSUME log \in Histories, NEW c \in Reqs, NEW m \in Messages
    PROVE  [log EXCEPT ![c] = Append(@, m)] \in Histories
BY DEF Histories

-----------------------------------------------------------------------------
(* Type correctness.                                                        *)

LEMMA TypeInit == Init => TypeOK
BY ConstantsAssumption DEF Init, TypeOK, Histories

LEMMA TypeNext == TypeOK /\ [Next]_vars => TypeOK'
<1> SUFFICES ASSUME TypeOK, [Next]_vars PROVE TypeOK'
  OBVIOUS
<1> USE ConstantsAssumption DEF TypeOK, docVars
<1>1. ASSUME NEW r \in Reqs, Begin(r) PROVE TypeOK'
  <2>1. /\ thread' = thread /\ content' = content /\ gone' = gone /\ faults' = faults
        /\ counter' = counter /\ threadOf' = threadOf /\ last' = last /\ log' = log
        /\ reply' = [reply EXCEPT ![r] = "open"]
        /\ overlapped' \subseteq Reqs
    BY <1>1 DEF Begin
  <2>2. CASE /\ \E o \in {"create", "stream"} : op' = [op EXCEPT ![r] = o]
             /\ pc' = [pc EXCEPT ![r] = "findThread"]
             /\ UNCHANGED <<conv, asked>>
    <3>1. PICK o \in {"create", "stream"} : op' = [op EXCEPT ![r] = o]
      BY <2>2
    <3> QED BY <2>1, <2>2, <3>1
  <2>3. CASE /\ op' = [op EXCEPT ![r] = "stream"]
             /\ pc' = [pc EXCEPT ![r] = "touchQuestion"]
             /\ \E c \in Reqs, n \in Named : /\ conv' = [conv EXCEPT ![r] = c]
                                           /\ asked' = [asked EXCEPT ![r] = n]
    <3>1. PICK c \in Reqs, n \in Named : /\ conv' = [conv EXCEPT ![r] = c]
                                         /\ asked' = [asked EXCEPT ![r] = n]
      BY <2>3
    <3> QED BY <2>1, <2>3, <3>1
  <2>4. CASE /\ op' = [op EXCEPT ![r] = "stream"]
             /\ pc' = [pc EXCEPT ![r] = "touchQuestion"]
             /\ UNCHANGED <<conv, asked>>
    BY <2>1, <2>4
  <2> QED BY <1>1, <2>2, <2>3, <2>4 DEF Begin
<1>2. ASSUME NEW r \in Reqs, FindThread(r) PROVE TypeOK'
  BY <1>2 DEF FindThread
<1>3. ASSUME NEW r \in Reqs, FirstThread(r) PROVE TypeOK'
  BY <1>3 DEF FirstThread
<1>4. ASSUME NEW r \in Reqs, NextThread(r) PROVE TypeOK'
  BY <1>4 DEF NextThread
<1>5. ASSUME NEW r \in Reqs, SaveConversation(r) PROVE TypeOK'
  <2>1. CASE Taken(thread[r])
    BY <1>5, <2>1 DEF SaveConversation
  <2>2. CASE ~Taken(thread[r]) /\ op[r] = "create"
    BY <1>5, <2>2 DEF SaveConversation
  <2>3. CASE ~Taken(thread[r]) /\ op[r] # "create"
    BY <1>5, <2>3 DEF SaveConversation
  <2> QED BY <2>1, <2>2, <2>3
<1>6. ASSUME NEW r \in Reqs, TouchQuestion(r) PROVE TypeOK'
  <2>1. CASE conv[r] # None /\ SetLast(r, "user") /\ pc' = [pc EXCEPT ![r] = "saveQuestion"]
             /\ UNCHANGED reply
    BY <1>6, <2>1, MessageType DEF TouchQuestion, SetLast
  <2>2. CASE UNCHANGED last
    BY <1>6, <2>2 DEF TouchQuestion
  <2> QED BY <1>6, <2>1, <2>2 DEF TouchQuestion
<1>7. ASSUME NEW r \in Reqs, SaveQuestion(r) PROVE TypeOK'
  <2>1. CASE Store(r, "user") /\ pc' = [pc EXCEPT ![r] = "stream"] /\ UNCHANGED reply
    BY <1>7, <2>1, MessageType, HistoryType DEF SaveQuestion, Store
  <2>2. CASE /\ pc' = [pc EXCEPT ![r] = "done"]
             /\ reply' = [reply EXCEPT ![r] = "error"]
             /\ UNCHANGED log
    BY <1>7, <2>2 DEF SaveQuestion
  <2> QED BY <1>7, <2>1, <2>2 DEF SaveQuestion
<1>8. ASSUME NEW r \in Reqs, TouchAnswer(r) PROVE TypeOK'
  BY <1>8, MessageType DEF TouchAnswer, SetLast
<1>9. ASSUME NEW r \in Reqs, SaveAnswer(r) PROVE TypeOK'
  BY <1>9, MessageType, HistoryType DEF SaveAnswer, Store
<1>10. ASSUME NEW r \in Reqs, Relay(r) PROVE TypeOK'
  BY <1>10 DEF Relay
<1>11. ASSUME NEW r \in Reqs, Complete(r) PROVE TypeOK'
  BY <1>11 DEF Complete
<1>12. ASSUME NEW r \in Reqs, CompleteEmpty(r) PROVE TypeOK'
  BY <1>12 DEF CompleteEmpty
<1>13. ASSUME NEW r \in Reqs, Break(r) PROVE TypeOK'
  BY <1>13 DEF Break
<1>14. ASSUME NEW r \in Reqs, Leave(r) PROVE TypeOK'
  BY <1>14 DEF Leave
<1>15. ASSUME NEW r \in Reqs, Fault(r) PROVE TypeOK'
  <2>1. CASE pc[r] \in {"touchAnswer", "saveAnswer"}
    BY <1>15, <2>1 DEF Fault, Strikes, Die
  <2>2. CASE pc[r] \notin {"touchAnswer", "saveAnswer"}
    BY <1>15, <2>2 DEF Fault, Strikes
  <2> QED BY <2>1, <2>2
<1>16. ASSUME Crash PROVE TypeOK'
  BY <1>16 DEF Crash, Strikes, Die
<1>17. CASE UNCHANGED vars
  BY <1>17 DEF vars, reqVars
<1> QED
  BY <1>1, <1>2, <1>3, <1>4, <1>5, <1>6, <1>7, <1>8, <1>9, <1>10, <1>11,
     <1>12, <1>13, <1>14, <1>15, <1>16, <1>17 DEF Next, Step, StreamEnds

\* Every variable keeps its type; in particular a request that writes a message
\* has a conversation to write it to.
THEOREM TypeCorrect == Spec => []TypeOK
BY TypeInit, TypeNext, PTL DEF Spec

-----------------------------------------------------------------------------
(* The numbers of the threads: none is ahead of the counter, a conversation   *)
(* has the one its request was given, and a turn that has created its         *)
(* conversation asks on that one.                                             *)

\* The phases before a turn has a conversation.
Creating == {"new", "findThread", "firstThread", "nextThread", "saveConversation"}

NumbersInv ==
    /\ \A r \in Reqs : thread[r] <= counter
    /\ \A r, s \in Reqs : r # s /\ thread[r] = thread[s] => thread[r] = 0
    /\ \A r \in Reqs : threadOf[r] \in {0, thread[r]}
    /\ \A r \in Reqs : pc[r] \in Creating => asked[r] = 0 /\ threadOf[r] = 0
    /\ \A r \in Reqs : conv[r] = None => asked[r] = 0
    /\ \A r \in Reqs : conv[r] = r => asked[r] \in {0, threadOf[r]}

\* Every step keeps it.
LEMMA NumbersNext == TypeOK /\ NumbersInv /\ [Next]_vars => NumbersInv'
<1> SUFFICES ASSUME TypeOK, NumbersInv, [Next]_vars PROVE NumbersInv'
  OBVIOUS
<1> USE ConstantsAssumption DEF TypeOK, NumbersInv, Creating
<1>1. ASSUME NEW r \in Reqs, FirstThread(r) PROVE NumbersInv'
  BY <1>1 DEF FirstThread
<1>2. ASSUME NEW r \in Reqs, NextThread(r) PROVE NumbersInv'
  BY <1>2 DEF NextThread
<1>3. ASSUME NEW r \in Reqs, SaveConversation(r) PROVE NumbersInv'
  <2>1. CASE Taken(thread[r])
    BY <1>3, <2>1 DEF SaveConversation
  <2>2. CASE ~Taken(thread[r]) /\ op[r] = "create"
    BY <1>3, <2>2 DEF SaveConversation
  <2>3. CASE ~Taken(thread[r]) /\ op[r] # "create"
    BY <1>3, <2>3 DEF SaveConversation
  <2> QED BY <2>1, <2>2, <2>3
<1>4. ASSUME NEW r \in Reqs, Begin(r) PROVE NumbersInv'
  <2>1. /\ pc[r] = "new" /\ UNCHANGED <<thread, counter, threadOf>>
        /\ \A s \in Reqs \ {r} : UNCHANGED <<pc[s], conv[s], asked[s]>>
    BY <1>4 DEF Begin, docVars
  <2>2. \/ UNCHANGED <<conv, asked>>
        \/ /\ pc'[r] = "touchQuestion"
           /\ conv'[r] \in Reqs /\ threadOf[conv'[r]] # 0
    BY <1>4 DEF Begin
  <2> QED BY <2>1, <2>2
<1>5. CASE /\ UNCHANGED <<thread, counter, threadOf, conv, asked>>
           /\ \A r \in Reqs : pc'[r] \in Creating => pc[r] \in Creating
  BY <1>5
<1>6. ASSUME NEW r \in Reqs, FindThread(r) PROVE NumbersInv'
  BY <1>6, <1>5 DEF FindThread, docVars
<1>7. ASSUME NEW r \in Reqs, TouchQuestion(r) \/ SaveQuestion(r) \/ TouchAnswer(r) \/ SaveAnswer(r)
      PROVE  NumbersInv'
  BY <1>7, <1>5 DEF TouchQuestion, SaveQuestion, TouchAnswer, SaveAnswer
<1>8. ASSUME NEW r \in Reqs, Relay(r) \/ StreamEnds(r) \/ Leave(r) PROVE NumbersInv'
  BY <1>8, <1>5 DEF Relay, StreamEnds, Complete, CompleteEmpty, Break, Leave, docVars
<1>9. ASSUME NEW r \in Reqs, Fault(r) PROVE NumbersInv'
  BY <1>9, <1>5 DEF Fault, Die, docVars
<1>10. ASSUME Crash PROVE NumbersInv'
  BY <1>10, <1>5 DEF Crash, Die, docVars
<1>11. CASE UNCHANGED vars
  BY <1>11, <1>5 DEF vars, reqVars, docVars
<1> QED
  BY <1>1, <1>2, <1>3, <1>4, <1>6, <1>7, <1>8, <1>9, <1>10, <1>11 DEF Next, Step

\* No thread number is given out twice, and turns of two conversations ask the
\* agent on one thread only when a caller has named one that is not his
\* conversation's.
THEOREM NumbersGivenOnce == Spec => []ThreadsDistinct
<1>1. Init => NumbersInv
  BY ConstantsAssumption DEF Init, NumbersInv, Creating
<1>2. TypeOK /\ NumbersInv => ThreadsDistinct
  <2> SUFFICES ASSUME TypeOK, NumbersInv, NEW r \in Reqs, NEW s \in Reqs,
                      conv[r] # conv[s], asked[r] = asked[s], asked[r] # 0
               PROVE  \E q \in {r, s} : conv[q] # q /\ asked[q] # threadOf[conv[q]]
    BY DEF NumbersInv, ThreadsDistinct
  <2>1. conv[r] \in Reqs /\ conv[s] \in Reqs
    BY DEF TypeOK, NumbersInv
  <2>2. ASSUME NEW q \in {r, s}, conv[q] = q \/ asked[q] = threadOf[conv[q]]
        PROVE  asked[q] = thread[conv[q]]
    BY <2>1, <2>2 DEF NumbersInv
  <2>3. ~(asked[r] = thread[conv[r]] /\ asked[s] = thread[conv[s]])
    BY <2>1 DEF NumbersInv
  <2> QED BY <2>2, <2>3
<1> QED
  BY <1>1, <1>2, NumbersNext, TypeCorrect, PTL DEF Spec

-----------------------------------------------------------------------------
(* The histories.                                                           *)

\* Appending m to the history of c adds m to what is stored there.
LEMMA StoreAdds ==
    ASSUME log \in Histories, NEW c \in Reqs, NEW m \in Messages,
           log' = [log EXCEPT ![c] = Append(@, m)],
           NEW d \in Reqs
    PROVE  Stored(d)' = IF d = c THEN Stored(d) \cup {m} ELSE Stored(d)
<1>1. CASE d = c
  <2>1. log[c] \in Seq(Messages) /\ log'[c] = Append(log[c], m)
    BY DEF Histories
  <2>2. DOMAIN log'[c] = 1..(Len(log[c]) + 1) /\ DOMAIN log[c] = 1..Len(log[c])
    BY <2>1
  <2>3. \A i \in 1..Len(log[c]) : log'[c][i] = log[c][i]
    BY <2>1
  <2>4. log'[c][Len(log[c]) + 1] = m /\ Len(log[c]) \in Nat
    BY <2>1
  <2> QED BY <1>1, <2>2, <2>3, <2>4 DEF Stored
<1>2. CASE d # c
  BY <1>2 DEF Stored, Histories
<1> QED BY <1>1, <1>2

\* A message that is not there yet, and does not answer a question that is not
\* there, may be appended.
LEMMA StoreInOrder ==
    ASSUME log \in Histories, AnswersFollowQuestions,
           NEW c \in Reqs, NEW r \in Reqs, NEW role \in Roles,
           log' = [log EXCEPT ![c] = Append(@, <<r, role>>)],
           <<r, role>> \notin Stored(c),
           role = "assistant" => <<r, "user">> \in Stored(c)
    PROVE  AnswersFollowQuestions'
<1> DEFINE n == Len(log[c])
           Good(h) == \A i \in DOMAIN h :
              /\ \A j \in DOMAIN h : h[i] = h[j] => i = j
              /\ h[i][2] = "assistant" => \E j \in 1..(i - 1) : h[j] = <<h[i][1], "user">>
<1>1. \A d \in Reqs : Good(log[d])
  BY DEF AnswersFollowQuestions
<1>2. \A d \in Reqs \ {c} : log'[d] = log[d]
  BY DEF Histories
<1>3. log'[c] = Append(log[c], <<r, role>>) /\ log[c] \in Seq(Messages)
  BY DEF Histories
<1>4. n \in Nat /\ DOMAIN log[c] = 1..n /\ DOMAIN log'[c] = 1..(n + 1)
  BY <1>3
<1>5. /\ \A i \in 1..n : log'[c][i] = log[c][i]
      /\ log'[c][n + 1] = <<r, role>>
  BY <1>3
<1>6. \A i \in 1..n : log[c][i] # <<r, role>>
  BY <1>4 DEF Stored
<1>7. role = "assistant" => \E j \in 1..n : log[c][j] = <<r, "user">>
  BY <1>4 DEF Stored
<1> HIDE DEF n
<1>8. ASSUME NEW i \in 1..(n + 1), NEW j \in 1..(n + 1), log'[c][i] = log'[c][j]
      PROVE  i = j
  <2>1. CASE i \in 1..n /\ j \in 1..n
    BY <1>1, <1>4, <1>5, <1>8, <2>1
  <2>2. CASE i = n + 1 /\ j \in 1..n
    BY <1>5, <1>6, <1>8, <2>2
  <2>3. CASE i \in 1..n /\ j = n + 1
    BY <1>5, <1>6, <1>8, <2>3
  <2> QED BY <1>4, <2>1, <2>2, <2>3
<1>9. ASSUME NEW i \in 1..(n + 1), log'[c][i][2] = "assistant"
      PROVE  \E j \in 1..(i - 1) : log'[c][j] = <<log'[c][i][1], "user">>
  <2>1. CASE i \in 1..n
    <3>1. PICK j \in 1..(i - 1) : log[c][j] = <<log[c][i][1], "user">>
      BY <1>1, <1>4, <1>5, <1>9, <2>1
    <3>2. j \in 1..n
      BY <1>4, <2>1
    <3> QED BY <1>5, <2>1, <3>1, <3>2
  <2>2. CASE i = n + 1
    <3>0. log'[c][i] = <<r, role>> /\ <<r, role>>[1] = r /\ <<r, role>>[2] = role
      BY <1>5, <2>2
    <3>1. role = "assistant" /\ log'[c][i][1] = r
      BY <1>9, <3>0
    <3>2. PICK j \in 1..n : log[c][j] = <<r, "user">>
      BY <1>7, <3>1
    <3>3. j \in 1..(i - 1)
      BY <1>4, <2>2
    <3> QED BY <1>5, <3>1, <3>2, <3>3
  <2>3. i \in 1..n \/ i = n + 1
    BY <1>4
  <2> QED BY <2>1, <2>2, <2>3
<1>10. Good(log'[c])
  BY <1>4, <1>8, <1>9
<1> HIDE DEF Good
<1>11. \A d \in Reqs : Good(log'[d])
  BY <1>1, <1>2, <1>10
<1> QED BY <1>11 DEF AnswersFollowQuestions, Good

\* A request before its question is stored has no message anywhere; from then
\* until its answer is stored it has the question, in its conversation, and no
\* answer.
Before == {"new", "findThread", "firstThread", "nextThread", "saveConversation",
           "touchQuestion", "saveQuestion"}

Asking == {"stream", "silent", "touchAnswer", "saveAnswer"}

NothingYet(r) == \A c \in Reqs : \A role \in Roles : <<r, role>> \notin Stored(c)

OnlyAsked(r) ==
    /\ conv[r] \in Reqs
    /\ <<r, "user">> \in Stored(conv[r])
    /\ \A c \in Reqs : <<r, "assistant">> \notin Stored(c)

Progress ==
    \A r \in Reqs : /\ pc[r] \in Before => NothingYet(r)
                    /\ pc[r] \in Asking => OnlyAsked(r)

HistoryInv == AnswersFollowQuestions /\ Progress

\* Steps that store nothing and move no request into another phase.
LEMMA HistoryKept ==
    ASSUME HistoryInv, log' = log,
           \A r \in Reqs :
              /\ pc'[r] \in Before => pc[r] \in Before
              /\ pc'[r] \in Asking => pc[r] \in Asking /\ conv'[r] = conv[r]
    PROVE  HistoryInv'
<1>1. AnswersFollowQuestions'
  BY DEF HistoryInv, AnswersFollowQuestions
<1>2. \A c \in Reqs : Stored(c)' = Stored(c)
  BY DEF Stored
<1>3. Progress'
  BY <1>2 DEF HistoryInv, Progress, NothingYet, OnlyAsked
<1> QED BY <1>1, <1>3 DEF HistoryInv

LEMMA HistoryNext == TypeOK /\ HistoryInv /\ [Next]_vars => HistoryInv'
<1> SUFFICES ASSUME TypeOK, HistoryInv, [Next]_vars PROVE HistoryInv'
  OBVIOUS
<1> USE DEF TypeOK, Before, Asking
<1>1. ASSUME NEW r \in Reqs, SaveQuestion(r) PROVE HistoryInv'
  <2>1. CASE /\ pc' = [pc EXCEPT ![r] = "done"]
             /\ UNCHANGED log
    BY <1>1, <2>1, HistoryKept DEF SaveQuestion
  <2>2. CASE Store(r, "user") /\ pc' = [pc EXCEPT ![r] = "stream"]
    <3> DEFINE c == conv[r]
    <3>1. c \in Reqs /\ conv' = conv /\ <<r, "user">> \in Messages
      BY <1>1, MessageType DEF SaveQuestion
    <3>2. log' = [log EXCEPT ![c] = Append(@, <<r, "user">>)]
      BY <2>2 DEF Store
    <3>3. NothingYet(r)
      BY <1>1 DEF SaveQuestion, HistoryInv, Progress
    <3>4. \A d \in Reqs :
            Stored(d)' = IF d = c THEN Stored(d) \cup {<<r, "user">>} ELSE Stored(d)
      BY <3>1, <3>2, StoreAdds
    <3> HIDE DEF c
    <3>5. AnswersFollowQuestions'
      <4>1. <<r, "user">> \notin Stored(c)
        BY <3>1, <3>3 DEF NothingYet, Roles
      <4> QED BY <3>1, <3>2, <4>1, StoreInOrder DEF HistoryInv, Roles
    <3>6. ASSUME NEW s \in Reqs PROVE /\ pc'[s] \in Before => NothingYet(s)'
                                      /\ pc'[s] \in Asking => OnlyAsked(s)'
      <4>1. CASE s = r
        <5>1. OnlyAsked(r)'
          BY <3>1, <3>3, <3>4 DEF NothingYet, OnlyAsked, Roles, c
        <5> QED BY <2>2, <4>1, <5>1
      <4>2. CASE s # r
        <5>1. pc'[s] = pc[s] /\ conv'[s] = conv[s]
          BY <2>2, <3>1, <4>2
        <5>2. \A d \in Reqs : \A role \in Roles :
                 <<s, role>> \in Stored(d)' <=> <<s, role>> \in Stored(d)
          BY <3>4, <4>2
        <5> QED BY <5>1, <5>2 DEF HistoryInv, Progress, NothingYet, OnlyAsked, Roles
      <4> QED BY <4>1, <4>2
    <3> QED BY <3>5, <3>6 DEF HistoryInv, Progress
  <2> QED BY <1>1, <2>1, <2>2 DEF SaveQuestion
<1>2. ASSUME NEW r \in Reqs, SaveAnswer(r) PROVE HistoryInv'
  <2> DEFINE c == conv[r]
  <2>1. /\ c \in Reqs /\ conv' = conv /\ <<r, "assistant">> \in Messages
        /\ pc' = [pc EXCEPT ![r] = "done"]
    BY <1>2, MessageType DEF SaveAnswer
  <2>2. log' = [log EXCEPT ![c] = Append(@, <<r, "assistant">>)]
    BY <1>2 DEF SaveAnswer, Store
  <2>3. OnlyAsked(r)
    BY <1>2 DEF SaveAnswer, HistoryInv, Progress
  <2>4. \A d \in Reqs :
          Stored(d)' = IF d = c THEN Stored(d) \cup {<<r, "assistant">>} ELSE Stored(d)
    BY <2>1, <2>2, StoreAdds
  <2>5. <<r, "user">> \in Stored(c) /\ <<r, "assistant">> \notin Stored(c)
    BY <2>1, <2>3 DEF OnlyAsked
  <2> HIDE DEF c
  <2>6. AnswersFollowQuestions'
    BY <2>1, <2>2, <2>5, StoreInOrder DEF HistoryInv, Roles
  <2>7. ASSUME NEW s \in Reqs PROVE /\ pc'[s] \in Before => NothingYet(s)'
                                    /\ pc'[s] \in Asking => OnlyAsked(s)'
    <3>1. CASE s = r
      BY <2>1, <3>1
    <3>2. CASE s # r
      <4>1. pc'[s] = pc[s] /\ conv'[s] = conv[s]
        BY <2>1, <3>2
      <4>2. \A d \in Reqs : \A role \in Roles :
               <<s, role>> \in Stored(d)' <=> <<s, role>> \in Stored(d)
        BY <2>4, <3>2
      <4> QED BY <4>1, <4>2 DEF HistoryInv, Progress, NothingYet, OnlyAsked, Roles
    <3> QED BY <3>1, <3>2
  <2> QED BY <2>6, <2>7 DEF HistoryInv, Progress
<1>3. ASSUME NEW r \in Reqs, Begin(r) PROVE HistoryInv'
  BY <1>3, HistoryKept DEF Begin, docVars
<1>4. ASSUME NEW r \in Reqs, FindThread(r) \/ FirstThread(r) \/ NextThread(r) PROVE HistoryInv'
  BY <1>4, HistoryKept DEF FindThread, FirstThread, NextThread, docVars
<1>5. ASSUME NEW r \in Reqs, SaveConversation(r) PROVE HistoryInv'
  BY <1>5, HistoryKept DEF SaveConversation
<1>6. ASSUME NEW r \in Reqs, TouchQuestion(r) \/ TouchAnswer(r) PROVE HistoryInv'
  BY <1>6, HistoryKept DEF TouchQuestion, TouchAnswer
<1>7. ASSUME NEW r \in Reqs, Relay(r) \/ Leave(r) PROVE HistoryInv'
  BY <1>7, HistoryKept DEF Relay, Leave, docVars
<1>8. ASSUME NEW r \in Reqs, StreamEnds(r) PROVE HistoryInv'
  BY <1>8, HistoryKept DEF StreamEnds, Complete, CompleteEmpty, Break, docVars
<1>9. ASSUME NEW r \in Reqs, Fault(r) PROVE HistoryInv'
  BY <1>9, HistoryKept DEF Fault, Die, docVars
<1>10. ASSUME Crash PROVE HistoryInv'
  BY <1>10, HistoryKept DEF Crash, Die, docVars
<1>11. CASE UNCHANGED vars
  BY <1>11, HistoryKept DEF vars, reqVars, docVars
<1> QED
  BY <1>1, <1>2, <1>3, <1>4, <1>5, <1>6, <1>7, <1>8, <1>9, <1>10, <1>11
     DEF Next, Step

LEMMA HistoryInit == Init => HistoryInv
<1> SUFFICES ASSUME Init PROVE HistoryInv
  OBVIOUS
<1>1. \A c \in Reqs : log[c] = << >> /\ DOMAIN log[c] = {}
  BY DEF Init
<1>2. \A c \in Reqs : Stored(c) = {}
  BY <1>1 DEF Stored
<1>3. AnswersFollowQuestions
  BY <1>1 DEF AnswersFollowQuestions
<1>4. \A r \in Reqs : pc[r] = "new"
  BY DEF Init
<1> QED BY <1>2, <1>3, <1>4 DEF HistoryInv, Progress, NothingYet, Before, Asking

\* Answers stand behind their questions, in one conversation, and nothing is
\* there twice.
THEOREM HistoriesInOrder == Spec => []AnswersFollowQuestions
<1>1. HistoryInv => AnswersFollowQuestions
  BY DEF HistoryInv
<1> QED BY <1>1, HistoryInit, HistoryNext, TypeCorrect, PTL DEF Spec

-----------------------------------------------------------------------------
(* lastMessage.                                                             *)

\* The phases of a request that has written lastMessage, for its question and
\* for its answer.
Touched == {"saveQuestion", "stream", "silent", "touchAnswer", "saveAnswer", "done", "dead"}

Answering == {"saveAnswer", "done", "dead"}

Excused(r) == pc[r] = "dead" \/ (pc[r] = "done" /\ reply[r] = "error")

LastQuestion(c, r) ==
    last[c] = <<r, "user">> =>
        /\ conv[r] = c
        /\ pc[r] \in Touched
        /\ <<r, "user">> \in Stored(c) \/ pc[r] = "saveQuestion" \/ Excused(r)

LastAnswer(c, r) ==
    last[c] = <<r, "assistant">> =>
        /\ conv[r] = c
        /\ pc[r] \in Answering
        /\ <<r, "assistant">> \in Stored(c) \/ pc[r] = "saveAnswer" \/ pc[r] = "dead"

LastInv == \A c, r \in Reqs : LastQuestion(c, r) /\ LastAnswer(c, r)

\* What a step may do to a request without touching lastMessage.
Moves(r) ==
    /\ pc[r] \in Touched => conv'[r] = conv[r] /\ pc'[r] \in Touched
    /\ pc[r] \in Answering => pc'[r] \in Answering
    /\ pc[r] = "saveQuestion" =>
         pc'[r] = "saveQuestion" \/ Excused(r)' \/ <<r, "user">> \in Stored(conv[r])'
    /\ pc[r] = "saveAnswer" =>
         pc'[r] \in {"saveAnswer", "dead"} \/ <<r, "assistant">> \in Stored(conv[r])'
    /\ pc[r] = "dead" => pc'[r] = "dead"
    /\ Excused(r) => Excused(r)'

\* Nothing is ever taken out of a history.
LEMMA StoredGrows ==
    ASSUME TypeOK, [Next]_vars, NEW c \in Reqs
    PROVE  Stored(c) \subseteq Stored(c)'
<1>1. CASE log' = log
  BY <1>1 DEF Stored
<1>2. ASSUME NEW r \in Reqs, NEW role \in {"user", "assistant"}, conv[r] \in Reqs, Store(r, role)
      PROVE  Stored(c) \subseteq Stored(c)'
  <2>1. <<r, role>> \in Messages /\ log \in Histories
    BY <1>2, MessageType DEF TypeOK
  <2>2. Stored(c)' = IF c = conv[r] THEN Stored(c) \cup {<<r, role>>} ELSE Stored(c)
    BY <1>2, <2>1, StoreAdds DEF Store
  <2> QED BY <2>2
<1>3. ASSUME NEW r \in Reqs, SaveQuestion(r) PROVE Stored(c) \subseteq Stored(c)'
  BY <1>1, <1>2, <1>3 DEF SaveQuestion, TypeOK
<1>4. ASSUME NEW r \in Reqs, SaveAnswer(r) PROVE Stored(c) \subseteq Stored(c)'
  BY <1>2, <1>4 DEF SaveAnswer, TypeOK
<1> QED
  BY <1>1, <1>3, <1>4
     DEF Next, vars, docVars, Begin, Step, FindThread, FirstThread, NextThread,
         SaveConversation, TouchQuestion, TouchAnswer, Relay, StreamEnds, Complete,
         CompleteEmpty, Break, Leave, Fault, Crash

\* What SaveQuestion and SaveAnswer append is stored.
LEMMA StoreStores ==
    ASSUME TypeOK, NEW r \in Reqs, NEW role \in {"user", "assistant"},
           conv[r] \in Reqs, conv' = conv, Store(r, role)
    PROVE  <<r, role>> \in Stored(conv[r])'
<1>1. <<r, role>> \in Messages /\ log \in Histories
  BY MessageType DEF TypeOK
<1>2. ASSUME NEW d \in Reqs, d = conv[r] PROVE <<r, role>> \in Stored(d)'
  <2>1. Stored(d)' = IF d = conv[r] THEN Stored(d) \cup {<<r, role>>} ELSE Stored(d)
    BY <1>1, StoreAdds DEF Store
  <2> QED BY <1>2, <2>1
<1> QED BY <1>2

LEMMA LastKept ==
    ASSUME LastInv, last' = last,
           \A c \in Reqs : Stored(c) \subseteq Stored(c)',
           \A r \in Reqs : Moves(r)
    PROVE  LastInv'
<1> SUFFICES ASSUME NEW c \in Reqs, NEW r \in Reqs
             PROVE  LastQuestion(c, r)' /\ LastAnswer(c, r)'
  BY DEF LastInv
<1>1. LastQuestion(c, r) /\ LastAnswer(c, r) /\ Moves(r) /\ Stored(c) \subseteq Stored(c)'
  BY DEF LastInv
<1>2. LastQuestion(c, r)'
  BY <1>1 DEF LastQuestion, Moves, Touched, Excused
<1>3. LastAnswer(c, r)'
  BY <1>1 DEF LastAnswer, Moves, Touched, Answering
<1> QED BY <1>2, <1>3

LEMMA LastNext == TypeOK /\ HistoryInv /\ LastInv /\ [Next]_vars => LastInv'
<1> SUFFICES ASSUME TypeOK, HistoryInv, LastInv, [Next]_vars PROVE LastInv'
  OBVIOUS
<1> USE DEF TypeOK, Touched, Answering, Excused
<1>0. \A c \in Reqs : Stored(c) \subseteq Stored(c)'
  BY StoredGrows
<1>1. ASSUME NEW r \in Reqs, Begin(r) PROVE LastInv'
  <2>1. \A s \in Reqs : Moves(s)
    BY <1>1 DEF Begin, Moves
  <2> QED BY <1>0, <1>1, <2>1, LastKept DEF Begin, docVars
<1>2. ASSUME NEW r \in Reqs, FindThread(r) \/ FirstThread(r) \/ NextThread(r) PROVE LastInv'
  <2>1. \A s \in Reqs : Moves(s)
    BY <1>2 DEF FindThread, FirstThread, NextThread, Moves
  <2> QED BY <1>0, <1>2, <2>1, LastKept DEF FindThread, FirstThread, NextThread, docVars
<1>3. ASSUME NEW r \in Reqs, SaveConversation(r) PROVE LastInv'
  <2>1. \A s \in Reqs : Moves(s)
    BY <1>3 DEF SaveConversation, Moves
  <2> QED BY <1>0, <1>3, <2>1, LastKept DEF SaveConversation
<1>4. ASSUME NEW r \in Reqs, TouchQuestion(r) PROVE LastInv'
  <2>0. CASE UNCHANGED last /\ conv[r] = None /\ pc' = [pc EXCEPT ![r] = "done"]
             /\ reply' = [reply EXCEPT ![r] = "error"]
    <3>1. \A s \in Reqs : Moves(s)
      BY <1>4, <2>0 DEF TouchQuestion, Moves
    <3> QED BY <1>0, <2>0, <3>1, LastKept
  <2> SUFFICES ASSUME conv[r] # None, NEW c \in Reqs, NEW s \in Reqs
               PROVE  LastQuestion(c, s)' /\ LastAnswer(c, s)'
    BY <1>4, <2>0 DEF LastInv, TouchQuestion
  <2>1. LastQuestion(c, s) /\ LastAnswer(c, s) /\ Stored(c) \subseteq Stored(c)'
    BY <1>0 DEF LastInv
  <2>2. /\ conv[r] \in Reqs /\ conv' = conv /\ reply' = reply
        /\ pc' = [pc EXCEPT ![r] = "saveQuestion"]
        /\ last' = [last EXCEPT ![conv[r]] = <<r, "user">>]
        /\ pc[r] = "touchQuestion"
    BY <1>4 DEF TouchQuestion, SetLast
  <2>3. LastQuestion(c, s)'
    BY <2>1, <2>2 DEF LastQuestion
  <2>4. LastAnswer(c, s)'
    BY <2>1, <2>2 DEF LastAnswer
  <2> QED BY <2>3, <2>4
<1>5. ASSUME NEW r \in Reqs, TouchAnswer(r) PROVE LastInv'
  <2> SUFFICES ASSUME NEW c \in Reqs, NEW s \in Reqs
               PROVE  LastQuestion(c, s)' /\ LastAnswer(c, s)'
    BY DEF LastInv
  <2>1. LastQuestion(c, s) /\ LastAnswer(c, s) /\ Stored(c) \subseteq Stored(c)'
    BY <1>0 DEF LastInv
  <2>2. /\ conv[r] \in Reqs /\ conv' = conv /\ reply' = reply
        /\ pc' = [pc EXCEPT ![r] = "saveAnswer"]
        /\ last' = [last EXCEPT ![conv[r]] = <<r, "assistant">>]
        /\ pc[r] = "touchAnswer"
    BY <1>5 DEF TouchAnswer, SetLast
  <2>3. LastQuestion(c, s)'
    BY <2>1, <2>2 DEF LastQuestion
  <2>4. LastAnswer(c, s)'
    BY <2>1, <2>2 DEF LastAnswer
  <2> QED BY <2>3, <2>4
<1>6. ASSUME NEW r \in Reqs, SaveQuestion(r) PROVE LastInv'
  <2>1. Store(r, "user") => <<r, "user">> \in Stored(conv[r])'
    BY <1>6, StoreStores DEF SaveQuestion
  <2>2. \A s \in Reqs : Moves(s)
    BY <1>6, <2>1 DEF SaveQuestion, Moves
  <2> QED BY <1>0, <1>6, <2>2, LastKept DEF SaveQuestion
<1>7. ASSUME NEW r \in Reqs, SaveAnswer(r) PROVE LastInv'
  <2>1. <<r, "assistant">> \in Stored(conv[r])'
    BY <1>7, StoreStores DEF SaveAnswer
  <2>2. \A s \in Reqs : Moves(s)
    BY <1>7, <2>1 DEF SaveAnswer, Moves
  <2> QED BY <1>0, <1>7, <2>2, LastKept DEF SaveAnswer
<1>8. ASSUME NEW r \in Reqs, Relay(r) \/ Leave(r) PROVE LastInv'
  <2>1. \A s \in Reqs : Moves(s)
    BY <1>8 DEF Relay, Leave, Moves
  <2> QED BY <1>0, <1>8, <2>1, LastKept DEF Relay, Leave, docVars
<1>9. ASSUME NEW r \in Reqs, StreamEnds(r) PROVE LastInv'
  <2>1. \A s \in Reqs : Moves(s)
    BY <1>9 DEF StreamEnds, Complete, CompleteEmpty, Break, Moves
  <2> QED BY <1>0, <1>9, <2>1, LastKept
          DEF StreamEnds, Complete, CompleteEmpty, Break, docVars
<1>10. ASSUME NEW r \in Reqs, Fault(r) PROVE LastInv'
  <2>1. \A s \in Reqs : Moves(s)
    BY <1>10 DEF Fault, Die, Moves
  <2> QED BY <1>0, <1>10, <2>1, LastKept DEF Fault, docVars
<1>11. ASSUME Crash PROVE LastInv'
  <2>1. \A s \in Reqs : Moves(s)
    BY <1>11 DEF Crash, Die, Moves
  <2> QED BY <1>0, <1>11, <2>1, LastKept DEF Crash, docVars
<1>12. CASE UNCHANGED vars
  <2>1. \A s \in Reqs : Moves(s)
    BY <1>12 DEF vars, reqVars, Moves
  <2> QED BY <1>0, <1>12, <2>1, LastKept DEF vars, docVars
<1> QED
  BY <1>1, <1>2, <1>3, <1>4, <1>5, <1>6, <1>7, <1>8, <1>9, <1>10, <1>11, <1>12
     DEF Next, Step

\* lastMessage names a message that is not stored only because of a request that
\* is about to store it, or has failed to.
THEOREM LastMessageExcused == Spec => []DanglingOnlyByFailure
<1>1. Init => LastInv
  <2> SUFFICES ASSUME Init PROVE LastInv
    OBVIOUS
  <2>1. \A c, r \in Reqs : last[c] # <<r, "user">> /\ last[c] # <<r, "assistant">>
    <3>1. \A r \in Reqs : None # <<r, "user">> /\ None # <<r, "assistant">>
      BY MessageType, ConstantsAssumption DEF Messages, Roles
    <3> QED BY <3>1 DEF Init
  <2> QED BY <2>1 DEF LastInv, LastQuestion, LastAnswer
<1>2. LastInv => DanglingOnlyByFailure
  <2> SUFFICES ASSUME LastInv, NEW c \in Reqs, NEW r \in Reqs, NEW role \in Roles,
                      last[c] = <<r, role>>, last[c] \notin Stored(c)
               PROVE  \/ pc[r] \in {"saveQuestion", "saveAnswer"}
                      \/ reply[r] = "error" \/ pc[r] = "dead"
    BY DEF DanglingOnlyByFailure
  <2>1. LastQuestion(c, r) /\ LastAnswer(c, r)
    BY DEF LastInv
  <2>2. CASE role = "user"
    BY <2>1, <2>2 DEF LastQuestion, Excused
  <2>3. CASE role = "assistant"
    BY <2>1, <2>3 DEF LastAnswer
  <2> QED BY <2>2, <2>3 DEF Roles
<1> QED
  BY <1>1, <1>2, HistoryInit, HistoryNext, LastNext, TypeCorrect, PTL DEF Spec

-----------------------------------------------------------------------------
(* Answers that have been shown in full are stored, or the process has died. *)

Shown(r) == op[r] = "stream" /\ reply[r] = "ended" /\ r \notin gone

Ending == {"touchAnswer", "saveAnswer", "done", "dead"}

AnswerInv ==
    \A r \in Reqs : Shown(r) =>
        /\ pc[r] \in Ending /\ conv[r] \in Reqs
        /\ pc[r] = "done" => <<r, "assistant">> \in Stored(conv[r])

\* Steps that show no further answer and end no turn that has shown one.
LEMMA AnswerKept ==
    ASSUME AnswerInv, \A c \in Reqs : Stored(c) \subseteq Stored(c)',
           \A r \in Reqs : Shown(r)' =>
              \/ /\ Shown(r) /\ conv'[r] = conv[r]
                 /\ pc'[r] \in Ending /\ (pc'[r] = "done" => pc[r] = "done")
              \/ conv'[r] \in Reqs /\ pc'[r] = "touchAnswer"
    PROVE  AnswerInv'
BY DEF AnswerInv, Ending

\* Every step keeps them.
LEMMA AnswerNext == TypeOK /\ AnswerInv /\ [Next]_vars => AnswerInv'
<1> SUFFICES ASSUME TypeOK, AnswerInv, [Next]_vars PROVE AnswerInv'
  OBVIOUS
<1> USE DEF TypeOK, Shown, Ending, AnswerInv
<1>0. \A c \in Reqs : Stored(c) \subseteq Stored(c)'
  BY StoredGrows
<1>1. ASSUME NEW r \in Reqs, SaveAnswer(r) PROVE AnswerInv'
  <2>1. conv' = conv /\ conv[r] \in Reqs /\ <<r, "assistant">> \in Stored(conv[r])'
    BY <1>1, StoreStores DEF SaveAnswer
  <2>2. ASSUME NEW s \in Reqs, s # r PROVE Shown(s)' => Shown(s) /\ pc'[s] = pc[s]
    BY <1>1, <2>2 DEF SaveAnswer
  <2>3. pc'[r] = "done"
    BY <1>1 DEF SaveAnswer
  <2> QED BY <1>0, <2>1, <2>2, <2>3
<1>2. ASSUME NEW r \in Reqs, Begin(r) PROVE AnswerInv'
  BY <1>0, <1>2, AnswerKept DEF Begin
<1>3. ASSUME NEW r \in Reqs, FindThread(r) \/ FirstThread(r) \/ NextThread(r) PROVE AnswerInv'
  BY <1>0, <1>3, AnswerKept DEF FindThread, FirstThread, NextThread
<1>4. ASSUME NEW r \in Reqs, SaveConversation(r) PROVE AnswerInv'
  BY <1>0, <1>4, AnswerKept DEF SaveConversation
<1>5. ASSUME NEW r \in Reqs, TouchQuestion(r) \/ TouchAnswer(r) PROVE AnswerInv'
  BY <1>0, <1>5, AnswerKept DEF TouchQuestion, TouchAnswer
<1>6. ASSUME NEW r \in Reqs, SaveQuestion(r) PROVE AnswerInv'
  BY <1>0, <1>6, AnswerKept DEF SaveQuestion
<1>7. ASSUME NEW r \in Reqs, Relay(r) \/ Leave(r) PROVE AnswerInv'
  BY <1>0, <1>7, AnswerKept DEF Relay, Leave
<1>8. ASSUME NEW r \in Reqs, StreamEnds(r) PROVE AnswerInv'
  BY <1>0, <1>8, AnswerKept DEF StreamEnds, Complete, CompleteEmpty, Break
<1>9. ASSUME NEW r \in Reqs, Fault(r) PROVE AnswerInv'
  BY <1>0, <1>9, AnswerKept DEF Fault, Die
<1>10. ASSUME Crash PROVE AnswerInv'
  BY <1>0, <1>10, AnswerKept DEF Crash, Die
<1>11. CASE UNCHANGED vars
  BY <1>0, <1>11, AnswerKept DEF vars, reqVars
<1> QED
  BY <1>1, <1>2, <1>3, <1>4, <1>5, <1>6, <1>7, <1>8, <1>9, <1>10, <1>11 DEF Next, Step

\* The answer that a client has received to its end is stored, about to be
\* stored, or lost with the process.
THEOREM ShownAnswersStored == Spec => []AnswerStored
<1>1. Init => AnswerInv
  BY DEF Init, AnswerInv, Shown
<1>2. AnswerInv => AnswerStored
  BY DEF AnswerInv, AnswerStored, Shown, Ending
<1> QED
  BY <1>1, <1>2, AnswerNext, TypeCorrect, PTL DEF Spec

-----------------------------------------------------------------------------
(* The newest message.                                                      *)

\* A conversation that does not exist has no turns, and a turn that is still to
\* create its own has none and holds a number for it.
CreatedInv ==
    \A r \in Reqs :
        /\ conv[r] \in Reqs => threadOf[conv[r]] # 0
        /\ pc[r] \in Creating => threadOf[r] = 0 /\ conv[r] = None
        /\ pc[r] = "saveConversation" => thread[r] # 0

\* Every step keeps it.
LEMMA CreatedNext == TypeOK /\ CreatedInv /\ [Next]_vars => CreatedInv'
<1> SUFFICES ASSUME TypeOK, CreatedInv, [Next]_vars PROVE CreatedInv'
  OBVIOUS
<1> USE ConstantsAssumption DEF TypeOK, CreatedInv, Creating, docVars
<1>1. ASSUME NEW r \in Reqs, Begin(r) PROVE CreatedInv'
  <2>1. threadOf' = threadOf /\ thread' = thread /\ \A s \in Reqs \ {r} : UNCHANGED <<pc[s], conv[s]>>
    BY <1>1 DEF Begin
  <2>2. CASE pc' = [pc EXCEPT ![r] = "findThread"] /\ conv' = conv
    BY <1>1, <2>1, <2>2 DEF Begin
  <2>3. CASE /\ pc' = [pc EXCEPT ![r] = "touchQuestion"]
             /\ \E c \in Reqs : threadOf[c] # 0 /\ conv' = [conv EXCEPT ![r] = c]
    BY <2>1, <2>3
  <2> QED BY <1>1, <2>2, <2>3 DEF Begin
<1>2. ASSUME NEW r \in Reqs, FindThread(r) \/ FirstThread(r) \/ NextThread(r) PROVE CreatedInv'
  BY <1>2 DEF FindThread, FirstThread, NextThread
<1>3. ASSUME NEW r \in Reqs, SaveConversation(r) PROVE CreatedInv'
  <2>1. CASE Taken(thread[r])
    BY <1>3, <2>1 DEF SaveConversation
  <2>2. CASE ~Taken(thread[r])
    <3>1. /\ threadOf' = [threadOf EXCEPT ![r] = thread[r]]
          /\ conv' = [conv EXCEPT ![r] = r]
          /\ thread' = thread
          /\ pc'[r] \in {"done", "touchQuestion"}
          /\ \A s \in Reqs \ {r} : pc'[s] = pc[s]
      BY <1>3, <2>2 DEF SaveConversation
    <3>2. thread[r] # 0
      BY <1>3 DEF SaveConversation
    <3> QED BY <3>1, <3>2
  <2> QED BY <2>1, <2>2
<1>4. ASSUME NEW r \in Reqs, TouchQuestion(r) \/ SaveQuestion(r) \/ TouchAnswer(r) \/ SaveAnswer(r)
      PROVE CreatedInv'
  BY <1>4 DEF TouchQuestion, SaveQuestion, TouchAnswer, SaveAnswer
<1>5. ASSUME NEW r \in Reqs, Relay(r) \/ Leave(r) \/ StreamEnds(r) PROVE CreatedInv'
  BY <1>5 DEF Relay, Leave, StreamEnds, Complete, CompleteEmpty, Break
<1>6. ASSUME NEW r \in Reqs, Fault(r) PROVE CreatedInv'
  BY <1>6 DEF Fault, Die
<1>7. ASSUME Crash PROVE CreatedInv'
  BY <1>7 DEF Crash, Die
<1>8. CASE UNCHANGED vars
  BY <1>8 DEF vars, reqVars
<1> QED
  BY <1>1, <1>2, <1>3, <1>4, <1>5, <1>6, <1>7, <1>8 DEF Next, Step

Working(r) == pc[r] \notin Over \cup {"silent"}

Saving(r) == pc[r] \in {"saveQuestion", "saveAnswer"}

Newest(c) ==
    log[c] # <<>> => \/ last[c] = log[c][Len(log[c])]
                     \/ last[c] # None /\ last[c] \notin Stored(c)

\* A conversation whose turns have not overlapped has one at most, which alone
\* can stand between its two writes; otherwise lastMessage is the newest.
NewestOf(c) ==
    /\ \A r, s \in Reqs : Working(r) /\ Working(s) /\ conv[r] = c /\ conv[s] = c => r = s
    /\ (\A r \in Reqs : conv[r] = c => ~Saving(r)) => Newest(c)
    /\ \A r \in Reqs : conv[r] = c =>
          /\ pc[r] = "saveQuestion" => last[c] = <<r, "user">>
          /\ pc[r] = "saveAnswer" => last[c] = <<r, "assistant">>

NewestInv == \A c \in Reqs \ overlapped : NewestOf(c)

\* Steps that write no message and neither start nor end the writing of one.
LEMMA NewestKept ==
    ASSUME NewestInv, UNCHANGED <<last, log>>, overlapped \subseteq overlapped',
           \A r \in Reqs :
              /\ Working(r)' /\ conv'[r] \in Reqs \ overlapped' => Working(r) /\ conv'[r] = conv[r]
              /\ Saving(r) => pc'[r] = pc[r] /\ conv'[r] = conv[r]
              /\ Saving(r)' => Saving(r)
    PROVE  NewestInv'
<1> SUFFICES ASSUME NEW c \in Reqs \ overlapped, c \notin overlapped'
             PROVE  NewestOf(c)'
  BY DEF NewestInv
<1> QED BY DEF NewestInv, NewestOf, Working, Saving, Newest, Stored

\* Requests that end between their two writes leave a message that is not there.
LEMMA NewestDropped ==
    ASSUME TypeOK, HistoryInv, NewestInv, UNCHANGED <<last, log, conv, overlapped>>,
           \A r \in Reqs : pc'[r] = pc[r] \/ pc'[r] \in Over
    PROVE  NewestInv'
<1> SUFFICES ASSUME NEW c \in Reqs \ overlapped PROVE NewestOf(c)'
  BY DEF NewestInv
<1>0. NewestOf(c)
  BY DEF NewestInv
<1>1. ASSUME NEW r \in Reqs, conv[r] = c, Saving(r) PROVE Newest(c)
  <2>1. last[c] \notin Stored(c)
    BY <1>0, <1>1 DEF NewestOf, Saving, HistoryInv, Progress, Before, Asking, NothingYet, OnlyAsked, Roles
  <2>2. last[c] # None
    BY <1>0, <1>1, MessageType, ConstantsAssumption DEF NewestOf, Saving, Messages, Roles
  <2> QED BY <2>1, <2>2 DEF Newest
<1>2. Newest(c)'
  BY <1>0, <1>1 DEF NewestOf, Newest, Stored
<1> QED BY <1>0, <1>2 DEF NewestOf, Working, Saving

\* A turn that writes lastMessage is the only one of its conversation and stands
\* between its two writes from now on.
LEMMA NewestTouched ==
    ASSUME TypeOK, NewestInv, UNCHANGED <<log, conv, overlapped>>,
           NEW r \in Reqs, NEW role \in Roles, conv[r] \in Reqs, Working(r),
           last' = [last EXCEPT ![conv[r]] = <<r, role>>],
           pc' = [pc EXCEPT ![r] = IF role = "user" THEN "saveQuestion" ELSE "saveAnswer"]
    PROVE  NewestInv'
<1> SUFFICES ASSUME NEW c \in Reqs \ overlapped PROVE NewestOf(c)'
  BY DEF NewestInv
<1>0. NewestOf(c)
  BY DEF NewestInv
<1>1. pc'[r] \in {"saveQuestion", "saveAnswer"} /\ \A s \in Reqs \ {r} : pc'[s] = pc[s]
  BY DEF TypeOK
<1>2. \A s \in Reqs : Working(s)' => Working(s)
  BY <1>1 DEF Working
<1>3. CASE c # conv[r]
  <2>1. last'[c] = last[c]
    BY <1>3 DEF TypeOK
  <2> QED BY <1>0, <1>1, <1>2, <1>3, <2>1 DEF NewestOf, Saving, Newest, Stored
<1>4. CASE c = conv[r]
  <2>1. last'[c] = <<r, role>>
    BY <1>4 DEF TypeOK
  <2>2. \A s \in Reqs : s # r /\ conv[s] = c => ~Working(s)
    BY <1>0, <1>4 DEF NewestOf
  <2>3. \A s \in Reqs : Saving(s)' => Working(s)'
    BY DEF Saving, Working
  <2>4. \/ role = "user" /\ pc'[r] = "saveQuestion"
        \/ role = "assistant" /\ pc'[r] = "saveAnswer"
    BY DEF TypeOK, Roles
  <2> QED BY <1>0, <1>1, <1>2, <1>4, <2>1, <2>2, <2>3, <2>4 DEF NewestOf, Saving
<1> QED BY <1>3, <1>4

\* The message that is stored is the one lastMessage names.
LEMMA NewestStored ==
    ASSUME TypeOK, NewestInv, UNCHANGED <<last, conv, overlapped>>,
           NEW r \in Reqs, NEW role \in Roles, conv[r] \in Reqs, Store(r, role),
           pc[r] = IF role = "user" THEN "saveQuestion" ELSE "saveAnswer",
           pc' = [pc EXCEPT ![r] = IF role = "user" THEN "stream" ELSE "done"]
    PROVE  NewestInv'
<1> SUFFICES ASSUME NEW c \in Reqs \ overlapped PROVE NewestOf(c)'
  BY DEF NewestInv
<1>0. NewestOf(c)
  BY DEF NewestInv
<1>1. pc'[r] \in {"stream", "done"} /\ Working(r) /\ \A s \in Reqs \ {r} : pc'[s] = pc[s]
  BY DEF TypeOK, Roles, Working
<1>2. /\ \A s \in Reqs : Working(s)' => Working(s)
      /\ \A s \in Reqs : Saving(s)' <=> Saving(s) /\ s # r
  BY <1>1 DEF Working, Saving
<1>3. CASE c # conv[r]
  <2>1. log'[c] = log[c]
    BY <1>3 DEF Store, TypeOK, Histories
  <2> QED BY <1>0, <1>1, <1>2, <1>3, <2>1 DEF NewestOf, Saving, Newest, Stored
<1>4. CASE c = conv[r]
  <2>1. last[c] = <<r, role>>
    BY <1>0, <1>4 DEF NewestOf, Roles
  <2>2. log[c] \in Seq(Messages) /\ <<r, role>> \in Messages
    BY DEF TypeOK, Histories, Messages
  <2>3. log'[c] = Append(log[c], <<r, role>>)
    BY <1>4 DEF Store, TypeOK, Histories
  <2>4. log'[c][Len(log'[c])] = <<r, role>>
    BY <2>2, <2>3
  <2>5. Newest(c)'
    BY <2>1, <2>4 DEF Newest
  <2> QED BY <1>0, <1>1, <1>2, <1>4, <2>5 DEF NewestOf, Saving
<1> QED BY <1>3, <1>4

\* Every step keeps the newest message.
LEMMA NewestNext == TypeOK /\ HistoryInv /\ CreatedInv /\ NewestInv /\ [Next]_vars => NewestInv'
<1> SUFFICES ASSUME TypeOK, HistoryInv, CreatedInv, NewestInv, [Next]_vars PROVE NewestInv'
  OBVIOUS
<1> USE ConstantsAssumption DEF TypeOK, docVars
<1>1. ASSUME NEW r \in Reqs, Begin(r) PROVE NewestInv'
  <2>1. /\ pc[r] = "new" /\ UNCHANGED <<last, log>>
        /\ \A s \in Reqs \ {r} : UNCHANGED <<pc[s], conv[s]>>
    BY <1>1 DEF Begin
  <2>2. CASE pc' = [pc EXCEPT ![r] = "findThread"] /\ UNCHANGED <<conv, overlapped>>
    <3>1. conv[r] = None
      BY <2>1 DEF CreatedInv, Creating
    <3> QED BY <2>1, <2>2, <3>1, NewestKept DEF Working, Saving
  <2>3. ASSUME NEW c \in Reqs, conv' = [conv EXCEPT ![r] = c], pc' = [pc EXCEPT ![r] = "touchQuestion"],
               overlapped' = IF Busy(c) THEN overlapped \cup {c} ELSE overlapped
        PROVE  NewestInv'
    <3>1. CASE Busy(c)
      BY <2>1, <2>3, <3>1, NewestKept DEF Working, Saving
    <3>2. CASE ~Busy(c)
      <4>1. \A s \in Reqs : conv[s] = c => ~Working(s)
        BY <3>2 DEF Busy, Working
      <4> SUFFICES ASSUME NEW d \in Reqs \ overlapped PROVE NewestOf(d)'
        BY <2>3, <3>2 DEF NewestInv
      <4>2. NewestOf(d)
        BY DEF NewestInv
      <4>3. ~Saving(r) /\ ~Saving(r)' /\ ~Working(r) /\ conv[r] = None /\ conv'[r] = c
        BY <2>1, <2>3 DEF Saving, Working, CreatedInv, Creating
      <4>4. \A s \in Reqs \ {r} : /\ Saving(s)' <=> Saving(s)
                                  /\ Working(s)' <=> Working(s)
                                  /\ pc'[s] = pc[s] /\ conv'[s] = conv[s]
        BY <2>1 DEF Saving, Working
      <4>5. Newest(d)' = Newest(d) /\ last'[d] = last[d]
        BY <2>1 DEF Newest, Stored
      <4>6. pc'[r] = "touchQuestion"
        BY <2>3
      <4> QED BY <4>1, <4>2, <4>3, <4>4, <4>5, <4>6 DEF NewestOf
    <3> QED BY <3>1, <3>2
  <2>4. CASE pc' = [pc EXCEPT ![r] = "touchQuestion"] /\ UNCHANGED <<conv, overlapped>>
    <3>1. conv[r] = None
      BY <2>1 DEF CreatedInv, Creating
    <3> QED BY <2>1, <2>4, <3>1, NewestKept DEF Working, Saving
  <2> QED BY <1>1, <2>2, <2>3, <2>4 DEF Begin
<1>2. ASSUME NEW r \in Reqs, FindThread(r) \/ FirstThread(r) \/ NextThread(r) PROVE NewestInv'
  <2>1. conv[r] = None
    BY <1>2 DEF FindThread, FirstThread, NextThread, CreatedInv, Creating
  <2> QED BY <1>2, <2>1, NewestKept DEF FindThread, FirstThread, NextThread, Working, Saving
<1>3. ASSUME NEW r \in Reqs, SaveConversation(r) PROVE NewestInv'
  <2>1. CASE Taken(thread[r])
    BY <1>3, <2>1, NewestKept DEF SaveConversation, Working, Saving
  <2>2. CASE ~Taken(thread[r])
    <3> SUFFICES ASSUME NEW c \in Reqs \ overlapped PROVE NewestOf(c)'
      BY <1>3 DEF NewestInv, SaveConversation
    <3>1. NewestOf(c)
      BY DEF NewestInv
    <3>2. /\ pc[r] = "saveConversation" /\ conv' = [conv EXCEPT ![r] = r]
          /\ pc'[r] \in {"done", "touchQuestion"}
          /\ \A s \in Reqs \ {r} : pc'[s] = pc[s]
          /\ UNCHANGED <<last, log>>
      BY <1>3, <2>2 DEF SaveConversation
    <3>3. conv[r] = None /\ \A s \in Reqs : conv[s] # r
      BY <3>2 DEF CreatedInv, Creating
    <3>4. ~Saving(r) /\ ~Saving(r)' /\ conv'[r] = r
      BY <3>2 DEF Saving
    <3>5. \A s \in Reqs \ {r} : /\ Saving(s)' <=> Saving(s)
                                /\ Working(s)' <=> Working(s)
                                /\ pc'[s] = pc[s] /\ conv'[s] = conv[s]
      BY <3>2 DEF Saving, Working
    <3>6. Newest(c)' = Newest(c) /\ last'[c] = last[c]
      BY <3>2 DEF Newest, Stored
    <3> QED BY <3>1, <3>2, <3>3, <3>4, <3>5, <3>6 DEF NewestOf
  <2> QED BY <2>1, <2>2
<1>4. ASSUME NEW r \in Reqs, TouchQuestion(r) PROVE NewestInv'
  <2>1. CASE conv[r] # None /\ SetLast(r, "user") /\ pc' = [pc EXCEPT ![r] = "saveQuestion"]
    BY <1>4, <2>1, NewestTouched DEF TouchQuestion, SetLast, Roles, Working
  <2>2. CASE UNCHANGED last /\ pc' = [pc EXCEPT ![r] = "done"]
    BY <1>4, <2>2, NewestDropped DEF TouchQuestion
  <2> QED BY <1>4, <2>1, <2>2 DEF TouchQuestion
<1>5. ASSUME NEW r \in Reqs, TouchAnswer(r) PROVE NewestInv'
  BY <1>5, NewestTouched DEF TouchAnswer, SetLast, Roles, Working
<1>6. ASSUME NEW r \in Reqs, SaveQuestion(r) PROVE NewestInv'
  <2>1. CASE Store(r, "user") /\ pc' = [pc EXCEPT ![r] = "stream"]
    BY <1>6, <2>1, NewestStored DEF SaveQuestion, Roles
  <2>2. CASE UNCHANGED log /\ pc' = [pc EXCEPT ![r] = "done"]
    BY <1>6, <2>2, NewestDropped DEF SaveQuestion
  <2> QED BY <1>6, <2>1, <2>2 DEF SaveQuestion
<1>7. ASSUME NEW r \in Reqs, SaveAnswer(r) PROVE NewestInv'
  BY <1>7, NewestStored DEF SaveAnswer, Roles
<1>8. ASSUME NEW r \in Reqs, Relay(r) \/ Leave(r) \/ StreamEnds(r) PROVE NewestInv'
  BY <1>8, NewestKept DEF Relay, Leave, StreamEnds, Complete, CompleteEmpty, Break, Working, Saving
<1>9. ASSUME NEW r \in Reqs, Fault(r) PROVE NewestInv'
  BY <1>9, NewestDropped DEF Fault, Die
<1>10. ASSUME Crash PROVE NewestInv'
  BY <1>10, NewestDropped DEF Crash, Die
<1>11. CASE UNCHANGED vars
  BY <1>11, NewestKept DEF vars, reqVars, Working, Saving
<1> QED
  BY <1>1, <1>2, <1>3, <1>4, <1>5, <1>6, <1>7, <1>8, <1>9, <1>10, <1>11 DEF Next, Step

\* A conversation whose turns have not overlapped shows its newest message
\* between turns, whichever calls have failed.
THEOREM ShowsNewest == Spec => []LastIsNewest
<1>1. Init => CreatedInv /\ NewestInv
  BY ConstantsAssumption
     DEF Init, CreatedInv, Creating, NewestInv, NewestOf, Newest, Working, Saving
<1>2. NewestInv => LastIsNewest
  <2> SUFFICES ASSUME NewestInv, NEW c \in Reqs \ overlapped, ~Busy(c) PROVE Newest(c)
    BY DEF LastIsNewest, Newest
  <2>1. \A r \in Reqs : conv[r] = c => ~Saving(r)
    BY DEF Busy, Saving
  <2> QED BY <2>1 DEF NewestInv, NewestOf
<1> QED
  BY <1>1, <1>2, HistoryInit, HistoryNext, CreatedNext, NewestNext, TypeCorrect, PTL DEF Spec
=============================================================================
