----------------------------- MODULE ChatThreads -----------------------------
(***************************************************************************)
(* Conversations with the AI agent, src/src/chat: the counter that numbers *)
(* the agent's threads, the conversations with their messages, and a turn  *)
(* of the stream endpoint, which stores the question, relays the agent's   *)
(* stream, ends the response and only then stores the answer.              *)
(*                                                                         *)
(* Counter, conversations and messages are MongoDB documents written one   *)
(* by one; a step of a request is what it does between two awaits.  What   *)
(* the agent's bytes become is the subject of AgentStream; here a stream   *)
(* carries content of the Toly node or it does not.                        *)
(*                                                                         *)
(* A conversation is named by the request that creates it, a message by    *)
(* its request and its role.                                               *)
(***************************************************************************)
EXTENDS Naturals, Sequences

CONSTANTS
    Reqs,       \* the requests of a behaviour
    Questions,  \* the questions that are asked
    Named,      \* the threads that callers name, 0 for one that is no number
    MaxFaults,  \* bound on failed database calls and crashes
    None

ASSUME ConstantsAssumption ==
    /\ Questions \subseteq {"text", "empty"}
    /\ Named \subseteq Nat
    /\ MaxFaults \in Nat
    /\ None \notin Reqs \cup (Reqs \X {"user", "assistant"})

VARIABLES
    pc, op,
    conv,       \* the conversation it belongs to
    thread,     \* the number getNewThreadId gave it, 0 for none
    asked,      \* the thread its turn asks the agent on, 0 for none
    content,    \* the turns the agent has streamed content of
    gone,       \* the turns whose client has closed the connection
    reply,      \* the HTTP response
    counter,    \* threadCount of the AIThread document, 0 when there is none
    threadOf,   \* the Conversation documents: their threadId, 0 for no document
    last,       \* their lastMessage
    log,        \* their Message documents, in the order of createdAt
    overlapped, \* the conversations that had two turns at a time (history)
    faults

reqVars  == <<pc, op, conv, thread, asked, content, gone, reply>>
docVars  == <<counter, threadOf, last, log>>
vars     == <<reqVars, docVars, overlapped, faults>>

Roles == {"user", "assistant"}

Messages == Reqs \X Roles

Histories == [Reqs -> Seq(Messages)]

Labels ==
    {"new", "done", "dead",
     "findThread", "firstThread", "nextThread", "saveConversation",
     "touchQuestion", "saveQuestion", "stream", "silent",
     "touchAnswer", "saveAnswer"}

Over == {"new", "done", "dead"}

\* A response is open until it is ended, after the whole stream or because the
\* stream broke off (cut), or until it is an error.
Replies == {"none", "open", "ended", "cut", "error"}

TypeOK ==
    /\ pc \in [Reqs -> Labels]
    /\ op \in [Reqs -> {"create", "stream", None}]
    /\ conv \in [Reqs -> Reqs \cup {None}]
    /\ thread \in [Reqs -> Nat]
    /\ asked \in [Reqs -> Nat]
    /\ content \subseteq Reqs
    /\ gone \subseteq Reqs
    /\ reply \in [Reqs -> Replies]
    /\ counter \in Nat
    /\ threadOf \in [Reqs -> Nat]
    /\ last \in [Reqs -> Messages \cup {None}]
    /\ log \in Histories
    /\ overlapped \subseteq Reqs
    /\ faults \in 0..MaxFaults
    /\ \A r \in Reqs :
          pc[r] \in {"saveQuestion", "stream", "touchAnswer", "saveAnswer"}
            => conv[r] \in Reqs

Init ==
    /\ pc = [r \in Reqs |-> "new"]
    /\ op = [r \in Reqs |-> None]
    /\ conv = [r \in Reqs |-> None]
    /\ thread = [r \in Reqs |-> 0]
    /\ asked = [r \in Reqs |-> 0]
    /\ content = {}
    /\ gone = {}
    /\ reply = [r \in Reqs |-> "none"]
    /\ counter = 0
    /\ threadOf = [r \in Reqs |-> 0]
    /\ last = [r \in Reqs |-> None]
    /\ log = [r \in Reqs |-> <<>>]
    /\ overlapped = {}
    /\ faults = 0

-----------------------------------------------------------------------------

Goto(r, label) == pc' = [pc EXCEPT ![r] = label]

End(r, how) ==
    /\ pc' = [pc EXCEPT ![r] = "done"]
    /\ reply' = [reply EXCEPT ![r] = how]

\* A turn of conversation c is under way.  A silent one does nothing any more.
Busy(c) == \E s \in Reqs : conv[s] = c /\ pc[s] \notin Over \cup {"silent"}

\* create-conversations, and stream without a conversationId, with the one of a
\* conversation, and with one that names none.  With a conversationId the caller
\* names the agent's thread as well, and nobody looks whether it is the
\* conversation's own.
Begin(r) ==
    /\ pc[r] = "new"
    /\ \/ /\ \E o \in {"create", "stream"} : op' = [op EXCEPT ![r] = o]
          /\ Goto(r, "findThread")
          /\ UNCHANGED <<conv, asked, overlapped>>
       \/ /\ op' = [op EXCEPT ![r] = "stream"]
          /\ \E c \in Reqs, n \in Named :
                /\ threadOf[c] # 0
                /\ conv' = [conv EXCEPT ![r] = c]
                /\ asked' = [asked EXCEPT ![r] = n]
                /\ overlapped' = IF Busy(c) THEN overlapped \cup {c} ELSE overlapped
          /\ Goto(r, "touchQuestion")
       \/ /\ op' = [op EXCEPT ![r] = "stream"]
          /\ Goto(r, "touchQuestion")
          /\ UNCHANGED <<conv, asked, overlapped>>
    /\ reply' = [reply EXCEPT ![r] = "open"]
    /\ UNCHANGED <<thread, content, gone, docVars, faults>>

-----------------------------------------------------------------------------
(* createConversation with getNewThreadId.                                  *)

FindThread(r) ==
    /\ pc[r] = "findThread"
    /\ Goto(r, IF counter = 0 THEN "firstThread" ELSE "nextThread")
    /\ UNCHANGED <<op, conv, thread, asked, content, gone, reply, docVars, overlapped, faults>>

\* (mutant) The name of the AIThread document is not unique.
FirstThreadAgain(r) ==
    /\ pc[r] = "firstThread"
    /\ counter' = 1
    /\ thread' = [thread EXCEPT ![r] = 1]
    /\ Goto(r, "saveConversation")
    /\ UNCHANGED <<op, conv, asked, content, gone, reply, threadOf, last, log, overlapped, faults>>

\* The name is unique: the first thread is saved once, and whoever else has
\* found none fails.
FirstThread(r) ==
    /\ pc[r] = "firstThread"
    /\ \/ /\ counter = 0
          /\ counter' = 1
          /\ thread' = [thread EXCEPT ![r] = 1]
          /\ Goto(r, "saveConversation")
          /\ UNCHANGED reply
       \/ counter # 0 /\ End(r, "error") /\ UNCHANGED <<counter, thread>>
    /\ UNCHANGED <<op, conv, asked, content, gone, threadOf, last, log, overlapped, faults>>

\* findOneAndUpdate with $inc; saving the unchanged result writes nothing.
NextThread(r) ==
    /\ pc[r] = "nextThread"
    /\ counter' = counter + 1
    /\ thread' = [thread EXCEPT ![r] = counter + 1]
    /\ Goto(r, "saveConversation")
    /\ UNCHANGED <<op, conv, asked, content, gone, reply, threadOf, last, log, overlapped, faults>>

\* threadId is unique among the conversations.
Taken(n) == \E c \in Reqs : threadOf[c] = n

SaveConversation(r) ==
    /\ pc[r] = "saveConversation"
    /\ IF Taken(thread[r])
       THEN End(r, "error") /\ UNCHANGED <<conv, asked, threadOf>>
       ELSE /\ threadOf' = [threadOf EXCEPT ![r] = thread[r]]
            /\ conv' = [conv EXCEPT ![r] = r]
            /\ IF op[r] = "create"
               THEN End(r, "ended") /\ UNCHANGED asked
               ELSE /\ asked' = [asked EXCEPT ![r] = thread[r]]
                    /\ Goto(r, "touchQuestion")
                    /\ UNCHANGED reply
    /\ UNCHANGED <<op, thread, content, gone, counter, last, log, overlapped, faults>>

-----------------------------------------------------------------------------
(* addMessage, in its two steps, for the question and for the answer.       *)

\* (mutant) Only a question becomes the lastMessage.
SetLastQuestion(r, role) ==
    last' = IF role = "user" THEN [last EXCEPT ![conv[r]] = <<r, role>>] ELSE last

\* lastMessage is set before the message exists.
SetLast(r, role) == last' = [last EXCEPT ![conv[r]] = <<r, role>>]

\* A conversation that is not found is an error.
TouchQuestion(r) ==
    /\ pc[r] = "touchQuestion"
    /\ \/ conv[r] # None /\ SetLast(r, "user") /\ Goto(r, "saveQuestion") /\ UNCHANGED reply
       \/ conv[r] = None /\ End(r, "error") /\ UNCHANGED last
    /\ UNCHANGED <<op, conv, thread, asked, content, gone,
                   counter, threadOf, log, overlapped, faults>>

\* (mutant) The history is kept the other way round.
StoreFirst(r, role) == log' = [log EXCEPT ![conv[r]] = <<<<r, role>>>> \o @]

Store(r, role) == log' = [log EXCEPT ![conv[r]] = Append(@, <<r, role>>)]

\* (mutant) A question that cannot be saved is asked all the same.
SaveQuestionAnyway(r) ==
    /\ pc[r] = "saveQuestion"
    /\ \/ "text" \in Questions /\ Store(r, "user")
       \/ "empty" \in Questions /\ UNCHANGED log
    /\ Goto(r, "stream")
    /\ UNCHANGED <<op, conv, thread, asked, content, gone, reply,
                   counter, threadOf, last, overlapped, faults>>

\* content is required, and an empty string does not count.
SaveQuestion(r) ==
    /\ pc[r] = "saveQuestion"
    /\ \/ "text" \in Questions /\ Store(r, "user") /\ Goto(r, "stream") /\ UNCHANGED reply
       \/ "empty" \in Questions /\ End(r, "error") /\ UNCHANGED log
    /\ UNCHANGED <<op, conv, thread, asked, content, gone,
                   counter, threadOf, last, overlapped, faults>>

TouchAnswer(r) ==
    /\ pc[r] = "touchAnswer"
    /\ SetLast(r, "assistant")
    /\ Goto(r, "saveAnswer")
    /\ UNCHANGED <<op, conv, thread, asked, content, gone, reply,
                   counter, threadOf, log, overlapped, faults>>

SaveAnswer(r) ==
    /\ pc[r] = "saveAnswer"
    /\ Store(r, "assistant")
    /\ Goto(r, "done")
    /\ UNCHANGED <<op, conv, thread, asked, content, gone, reply,
                   counter, threadOf, last, overlapped, faults>>

-----------------------------------------------------------------------------
(* The subscription to the agent's stream.                                  *)

Relay(r) ==
    /\ pc[r] = "stream"
    /\ r \notin content
    /\ content' = content \cup {r}
    /\ UNCHANGED <<pc, op, conv, thread, asked, gone, reply, docVars, overlapped, faults>>

\* (mutant) The response is ended without a callback.
CompleteUnsaved(r) ==
    /\ pc[r] = "stream"
    /\ r \in content
    /\ End(r, "ended")
    /\ UNCHANGED <<op, conv, thread, asked, content, gone, docVars, overlapped, faults>>

\* The stream ends.  The answer is stored by the callback of response.end,
\* which may not run when the client is gone.
Complete(r) ==
    /\ pc[r] = "stream"
    /\ r \in content
    /\ reply' = [reply EXCEPT ![r] = "ended"]
    /\ \/ Goto(r, "touchAnswer")
       \/ r \in gone /\ Goto(r, "done")
    /\ UNCHANGED <<op, conv, thread, asked, content, gone, docVars, overlapped, faults>>

\* A stream without content ends: nothing is stored and the response stays
\* open.
CompleteEmpty(r) ==
    /\ pc[r] = "stream"
    /\ r \notin content
    /\ Goto(r, "silent")
    /\ UNCHANGED <<op, conv, thread, asked, content, gone, reply, docVars, overlapped, faults>>

\* (mutant) An error of the stream is only logged.
BreakLogged(r) ==
    /\ pc[r] = "stream"
    /\ Goto(r, "done")
    /\ UNCHANGED <<op, conv, thread, asked, content, gone, reply, docVars, overlapped, faults>>

\* The request to the agent or its stream fails: what has been relayed is not
\* stored.
Break(r) ==
    /\ pc[r] = "stream"
    /\ End(r, "cut")
    /\ UNCHANGED <<op, conv, thread, asked, content, gone, docVars, overlapped, faults>>

\* The client closes the connection; the subscription goes on.
Leave(r) ==
    /\ pc[r] = "stream"
    /\ r \notin gone
    /\ gone' = gone \cup {r}
    /\ UNCHANGED <<pc, op, conv, thread, asked, content, reply, docVars, overlapped, faults>>

-----------------------------------------------------------------------------
(* Failures.  Before the stream an error is answered with a 500.  The       *)
(* callback that stores the answer has no catch: its rejection is unhandled *)
(* and ends the process.                                                    *)

Die ==
    /\ pc' = [r \in Reqs |-> IF pc[r] \in Over THEN pc[r] ELSE "dead"]
    /\ reply' = [r \in Reqs |-> IF reply[r] = "open" THEN "error" ELSE reply[r]]

Strikes == faults < MaxFaults /\ faults' = faults + 1

Fault(r) ==
    /\ pc[r] \in {"findThread", "firstThread", "nextThread", "saveConversation",
                  "touchQuestion", "saveQuestion", "touchAnswer", "saveAnswer"}
    /\ Strikes
    /\ IF pc[r] \in {"touchAnswer", "saveAnswer"} THEN Die ELSE End(r, "error")
    /\ UNCHANGED <<op, conv, thread, asked, content, gone, docVars, overlapped>>

Crash ==
    /\ Strikes
    /\ \E r \in Reqs : pc[r] \notin Over
    /\ Die
    /\ UNCHANGED <<op, conv, thread, asked, content, gone, docVars, overlapped>>

Step(r) ==
    \/ FindThread(r) \/ FirstThread(r) \/ NextThread(r) \/ SaveConversation(r)
    \/ TouchQuestion(r) \/ SaveQuestion(r) \/ TouchAnswer(r) \/ SaveAnswer(r)

StreamEnds(r) == Complete(r) \/ CompleteEmpty(r) \/ Break(r)

Next ==
    \/ \E r \in Reqs :
          \/ Begin(r) \/ Step(r)
          \/ Relay(r) \/ StreamEnds(r) \/ Leave(r)
          \/ Fault(r)
    \/ Crash

Spec == Init /\ [][Next]_vars

\* Node runs the continuations, the database answers or fails, and the agent
\* ends every stream it has been asked for.
Fairness == \A r \in Reqs : WF_vars(Step(r)) /\ WF_vars(StreamEnds(r))

FairSpec == Spec /\ Fairness

-----------------------------------------------------------------------------
(* What the chat keeps.                                                     *)

Stored(c) == {log[c][i] : i \in DOMAIN log[c]}

\* No number of the agent's threads is given out twice, not when the first
\* conversations are created at the same time and not when calls fail.  That
\* keeps conversations apart as far as the server can: when the turns of two
\* conversations ask the agent on one thread, one of them continues a
\* conversation with a thread its caller has named and that is not the
\* conversation's own, which nothing prevents.
ThreadsDistinct ==
    \A r, s \in Reqs :
        /\ r # s /\ thread[r] = thread[s] => thread[r] = 0
        /\ conv[r] # conv[s] /\ asked[r] = asked[s] /\ asked[r] # 0 =>
              \E q \in {r, s} : conv[q] # q /\ asked[q] # threadOf[conv[q]]

\* However turns overlap, an answer stands behind its own question in the
\* history of one and the same conversation, and no message is there twice.
AnswersFollowQuestions ==
    \A c \in Reqs : \A i \in DOMAIN log[c] :
        /\ \A j \in DOMAIN log[c] : log[c][i] = log[c][j] => i = j
        /\ log[c][i][2] = "assistant" =>
             \E j \in 1..(i - 1) : log[c][j] = <<log[c][i][1], "user">>

\* lastMessage is written before its message.  It names a message that is not
\* there only while its request is between the two writes, or after that
\* request has failed or died.
DanglingOnlyByFailure ==
    \A c, r \in Reqs : \A role \in Roles :
        last[c] = <<r, role>> /\ last[c] \notin Stored(c) =>
            pc[r] \in {"saveQuestion", "saveAnswer"} \/ reply[r] = "error" \/ pc[r] = "dead"

\* As long as a conversation has one turn at a time, the conversation list never
\* shows an outdated message for it between turns, whichever calls fail: it
\* shows the newest one, or none when a failed request has left lastMessage
\* without its message.
LastIsNewest ==
    \A c \in Reqs :
        c \notin overlapped /\ ~Busy(c) /\ log[c] # <<>> =>
            \/ last[c] = log[c][Len(log[c])]
            \/ last[c] # None /\ last[c] \notin Stored(c)

\* The answer that a client has received to its end is in the history, or about
\* to be written there, or the process has died before it was written.  Nothing
\* else loses it: the save has no catch, so that a save that fails ends the
\* process, and whoever is left behind by a running process has his answer
\* stored.
AnswerStored ==
    \A r \in Reqs :
        op[r] = "stream" /\ reply[r] = "ended" /\ r \notin gone =>
            \/ <<r, "assistant">> \in Stored(conv[r])
            \/ pc[r] \in {"touchAnswer", "saveAnswer"}
            \/ pc[r] = "dead"

\* Every request gets the end of its response, whatever fails, unless the
\* agent's stream ends without content: again and again nobody waits any more.
ResponseEnds == []<>(\A r \in Reqs : reply[r] = "open" => pc[r] = "silent")
=============================================================================
