----------------------------- MODULE AgentStream -----------------------------
(***************************************************************************)
(* getStreamingAIResponse of src/src/chat/chat.service.ts: the bytes of    *)
(* the agent arrive in chunks, cut anywhere, are collected in rawBuffer,   *)
(* and leave it as whole messages, each after its identifier.              *)
(*                                                                         *)
(* The text is a sequence of tokens, so that a chunk can end inside an     *)
(* identifier, inside the JSON of a message, and inside a character of two *)
(* bytes.  A message is an identifier of IDENTIFIER_LENGTH tokens and a    *)
(* body, which is JSON that parses when it is all there:                   *)
(*                                                                         *)
(*   hello, world  content of the Toly node                                *)
(*   wide          content with a character of two bytes                   *)
(*   event         an event without content, which is not relayed          *)
(*   toolA         a call of a tool                                        *)
(*   toolAgain     a call with the same name and arguments, the rest of    *)
(*                 which is different and has a character of two bytes     *)
(*   toolWide      a call with such a character in its arguments           *)
(*   broken        a tool's output that is not JSON                        *)
(*   quote         content in which an identifier is quoted                *)
(*                                                                         *)
(* The first token of a call stands for its tool_name and                  *)
(* additional_kwargs.                                                      *)
(*                                                                         *)
(* A handler puts its chunk into the buffer and then runs two loops, one   *)
(* for each identifier.  A turn of a loop is a step; no other handler runs *)
(* before both loops have been left.                                       *)
(***************************************************************************)
EXTENDS Naturals, FiniteSets, SequencesExt

CONSTANTS
    Kinds,     \* the messages the agent sends
    MaxLength  \* bound on the messages of a stream

TOOL == <<"Too", "l :">>
TOLY == <<"Tol", "y :">>

IDENTIFIER_LENGTH == 2

ToolKinds == {"toolA", "toolAgain", "toolWide", "broken"}
ChatKinds == {"hello", "world", "wide", "quote"}

\* The end of the JSON of a message, the two bytes of a character, and what stands
\* for either of them alone.
Close == "}"
HalfA == "byte1"
HalfB == "byte2"
Replacement == "replacement"

Body == [hello |-> <<"hello", Close>>, world |-> <<"world", Close>>,
         wide |-> <<HalfA, HalfB, Close>>, event |-> <<"event", Close>>,
         toolA |-> <<"call", Close>>, toolAgain |-> <<"call", HalfA, HalfB, Close>>,
         toolWide |-> <<HalfA, HalfB, Close>>,
         broken |-> <<"oops">>, quote |-> <<"say", TOLY[1], TOLY[2], Close>>]

Tokens == {TOOL[1], TOOL[2], TOLY[1], TOLY[2], Close, HalfA, HalfB, Replacement,
           "hello", "world", "event", "call", "oops", "say"}

Identifier(kind) == IF kind \in ToolKinds THEN TOOL ELSE TOLY

Encoded(kind) == Identifier(kind) \o Body[kind]

ASSUME ConstantsAssumption ==
    /\ Kinds \subseteq DOMAIN Body
    /\ MaxLength \in Nat

VARIABLES
    stream,     \* the messages the agent has sent, each with its place in text
    text,       \* their tokens
    pos,        \* how much of it has arrived
    buffer,     \* rawBuffer
    tools,      \* the tool calls relayed: processedTools, in their order
    content,    \* streamedContent
    status,     \* of the subscription; while it is "ended", isEnd is true
    loop,       \* the loop of the handler that runs, 0 when none does
    coalesced,  \* a chunk has completed more than one identifier (history)
    split       \* a chunk has ended inside a character (history)

history == <<coalesced, split>>
vars == <<stream, text, pos, buffer, tools, content, status, loop, history>>

Init ==
    /\ stream = <<>>
    /\ text = <<>>
    /\ pos = 0
    /\ buffer = <<>>
    /\ tools = <<>>
    /\ content = <<>>
    /\ status = "open"
    /\ loop = 0
    /\ coalesced = FALSE
    /\ split = FALSE

-----------------------------------------------------------------------------
(* Taking messages out of the buffer.                                       *)

\* Where one of the identifiers stands in seq, at from or later.
Positions(seq, identifiers, from) ==
    {i \in from..(Len(seq) - 1) : <<seq[i], seq[i + 1]>> \in identifiers}

\* The first of these places; the one behind seq stands for -1 and Infinity.
IndexOf(seq, identifiers, from) ==
    Min(Positions(seq, identifiers, from) \cup {Len(seq) + 1})

FindNextMessageStart(start) ==
    IndexOf(buffer, {TOOL, TOLY}, start + IDENTIFIER_LENGTH)

\* JSON.parse accepts one whole body.
Parses(body) ==
    /\ Len(body) >= 2
    /\ \A i \in DOMAIN body : body[i] = Close <=> i = Len(body)

\* (mutant) A tool call is relayed as often as it comes.
ProcessToolMessageAgain(body) ==
    /\ tools' = Append(tools, body)
    /\ UNCHANGED content

\* toolKey: the name of a call and its arguments, as they have been decoded.
ToolKey(body) == body[1]

\* What the client is sent for a body that parses.  A call is dropped when one with
\* its key has been relayed, whatever else it says.
ProcessToolMessage(body) ==
    /\ tools' = IF \E i \in DOMAIN tools : ToolKey(tools[i]) = ToolKey(body)
                THEN tools ELSE Append(tools, body)
    /\ UNCHANGED content

ProcessTolyMessage(body) ==
    /\ content' = IF body = Body["event"] THEN content ELSE Append(content, body)
    /\ UNCHANGED tools

Process(identifier, body) ==
    IF ~Parses(body) THEN UNCHANGED <<tools, content>>
    ELSE IF identifier = TOOL THEN ProcessToolMessage(body)
                              ELSE ProcessTolyMessage(body)

\* (mutant) Content is processed before tools.
ProcessContentFirst == <<TOLY, TOOL>>

\* The loops of a handler, by the messages they take.
ProcessBufferedData == <<TOOL, TOLY>>

\* Where the loop finds its next message, and what it takes for its body.
MessageStart == IndexOf(buffer, {ProcessBufferedData[loop]}, 1)

MessageContent ==
    SubSeq(buffer, MessageStart + IDENTIFIER_LENGTH, FindNextMessageStart(MessageStart) - 1)

\* Without a next identifier, or with a body that does not parse, the rest waits
\* for more data, unless there is none.
Waits ==
    /\ status = "open"
    /\ \/ FindNextMessageStart(MessageStart) > Len(buffer)
       \/ ~Parses(MessageContent)

\* One turn: the first message of the type is taken out together with all that
\* stands before it.
ProcessMessages ==
    /\ loop # 0
    /\ MessageStart <= Len(buffer)
    /\ ~Waits
    /\ Process(ProcessBufferedData[loop], MessageContent)
    /\ buffer' = SubSeq(buffer, FindNextMessageStart(MessageStart), Len(buffer))
    /\ UNCHANGED <<stream, text, pos, status, loop, history>>

\* The loop is left: for the next one, or to wait for the next chunk, or, at the
\* end of the stream, for good.
LeaveLoop ==
    /\ loop # 0
    /\ MessageStart > Len(buffer) \/ Waits
    /\ loop' = IF loop < Len(ProcessBufferedData) THEN loop + 1 ELSE 0
    /\ status' = IF loop = Len(ProcessBufferedData) /\ status = "ended"
                 THEN "complete" ELSE status
    /\ UNCHANGED <<stream, text, pos, buffer, tools, content, history>>

-----------------------------------------------------------------------------

\* The agent sends one more message.
Send ==
    /\ status = "open"
    /\ loop = 0
    /\ Len(stream) < MaxLength
    /\ \E kind \in Kinds :
          /\ stream' = Append(stream, [kind |-> kind, at |-> Len(text)])
          /\ text' = text \o Encoded(kind)
    /\ UNCHANGED <<pos, buffer, tools, content, status, loop, history>>

\* chunk.toString('utf-8'): half a character becomes a replacement character.
Decoded(chunk) ==
    [i \in DOMAIN chunk |->
        IF \/ i = Len(chunk) /\ chunk[i] = HalfA
           \/ i = 1 /\ chunk[i] = HalfB
        THEN Replacement ELSE chunk[i]]

\* The identifier of the m-th message has arrived when p tokens have.
Identified(m, p) == stream[m].at + IDENTIFIER_LENGTH <= p

\* on 'data': a chunk of any size.
Data ==
    /\ status = "open"
    /\ loop = 0
    /\ \E to \in (pos + 1)..Len(text) :
          /\ pos' = to
          /\ buffer' = buffer \o Decoded(SubSeq(text, pos + 1, to))
          /\ coalesced' = (coalesced \/
                \E m, n \in DOMAIN stream :
                    m < n /\ \A l \in {m, n} : Identified(l, to) /\ ~Identified(l, pos))
          /\ split' = (split \/ text[to] = HalfA)
    /\ loop' = 1
    /\ UNCHANGED <<stream, text, tools, content, status>>

\* (mutant) What is left at the end of the stream is not looked at.
EndWaiting ==
    /\ status = "open"
    /\ loop = 0
    /\ pos = Len(text)
    /\ status' = "complete"
    /\ UNCHANGED <<stream, text, pos, buffer, tools, content, loop, history>>

\* on 'end': what is left is processed as it is.
End ==
    /\ status = "open"
    /\ loop = 0
    /\ pos = Len(text)
    /\ status' = "ended"
    /\ loop' = 1
    /\ UNCHANGED <<stream, text, pos, buffer, tools, content, history>>

\* on 'error': the subscriber is told, and what is in the buffer is dropped.
Error ==
    /\ status = "open"
    /\ loop = 0
    /\ status' = "error"
    /\ UNCHANGED <<stream, text, pos, buffer, tools, content, loop, history>>

Next == Send \/ Data \/ End \/ Error \/ ProcessMessages \/ LeaveLoop

Spec == Init /\ [][Next]_vars

-----------------------------------------------------------------------------
(* What the client gets, against what the agent has sent.                   *)

TypeOK ==
    /\ stream \in Seq([kind : Kinds, at : Nat])
    /\ text \in Seq(Tokens)
    /\ pos \in 0..Len(text)
    /\ buffer \in Seq(Tokens)
    /\ tools \in Seq(Seq(Tokens))
    /\ content \in Seq(Seq(Tokens))
    /\ status \in {"open", "ended", "complete", "error"}
    /\ loop \in 0..2
    /\ coalesced \in BOOLEAN
    /\ split \in BOOLEAN

BodyOf(m) == Body[stream[m].kind]

\* The messages of these kinds.
Sent(kinds) == {m \in DOMAIN stream : stream[m].kind \in kinds}

\* What is seen of a token: the token, or a replacement character for a byte of a
\* character that a chunk has ended in.
Resembles(seen, sent) ==
    seen = sent \/ (split /\ seen = Replacement /\ sent \in {HalfA, HalfB})

\* The body is that of the m-th message, but for characters cut in two.
IsBodyOf(body, m) ==
    /\ Len(body) = Len(BodyOf(m))
    /\ \A k \in DOMAIN body : Resembles(body[k], BodyOf(m)[k])

\* The i-th body relayed is that of the message from[i], in the order sent.
RelayedFrom(relayed, from) ==
    \A i, j \in DOMAIN relayed :
        IsBodyOf(relayed[i], from[i]) /\ (i < j => from[i] < from[j])

InOrder(relayed, kinds) ==
    \E from \in [DOMAIN relayed -> Sent(kinds)] : RelayedFrom(relayed, from)

AllInOrder(relayed, kinds) ==
    \E from \in [DOMAIN relayed -> Sent(kinds)] :
        RelayedFrom(relayed, from) /\ Range(from) = Sent(kinds)

WellFormed == Sent({"broken", "quote"}) = {}

\* Whatever the agent sends and wherever the chunks are cut, what the client gets
\* of content and of tool calls is in the order it was sent, and no message is
\* relayed twice, joined with another or cut short.  All that a chunk can do is to
\* spoil a character it ends in.  No two calls relayed have the same key.
RelayedInOrder ==
    /\ InOrder(content, ChatKinds)
    /\ InOrder(tools, ToolKinds)
    /\ \A i, j \in DOMAIN tools : ToolKey(tools[i]) = ToolKey(tools[j]) => i = j

\* Wherever the chunks are cut, each name and arguments with which a well-formed
\* stream calls a tool are relayed, but for characters cut in two: tools are taken
\* out of the buffer before the content around them.  What else a call says is
\* relayed for one only of those with its name and arguments.
ToolsComplete ==
    status = "complete" /\ WellFormed =>
        \A m \in Sent(ToolKinds) : \E i \in DOMAIN tools :
            Resembles(ToolKey(tools[i]), ToolKey(BodyOf(m)))

\* No content of a well-formed stream is lost as long as no chunk completes more
\* than one identifier, wherever else the chunks are cut, and none is changed but
\* for the characters a chunk ends in.
ContentComplete ==
    status = "complete" /\ WellFormed /\ ~coalesced => AllInOrder(content, ChatKinds)

-----------------------------------------------------------------------------
(* What a comment says and the code does not do.                            *)

\* "Complete buffer for reconstructing split messages": the whole content of a
\* stream is relayed.  With a tool call between two messages of one chunk, all
\* that stands before the tool call is dropped.
ContentNeverLost ==
    status = "complete" => AllInOrder(content, ChatKinds)
=============================================================================
