-------------------------- MODULE AgentStreamProofs --------------------------
(***************************************************************************)
(* Proofs about AgentStream, for streams of any length.                    *)
(*                                                                         *)
(* What is in the buffer is always the end of what has arrived, so that a  *)
(* place in the buffer is a place in the text, and the text is laid out in *)
(* messages.  The invariants follow the one place that moves, Taken.       *)
(***************************************************************************)
EXTENDS AgentStream, Integers, TLAPS, SequenceTheorems, WellFoundedInduction

-----------------------------------------------------------------------------
(* Tokens.                                                                  *)

LEMMA Tuples ==
    \A S : \A a, b, c, d \in S :
        /\ /\ <<a>> \in Seq(S) /\ Len(<<a>>) = 1 /\ <<a>>[1] = a
        /\ /\ <<a, b>> \in Seq(S) /\ Len(<<a, b>>) = 2
           /\ <<a, b>>[1] = a /\ <<a, b>>[2] = b
        /\ /\ <<a, b, c>> \in Seq(S) /\ Len(<<a, b, c>>) = 3
           /\ <<a, b, c>>[1] = a /\ <<a, b, c>>[2] = b /\ <<a, b, c>>[3] = c
        /\ /\ <<a, b, c, d>> \in Seq(S) /\ Len(<<a, b, c, d>>) = 4
           /\ <<a, b, c, d>>[1] = a /\ <<a, b, c, d>>[2] = b
           /\ <<a, b, c, d>>[3] = c /\ <<a, b, c, d>>[4] = d
  OBVIOUS

LEMMA IdentifierTokens ==
    /\ TOOL[1] = "Too" /\ TOOL[2] = "l :" /\ TOLY[1] = "Tol" /\ TOLY[2] = "y :"
  BY DEF TOOL, TOLY

\* The words of the bodies, and the kinds of messages by the shape of their bodies.
Words == {"hello", "world", "event", "call", "oops", "say"}

Bodied == DOMAIN Body
Plain == {"hello", "world", "event", "toolA"}
Wide == {"wide", "toolWide"}
Again == {"toolAgain"}
Broken == {"broken"}
Quote == {"quote"}

LEMMA TokensDiffer ==
    /\ TOOL[1] \notin {TOOL[2], TOLY[1], TOLY[2], Close, HalfA, HalfB, Replacement}
    /\ TOLY[1] \notin {TOOL[2], TOLY[2], Close, HalfA, HalfB, Replacement}
    /\ TOOL[2] \notin {TOLY[2], Close, HalfA, HalfB, Replacement}
    /\ TOLY[2] \notin {Close, HalfA, HalfB, Replacement}
    /\ Close \notin {HalfA, HalfB, Replacement}
    /\ HalfA \notin {HalfB, Replacement}
    /\ HalfB # Replacement
    /\ {TOOL[1], TOOL[2], TOLY[1], TOLY[2], Close, HalfA, HalfB, Replacement} \cap Words = {}
  BY IdentifierTokens DEF Words, Close, HalfA, HalfB, Replacement

LEMMA TokensAll ==
    {TOOL[1], TOOL[2], TOLY[1], TOLY[2], Close, HalfA, HalfB, Replacement} \cup Words
        \subseteq Tokens
  BY DEF Tokens, Words

LEMMA Shapes ==
    /\ Bodied = Plain \cup Wide \cup Again \cup Broken \cup Quote
    /\ Plain \cap (Wide \cup Again \cup Broken \cup Quote) = {}
    /\ Wide \cap (Again \cup Broken \cup Quote) = {}
    /\ Again \cap (Broken \cup Quote) = {}
    /\ Broken \cap Quote = {}
    /\ \A kind \in Plain : \E w \in Words : Body[kind] = <<w, Close>>
    /\ \A kind \in Wide : Body[kind] = <<HalfA, HalfB, Close>>
    /\ \A kind \in Again : \E w \in Words : Body[kind] = <<w, HalfA, HalfB, Close>>
    /\ \A kind \in Broken : \E w \in Words : Body[kind] = <<w>>
    /\ \A kind \in Quote : \E w \in Words : Body[kind] = <<w, TOLY[1], TOLY[2], Close>>
  <1>1. /\ Body["hello"] = <<"hello", Close>> /\ Body["world"] = <<"world", Close>>
        /\ Body["event"] = <<"event", Close>> /\ Body["toolA"] = <<"call", Close>>
    BY DEF Body
  <1>2. /\ Body["wide"] = <<HalfA, HalfB, Close>> /\ Body["toolWide"] = <<HalfA, HalfB, Close>>
        /\ Body["toolAgain"] = <<"call", HalfA, HalfB, Close>>
    BY DEF Body
  <1>3. Body["broken"] = <<"oops">> /\ Body["quote"] = <<"say", TOLY[1], TOLY[2], Close>>
    BY DEF Body
  <1>4. /\ "hello" \in Words /\ "world" \in Words /\ "event" \in Words
        /\ "call" \in Words /\ "oops" \in Words /\ "say" \in Words
    BY DEF Words
  <1>5. Bodied = Plain \cup Wide \cup Again \cup Broken \cup Quote
    BY DEF Bodied, Body, Plain, Wide, Again, Broken, Quote
  <1>6. /\ Plain \cap (Wide \cup Again \cup Broken \cup Quote) = {}
        /\ Wide \cap (Again \cup Broken \cup Quote) = {}
        /\ Again \cap (Broken \cup Quote) = {}
        /\ Broken \cap Quote = {}
    BY DEF Plain, Wide, Again, Broken, Quote
  <1>7. \A kind \in Plain : \E w \in Words : Body[kind] = <<w, Close>>
    BY <1>1, <1>4, Zenon DEF Plain
  <1>8. /\ \A kind \in Wide : Body[kind] = <<HalfA, HalfB, Close>>
        /\ \A kind \in Again : \E w \in Words : Body[kind] = <<w, HalfA, HalfB, Close>>
    BY <1>2, <1>4, Zenon DEF Wide, Again
  <1>9. /\ \A kind \in Broken : \E w \in Words : Body[kind] = <<w>>
        /\ \A kind \in Quote : \E w \in Words : Body[kind] = <<w, TOLY[1], TOLY[2], Close>>
    BY <1>3, <1>4, Zenon DEF Broken, Quote
  <1> QED
    BY <1>5, <1>6, <1>7, <1>8, <1>9

\* A body is short.  An identifier stands in it only where it is quoted, and the
\* two bytes of a character stand side by side.
LEMMA BodyTokens ==
    ASSUME NEW kind \in Bodied
    PROVE  /\ Body[kind] \in Seq(Tokens)
           /\ Len(Body[kind]) \in Nat /\ 1 <= Len(Body[kind]) /\ Len(Body[kind]) <= 4
           /\ \A k \in 1..Len(Body[kind]) :
                 /\ Body[kind][k] \notin {TOOL[1], TOOL[2], Replacement}
                 /\ Body[kind][k] = TOLY[1] => kind \in Quote /\ k = 2
                 /\ Body[kind][k] \in {HalfA, HalfB} => kind \in Wide \cup Again
           /\ kind \in Quote => /\ Len(Body[kind]) = 4 /\ Body[kind][1] # Close
                                /\ Body[kind][2] = TOLY[1] /\ Body[kind][3] = TOLY[2]
                                /\ Body[kind][4] = Close
           /\ kind \in Broken => Len(Body[kind]) = 1
           /\ kind \in Wide => Len(Body[kind]) = 3 /\ Body[kind][1] = HalfA
                                  /\ Body[kind][2] = HalfB /\ Body[kind][3] = Close
           /\ kind \in Again => /\ Len(Body[kind]) = 4 /\ Body[kind][1] \in Words
                                /\ Body[kind][2] = HalfA /\ Body[kind][3] = HalfB
                                /\ Body[kind][4] = Close
           /\ kind \in Plain => Len(Body[kind]) = 2 /\ Body[kind][1] # Close
                                  /\ Body[kind][2] = Close
  <1>1. CASE kind \in Plain
    <2>1. PICK w \in Words : Body[kind] = <<w, Close>>
      BY <1>1, Shapes
    <2>2. /\ Body[kind] \in Seq(Tokens) /\ Len(Body[kind]) = 2
          /\ Body[kind][1] = w /\ Body[kind][2] = Close
      BY <2>1, TokensAll, Tuples
    <2> QED
      BY <1>1, <2>2, Shapes, TokensDiffer
  <1>2. CASE kind \in Wide
    <2>1. Body[kind] = <<HalfA, HalfB, Close>>
      BY <1>2, Shapes
    <2>2. /\ Body[kind] \in Seq(Tokens) /\ Len(Body[kind]) = 3
          /\ Body[kind][1] = HalfA /\ Body[kind][2] = HalfB /\ Body[kind][3] = Close
      BY <2>1, TokensAll, Tuples
    <2> QED
      BY <1>2, <2>2, Shapes, TokensDiffer
  <1>3. CASE kind \in Broken
    <2>1. PICK w \in Words : Body[kind] = <<w>>
      BY <1>3, Shapes
    <2>2. Body[kind] \in Seq(Tokens) /\ Len(Body[kind]) = 1 /\ Body[kind][1] = w
      BY <2>1, TokensAll, Tuples
    <2> QED
      BY <1>3, <2>2, Shapes, TokensDiffer
  <1>4. CASE kind \in Quote
    <2>1. PICK w \in Words : Body[kind] = <<w, TOLY[1], TOLY[2], Close>>
      BY <1>4, Shapes
    <2>2. /\ Body[kind] \in Seq(Tokens) /\ Len(Body[kind]) = 4
          /\ Body[kind][1] = w /\ Body[kind][2] = TOLY[1]
          /\ Body[kind][3] = TOLY[2] /\ Body[kind][4] = Close
      BY <2>1, TokensAll, Tuples
    <2> QED
      BY <1>4, <2>2, Shapes, TokensDiffer
  <1>5. CASE kind \in Again
    <2>1. PICK w \in Words : Body[kind] = <<w, HalfA, HalfB, Close>>
      BY <1>5, Shapes
    <2>2. /\ Body[kind] \in Seq(Tokens) /\ Len(Body[kind]) = 4
          /\ Body[kind][1] = w /\ Body[kind][2] = HalfA
          /\ Body[kind][3] = HalfB /\ Body[kind][4] = Close
      BY <2>1, TokensAll, Tuples
    <2> QED
      BY <1>5, <2>2, Shapes, TokensDiffer
  <1> QED
    BY <1>1, <1>2, <1>3, <1>4, <1>5, Shapes

LEMMA BodyLength ==
    ASSUME NEW kind \in Bodied
    PROVE  Len(Body[kind]) \in Nat /\ 1 <= Len(Body[kind]) /\ Len(Body[kind]) <= 4
  BY BodyTokens

\* What a sequence that is put together of two, or cut out of one, consists of.
LEMMA Joined ==
    \A s, t \in Seq(Tokens) :
        /\ s \o t \in Seq(Tokens)
        /\ Len(s \o t) = Len(s) + Len(t)
        /\ \A i \in 1..Len(s) : (s \o t)[i] = s[i]
        /\ \A i \in 1..Len(t) : (s \o t)[Len(s) + i] = t[i]
  OBVIOUS

LEMMA CutOut ==
    ASSUME NEW S, NEW s \in Seq(S), NEW m \in Nat, NEW n \in Nat,
           1 <= m, m <= n + 1, n <= Len(s)
    PROVE  /\ SubSeq(s, m, n) \in Seq(S)
           /\ Len(SubSeq(s, m, n)) = n - m + 1
           /\ \A i \in 1..(n - m + 1) : SubSeq(s, m, n)[i] = s[m + i - 1]
  OBVIOUS

LEMMA EncodedTokens ==
    ASSUME NEW kind \in Bodied
    PROVE  /\ Encoded(kind) \in Seq(Tokens)
           /\ Len(Encoded(kind)) = Len(Body[kind]) + 2
           /\ Encoded(kind)[1] = Identifier(kind)[1]
           /\ Encoded(kind)[2] = Identifier(kind)[2]
           /\ \A k \in 1..Len(Body[kind]) : Encoded(kind)[2 + k] = Body[kind][k]
  <1>1. TOOL \in Seq(Tokens) /\ Len(TOOL) = 2 /\ TOLY \in Seq(Tokens) /\ Len(TOLY) = 2
    <2>1. TOOL = <<TOOL[1], TOOL[2]>> /\ TOLY = <<TOLY[1], TOLY[2]>>
      BY IdentifierTokens DEF TOOL, TOLY
    <2>2. TOOL[1] \in Tokens /\ TOOL[2] \in Tokens /\ TOLY[1] \in Tokens /\ TOLY[2] \in Tokens
      BY TokensAll
    <2>3. ASSUME NEW a \in Tokens, NEW b \in Tokens
          PROVE  <<a, b>> \in Seq(Tokens) /\ Len(<<a, b>>) = 2
      BY Tuples
    <2>4. /\ <<TOOL[1], TOOL[2]>> \in Seq(Tokens) /\ Len(<<TOOL[1], TOOL[2]>>) = 2
          /\ <<TOLY[1], TOLY[2]>> \in Seq(Tokens) /\ Len(<<TOLY[1], TOLY[2]>>) = 2
      BY <2>2, <2>3
    <2> QED
      BY <2>1, <2>4, Zenon
  <1>2. Identifier(kind) \in Seq(Tokens) /\ Len(Identifier(kind)) = 2
    BY <1>1 DEF Identifier
  <1>3. Body[kind] \in Seq(Tokens) /\ Len(Body[kind]) \in Nat
    BY BodyTokens
  <1> DEFINE s == Identifier(kind)
             t == Body[kind]
             e == Encoded(kind)
  <1>4. e = s \o t
    BY DEF Encoded
  <1> HIDE DEF s, t, e
  <1>5. s \in Seq(Tokens) /\ t \in Seq(Tokens) /\ Len(s) = 2
    BY <1>2, <1>3 DEF s, t
  <1>6. /\ e \in Seq(Tokens)
        /\ Len(e) = Len(s) + Len(t)
        /\ \A i \in 1..Len(s) : e[i] = s[i]
        /\ \A i \in 1..Len(t) : e[Len(s) + i] = t[i]
    BY <1>4, <1>5, Joined, Zenon
  <1>7. 1 \in 1..Len(s) /\ 2 \in 1..Len(s) /\ Len(t) \in Nat
    BY <1>3, <1>5 DEF t
  <1>8. e[1] = s[1] /\ e[2] = s[2]
    BY <1>6, <1>7, Zenon
  <1>9. Len(e) = Len(t) + 2 /\ \A k \in 1..Len(t) : e[2 + k] = t[k]
    BY <1>5, <1>6, <1>7
  <1> QED
    BY <1>6, <1>8, <1>9 DEF s, t, e

\* JSON.parse refuses a body of one token.
LEMMA ShortBody ==
    ASSUME NEW body \in Seq(Tokens), Len(body) = 1
    PROVE  ~Parses(body)
  BY DEF Parses

\* A whole body parses, unless it is broken.
LEMMA WholeBodyParses ==
    ASSUME NEW kind \in Bodied, NEW body \in Seq(Tokens),
           Len(body) = Len(Body[kind]),
           \A k \in 1..Len(body) : body[k] = Close <=> Body[kind][k] = Close
    PROVE  Parses(body) <=> kind \notin Broken
  <1>1. DOMAIN body = 1..Len(body)
    BY LenProperties
  <1>2. CASE kind \in Plain
    <2>1. Len(body) = 2 /\ body[1] # Close /\ body[2] = Close
      BY <1>2, BodyTokens
    <2> QED
      BY <1>1, <1>2, <2>1, Shapes DEF Parses
  <1>3. CASE kind \in Wide
    <2>1. Len(body) = 3 /\ body[1] # Close /\ body[2] # Close /\ body[3] = Close
      BY <1>3, BodyTokens, TokensDiffer
    <2> QED
      BY <1>1, <1>3, <2>1, Shapes DEF Parses
  <1>4. CASE kind \in Broken
    BY <1>4, BodyTokens, ShortBody
  <1>5. CASE kind \in Quote
    <2>1. /\ Len(body) = 4 /\ body[1] # Close /\ body[2] # Close
          /\ body[3] # Close /\ body[4] = Close
      BY <1>5, BodyTokens, TokensDiffer
    <2> QED
      BY <1>1, <1>5, <2>1, Shapes DEF Parses
  <1>6. CASE kind \in Again
    <2>1. /\ Len(body) = 4 /\ body[1] # Close /\ body[2] # Close
          /\ body[3] # Close /\ body[4] = Close
      BY <1>6, BodyTokens, TokensDiffer
    <2> QED
      BY <1>1, <1>6, <2>1, Shapes DEF Parses
  <1> QED
    BY <1>2, <1>3, <1>4, <1>5, <1>6, Shapes

-----------------------------------------------------------------------------
(* Types.                                                                   *)

LEMMA KindsBodied == Kinds \subseteq Bodied
  BY ConstantsAssumption DEF Bodied

LEMMA EncodedLength ==
    ASSUME NEW kind \in Bodied
    PROVE  Len(Encoded(kind)) \in Nat /\ 3 <= Len(Encoded(kind)) /\ Len(Encoded(kind)) <= 6
  <1>1. Len(Body[kind]) \in Nat /\ 1 <= Len(Body[kind]) /\ Len(Body[kind]) <= 4
    BY BodyTokens
  <1>2. Len(Encoded(kind)) = Len(Body[kind]) + 2
    BY EncodedTokens
  <1> QED
    BY <1>1, <1>2

LEMMA DecodedTokens ==
    ASSUME NEW c \in Seq(Tokens)
    PROVE  /\ Decoded(c) \in Seq(Tokens)
           /\ Len(Decoded(c)) = Len(c)
           /\ \A i \in 1..Len(c) : Decoded(c)[i] =
                 IF (i = Len(c) /\ c[i] = HalfA) \/ (i = 1 /\ c[i] = HalfB)
                 THEN Replacement ELSE c[i]
  <1>1. Replacement \in Tokens
    BY TokensAll
  <1>2. DOMAIN c = 1..Len(c) /\ Len(c) \in Nat /\ \A i \in 1..Len(c) : c[i] \in Tokens
    BY LenProperties
  <1> DEFINE Half(i) == (i = Len(c) /\ c[i] = HalfA) \/ (i = 1 /\ c[i] = HalfB)
             d == [i \in 1..Len(c) |-> IF Half(i) THEN Replacement ELSE c[i]]
  <1>3. Decoded(c) = d
    BY <1>2 DEF Decoded
  <1>4. \A i \in 1..Len(c) : d[i] = IF Half(i) THEN Replacement ELSE c[i]
    OBVIOUS
  <1> HIDE DEF Half
  <1>5. d \in [1..Len(c) -> Tokens]
    BY <1>1, <1>2
  <1> HIDE DEF d
  <1>6. d \in Seq(Tokens) /\ Len(d) = Len(c)
    BY <1>2, <1>5
  <1> QED
    BY <1>3, <1>4, <1>6 DEF Half

\* A set of numbers that is not empty has a smallest one.
LEMMA SmallestOf ==
    ASSUME NEW T, T \subseteq Nat, T # {}
    PROVE  /\ Min(T) \in T
           /\ \A x \in T : Min(T) <= x
  <1>1. IsWellFoundedOn(OpToRel(<, Nat), Nat)
    BY NatLessThanWellFounded
  <1>2. PICK m \in T : \A y \in T : ~ (<<y, m>> \in OpToRel(<, Nat))
    BY <1>1, WFMin
  <1>3. \A x, y \in Nat : <<x, y>> \in OpToRel(<, Nat) <=> x < y
    BY DEF OpToRel
  <1>4. \A y \in T : ~ (y < m) /\ y \in Nat /\ m \in Nat
    BY <1>2, <1>3
  <1>5. \A y \in T : m <= y
    BY <1>4
  <1> QED
    BY <1>2, <1>5 DEF Min

\* IndexOf finds the first of the places, or none.
LEMMA IndexOfFirst ==
    ASSUME NEW seq \in Seq(Tokens), NEW ids, NEW from \in Nat
    PROVE  LET at == IndexOf(seq, ids, from)
           IN  /\ at \in Nat
               /\ \/ at = Len(seq) + 1 /\ Positions(seq, ids, from) = {}
                  \/ /\ from <= at /\ at < Len(seq) /\ <<seq[at], seq[at + 1]>> \in ids
                     /\ \A i \in Positions(seq, ids, from) : at <= i
  <1> DEFINE P == Positions(seq, ids, from)
             n == Len(seq)
             T == P \cup {n + 1}
             at == IndexOf(seq, ids, from)
  <1>1. n \in Nat
    BY LenProperties
  <1>2. at = Min(T)
    BY DEF IndexOf
  <1>3. \A i \in P : i \in Nat /\ from <= i /\ i < n /\ <<seq[i], seq[i + 1]>> \in ids
    BY <1>1 DEF Positions
  <1> HIDE DEF P, n, at
  <1>4. T \subseteq Nat /\ T # {}
    <2>1. P \subseteq Nat
      BY <1>3
    <2>2. n + 1 \in Nat
      BY <1>1
    <2> QED
      BY <2>1, <2>2
  <1>5. at \in T /\ \A x \in T : at <= x
    <2> HIDE DEF T
    <2> QED
      BY <1>2, <1>4, SmallestOf
  <1>6. at \in Nat
    BY <1>4, <1>5
  <1>7. CASE P = {}
    BY <1>5, <1>6, <1>7 DEF P, n, at
  <1>8. CASE P # {}
    <2>1. PICK x \in P : TRUE
      BY <1>8
    <2>2. at <= x /\ x < n /\ x \in Nat
      BY <1>3, <1>5, <2>1
    <2>3. at # n + 1
      BY <1>1, <1>6, <2>2
    <2>4. at \in P
      BY <1>5, <2>3
    <2>5. \A i \in P : at <= i
      BY <1>5
    <2>6. from <= at /\ at < n /\ <<seq[at], seq[at + 1]>> \in ids
      BY <1>3, <2>4
    <2> QED
      BY <1>6, <2>5, <2>6 DEF P, n, at
  <1> QED
    BY <1>7, <1>8

\* The message a turn finds: where it stands, where the next one does, its body.
LEMMA FoundMessage ==
    ASSUME TypeOK, loop # 0, MessageStart <= Len(buffer)
    PROVE  LET s == MessageStart
               n == FindNextMessageStart(s)
           IN  /\ s \in Nat /\ 1 <= s /\ s < Len(buffer)
               /\ <<buffer[s], buffer[s + 1]>> = ProcessBufferedData[loop]
               /\ \A i \in Positions(buffer, {ProcessBufferedData[loop]}, 1) : s <= i
               /\ n \in Nat /\ s + 2 <= n /\ n <= Len(buffer) + 1
               /\ \A i \in Positions(buffer, {TOOL, TOLY}, s + 2) : n <= i
               /\ n <= Len(buffer) =>
                     n < Len(buffer) /\ <<buffer[n], buffer[n + 1]>> \in {TOOL, TOLY}
               /\ MessageContent \in Seq(Tokens)
               /\ Len(MessageContent) = n - s - 2
               /\ \A k \in 1..(n - s - 2) : MessageContent[k] = buffer[s + 1 + k]
  <1> DEFINE id == ProcessBufferedData[loop]
             s == MessageStart
             n == FindNextMessageStart(s)
             l == Len(buffer)
  <1>1. buffer \in Seq(Tokens) /\ l \in Nat
    BY LenProperties DEF TypeOK
  <1>2. s = IndexOf(buffer, {id}, 1) /\ n = IndexOf(buffer, {TOOL, TOLY}, s + 2)
    BY DEF MessageStart, FindNextMessageStart, IDENTIFIER_LENGTH
  <1>3. s <= l
    OBVIOUS
  <1> HIDE DEF id, s, n
  <1>4. /\ s \in Nat /\ 1 <= s /\ s < l
        /\ <<buffer[s], buffer[s + 1]>> \in {id}
        /\ \A i \in Positions(buffer, {id}, 1) : s <= i
    <2>1. /\ s \in Nat
          /\ \/ s = l + 1
             \/ /\ 1 <= s /\ s < l /\ <<buffer[s], buffer[s + 1]>> \in {id}
                /\ \A i \in Positions(buffer, {id}, 1) : s <= i
      BY <1>1, <1>2, IndexOfFirst
    <2> HIDE DEF l
    <2>2. s # l + 1
      BY <1>1, <1>3, <2>1
    <2> QED
      BY <2>1, <2>2
  <1>5. /\ n \in Nat
        /\ \/ n = l + 1 /\ Positions(buffer, {TOOL, TOLY}, s + 2) = {}
           \/ /\ s + 2 <= n /\ n < l /\ <<buffer[n], buffer[n + 1]>> \in {TOOL, TOLY}
              /\ \A i \in Positions(buffer, {TOOL, TOLY}, s + 2) : n <= i
    <2>1. s + 2 \in Nat
      BY <1>4
    <2> QED
      BY <1>1, <1>2, <2>1, IndexOfFirst
  <1>6. s + 2 <= n /\ n <= l + 1
    BY <1>1, <1>4, <1>5
  <1>7. \A i \in Positions(buffer, {TOOL, TOLY}, s + 2) : n <= i
    BY <1>5
  <1>8. n <= l => n < l /\ <<buffer[n], buffer[n + 1]>> \in {TOOL, TOLY}
    BY <1>1, <1>5
  <1>9. /\ MessageContent \in Seq(Tokens)
        /\ Len(MessageContent) = n - s - 2
        /\ \A k \in 1..(n - s - 2) : MessageContent[k] = buffer[s + 1 + k]
    <2> DEFINE a == s + 2
               b == n - 1
    <2>1. MessageContent = SubSeq(buffer, a, b)
      BY DEF MessageContent, IDENTIFIER_LENGTH, s, n
    <2>2. a \in Nat /\ b \in Nat /\ 1 <= a /\ a <= b + 1 /\ b <= Len(buffer)
      BY <1>1, <1>4, <1>5, <1>6
    <2>3. b - a + 1 = n - s - 2 /\ \A k \in Int : a + k - 1 = s + 1 + k
      BY <1>4, <1>5
    <2> HIDE DEF a, b
    <2>4. /\ SubSeq(buffer, a, b) \in Seq(Tokens)
          /\ Len(SubSeq(buffer, a, b)) = b - a + 1
          /\ \A i \in 1..(b - a + 1) : SubSeq(buffer, a, b)[i] = buffer[a + i - 1]
      BY <1>1, <2>2, CutOut
    <2>5. \A k \in 1..(n - s - 2) : SubSeq(buffer, a, b)[k] = buffer[s + 1 + k]
      <3>1. \A k \in 1..(n - s - 2) : SubSeq(buffer, a, b)[k] = buffer[a + k - 1]
        BY <2>3, <2>4, Zenon
      <3>2. \A k \in 1..(n - s - 2) : a + k - 1 = s + 1 + k
        BY <2>3
      <3> QED
        BY <3>1, <3>2, Zenon
    <2> QED
      BY <2>1, <2>3, <2>4, <2>5, Zenon
  <1> QED
    BY <1>4, <1>5, <1>6, <1>7, <1>8, <1>9 DEF id, s, n

LEMMA TypeInit == Init => TypeOK
  <1> SUFFICES ASSUME Init
               PROVE  TypeOK
    OBVIOUS
  <1>1. stream \in Seq([kind : Kinds, at : Nat])
    BY DEF Init
  <1>2. text \in Seq(Tokens) /\ buffer \in Seq(Tokens) /\ Len(text) = 0
    BY DEF Init
  <1>3. tools \in Seq(Seq(Tokens)) /\ content \in Seq(Seq(Tokens))
    BY DEF Init
  <1>4. pos \in 0..Len(text) /\ loop \in 0..2
    BY <1>2 DEF Init
  <1>5. /\ status \in {"open", "ended", "complete", "error"}
        /\ coalesced \in BOOLEAN /\ split \in BOOLEAN
    BY DEF Init
  <1> QED
    BY <1>1, <1>2, <1>3, <1>4, <1>5 DEF TypeOK

LEMMA TypeSend ==
    ASSUME TypeOK, Send
    PROVE  TypeOK'
  <1>1. PICK kind \in Kinds :
          /\ stream' = Append(stream, [kind |-> kind, at |-> Len(text)])
          /\ text' = text \o Encoded(kind)
    BY DEF Send
  <1>2. kind \in Bodied
    BY KindsBodied
  <1>3. text \in Seq(Tokens) /\ Encoded(kind) \in Seq(Tokens)
    BY <1>2, EncodedTokens DEF TypeOK
  <1>4. /\ text' \in Seq(Tokens) /\ Len(text') = Len(text) + Len(Encoded(kind))
        /\ Len(text) \in Nat /\ Len(Encoded(kind)) \in Nat
    BY <1>1, <1>3, Joined, LenProperties
  <1>5. [kind |-> kind, at |-> Len(text)] \in [kind : Kinds, at : Nat]
    BY <1>4
  <1>6. stream' \in Seq([kind : Kinds, at : Nat])
    BY <1>1, <1>5 DEF TypeOK
  <1>7. pos' \in 0..Len(text')
    BY <1>4 DEF TypeOK, Send
  <1>8. UNCHANGED <<buffer, tools, content, status, loop, coalesced, split>>
    BY DEF Send, history
  <1> QED
    BY <1>4, <1>6, <1>7, <1>8 DEF TypeOK

LEMMA TypeData ==
    ASSUME TypeOK, Data
    PROVE  TypeOK'
  <1>1. PICK to \in (pos + 1)..Len(text) :
          /\ pos' = to
          /\ buffer' = buffer \o Decoded(SubSeq(text, pos + 1, to))
          /\ coalesced' \in BOOLEAN
          /\ split' \in BOOLEAN
    BY DEF Data, TypeOK
  <1>2. Len(text) \in Nat /\ text \in Seq(Tokens) /\ pos \in Nat
    BY LenProperties DEF TypeOK
  <1>3. SubSeq(text, pos + 1, to) \in Seq(Tokens)
    BY <1>1, <1>2, CutOut
  <1>4. buffer' \in Seq(Tokens)
    BY <1>1, <1>3, DecodedTokens, Joined DEF TypeOK
  <1>5. pos' \in 0..Len(text')
    BY <1>1, <1>2 DEF Data
  <1>6. loop' \in 0..2
    BY DEF Data
  <1>7. UNCHANGED <<stream, text, tools, content, status>>
    BY DEF Data
  <1>8. /\ stream' \in Seq([kind : Kinds, at : Nat]) /\ text' \in Seq(Tokens)
        /\ tools' \in Seq(Seq(Tokens)) /\ content' \in Seq(Seq(Tokens))
        /\ status' \in {"open", "ended", "complete", "error"}
    BY <1>7 DEF TypeOK
  <1> QED
    BY <1>1, <1>4, <1>5, <1>6, <1>8 DEF TypeOK

LEMMA TypeTurn ==
    ASSUME TypeOK, ProcessMessages
    PROVE  TypeOK'
  <1>1. loop # 0 /\ MessageStart <= Len(buffer)
    BY DEF ProcessMessages
  <1>2. MessageContent \in Seq(Tokens)
    BY <1>1, FoundMessage
  <1>3. tools' \in Seq(Seq(Tokens)) /\ content' \in Seq(Seq(Tokens))
    <2> DEFINE body == MessageContent
    <2>1. /\ tools' = tools \/ tools' = Append(tools, body)
          /\ content' = content \/ content' = Append(content, body)
      BY DEF ProcessMessages, Process, ProcessToolMessage, ProcessTolyMessage
    <2>2. /\ tools \in Seq(Seq(Tokens)) /\ content \in Seq(Seq(Tokens))
          /\ body \in Seq(Tokens)
      BY <1>2 DEF TypeOK
    <2> HIDE DEF body
    <2>3. Append(tools, body) \in Seq(Seq(Tokens)) /\ Append(content, body) \in Seq(Seq(Tokens))
      BY <2>2
    <2> QED
      BY <2>1, <2>2, <2>3
  <1>4. buffer' \in Seq(Tokens)
    <2> DEFINE n == FindNextMessageStart(MessageStart)
    <2>1. n \in Nat /\ 1 <= n /\ n <= Len(buffer) + 1 /\ Len(buffer) \in Nat
      BY <1>1, FoundMessage, LenProperties DEF TypeOK
    <2>2. buffer' = SubSeq(buffer, n, Len(buffer))
      BY DEF ProcessMessages
    <2> HIDE DEF n
    <2> QED
      BY <2>1, <2>2, CutOut DEF TypeOK
  <1>5. UNCHANGED <<stream, text, pos, status, loop, coalesced, split>>
    BY DEF ProcessMessages, history
  <1> QED
    BY <1>3, <1>4, <1>5 DEF TypeOK

LEMMA TypeNext == TypeOK /\ [Next]_vars => TypeOK'
  <1> SUFFICES ASSUME TypeOK, [Next]_vars
               PROVE  TypeOK'
    OBVIOUS
  <1>1. CASE Send
    BY <1>1, TypeSend
  <1>2. CASE Data
    BY <1>2, TypeData
  <1>3. CASE End \/ Error
    BY <1>3 DEF End, Error, TypeOK, history
  <1>4. CASE ProcessMessages
    BY <1>4, TypeTurn
  <1>5. CASE LeaveLoop
    <2>1. Len(ProcessBufferedData) = 2
      BY DEF ProcessBufferedData
    <2> QED
      BY <1>5, <2>1 DEF LeaveLoop, TypeOK, history
  <1>6. CASE UNCHANGED vars
    BY <1>6 DEF vars, history, TypeOK
  <1> QED
    BY <1>1, <1>2, <1>3, <1>4, <1>5, <1>6 DEF Next

\* Every variable of the stream keeps its type: all that is relayed is made of
\* tokens that have been sent, or stands for one that was cut.
THEOREM TypeCorrect == Spec => []TypeOK
  BY TypeInit, TypeNext, PTL DEF Spec

-----------------------------------------------------------------------------
(* The text of the agent is laid out in messages.                           *)

KindOf(m) == stream[m].kind
TextStart(m) == stream[m].at
TextEnd(m) == TextStart(m) + Len(Encoded(KindOf(m)))

Layout ==
    /\ \A m \in 1..Len(stream) :
          /\ TextEnd(m) <= Len(text)
          /\ m = Len(stream) => TextEnd(m) = Len(text)
          /\ m < Len(stream) => TextStart(m + 1) = TextEnd(m)
          /\ \A k \in 1..Len(Encoded(KindOf(m))) :
                text[TextStart(m) + k] = Encoded(KindOf(m))[k]
    /\ \A l, m \in 1..Len(stream) : l < m => TextEnd(l) <= TextStart(m)
    /\ \A p \in 1..Len(text) : \E m \in 1..Len(stream) : TextStart(m) < p /\ p <= TextEnd(m)

\* The types of what a message is found by.
LEMMA MessageTypes ==
    ASSUME TypeOK, NEW m \in 1..Len(stream)
    PROVE  /\ TextStart(m) \in Nat /\ KindOf(m) \in Bodied /\ KindOf(m) \in Kinds
           /\ TextEnd(m) \in Nat
           /\ TextStart(m) + 3 <= TextEnd(m) /\ TextEnd(m) <= TextStart(m) + 6
           /\ TextEnd(m) = TextStart(m) + 2 + Len(Body[KindOf(m)])
  <1>1. stream[m] \in [kind : Kinds, at : Nat]
    <2> DEFINE T == [kind : Kinds, at : Nat]
    <2>1. stream \in Seq(T)
      BY DEF TypeOK
    <2> HIDE DEF T
    <2>2. stream[m] \in T
      BY <2>1, ElementOfSeq
    <2> QED
      BY <2>2 DEF T
  <1>2. TextStart(m) \in Nat /\ KindOf(m) \in Kinds
    BY <1>1 DEF TextStart, KindOf
  <1>3. KindOf(m) \in Bodied
    BY <1>2, KindsBodied
  <1> DEFINE b == Len(Body[KindOf(m)])
             e == Len(Encoded(KindOf(m)))
             a == TextStart(m)
  <1>4. b \in Nat /\ 1 <= b /\ b <= 4 /\ e = b + 2
    BY <1>3, BodyTokens, EncodedTokens
  <1>5. TextEnd(m) = a + e
    BY DEF TextEnd
  <1> HIDE DEF a, b, e
  <1>6. a \in Nat
    BY <1>2 DEF a
  <1>7. /\ TextEnd(m) \in Nat /\ a + 3 <= TextEnd(m) /\ TextEnd(m) <= a + 6
        /\ TextEnd(m) = a + 2 + b
    BY <1>4, <1>5, <1>6
  <1> QED
    BY <1>2, <1>3, <1>7 DEF a, b

LEMMA LengthTypes ==
    ASSUME TypeOK
    PROVE  /\ Len(stream) \in Nat /\ Len(text) \in Nat /\ Len(buffer) \in Nat
           /\ DOMAIN stream = 1..Len(stream) /\ DOMAIN buffer = 1..Len(buffer)
           /\ pos \in Nat /\ pos <= Len(text)
  BY LenProperties DEF TypeOK

LEMMA LayoutSend ==
    ASSUME TypeOK, Layout, Send
    PROVE  Layout'
  <1>1. PICK kind \in Kinds :
          /\ stream' = Append(stream, [kind |-> kind, at |-> Len(text)])
          /\ text' = text \o Encoded(kind)
    BY DEF Send
  <1>2. kind \in Bodied
    BY KindsBodied
  <1>0. PICK S \in Nat, N \in Nat, e \in Nat :
          S = Len(stream) /\ N = Len(text) /\ e = Len(Encoded(kind))
    BY <1>2, LengthTypes, EncodedLength
  <1>3. S \in Nat /\ N \in Nat
    OBVIOUS
  <1>4. e \in Nat /\ 3 <= e
    BY <1>0, <1>2, EncodedLength
  <1>5. /\ Len(text') = N + e
        /\ \A p \in 1..N : text'[p] = text[p]
        /\ \A k \in 1..e : text'[N + k] = Encoded(kind)[k]
    BY <1>0, <1>1, <1>2, EncodedTokens, Joined, Zenon DEF TypeOK
  <1>6. /\ Len(stream') = S + 1
        /\ \A m \in 1..S : stream'[m] = stream[m]
        /\ stream'[S + 1] = [kind |-> kind, at |-> N]
    <2> DEFINE r == [kind |-> kind, at |-> N]
               T == [kind : Kinds, at : Nat]
    <2>1. r \in T /\ stream \in Seq(T)
      BY <1>3 DEF TypeOK
    <2>2. stream' = Append(stream, r)
      BY <1>0, <1>1
    <2> HIDE DEF r, T
    <2>3. /\ Len(Append(stream, r)) = Len(stream) + 1
          /\ \A m \in 1..Len(stream) : Append(stream, r)[m] = stream[m]
          /\ Append(stream, r)[Len(stream) + 1] = r
      BY <2>1
    <2> QED
      BY <1>0, <2>2, <2>3 DEF r
  <1>7. ASSUME NEW m \in 1..S
        PROVE  /\ TextStart(m)' = TextStart(m) /\ KindOf(m)' = KindOf(m)
               /\ TextEnd(m)' = TextEnd(m)
    BY <1>6 DEF TextStart, KindOf, TextEnd
  <1>8. /\ TextStart(S + 1)' = N /\ KindOf(S + 1)' = kind
        /\ TextEnd(S + 1)' = N + e
    BY <1>0, <1>6 DEF TextStart, KindOf, TextEnd
  <1>9. ASSUME NEW m \in 1..S
        PROVE  /\ TextEnd(m) \in Nat /\ TextStart(m) \in Nat /\ TextEnd(m) <= N
               /\ m = S => TextEnd(m) = N
               /\ m < S => TextStart(m + 1) = TextEnd(m)
               /\ \A k \in 1..Len(Encoded(KindOf(m))) :
                     text[TextStart(m) + k] = Encoded(KindOf(m))[k]
    BY <1>0, MessageTypes DEF Layout
  <1>10. ASSUME NEW m \in 1..(S + 1)
         PROVE  /\ TextEnd(m)' <= N + e
                /\ m = S + 1 => TextEnd(m)' = N + e
                /\ m < S + 1 => TextStart(m + 1)' = TextEnd(m)'
    <2>1. CASE m = S + 1
      BY <1>3, <1>4, <1>8, <2>1
    <2>2. CASE m = S /\ m \in 1..S
      BY <1>3, <1>4, <1>7, <1>8, <1>9, <2>2
    <2>3. CASE m \in 1..S /\ m + 1 \in 1..S
      <3>1. TextEnd(m)' = TextEnd(m) /\ TextStart(m + 1)' = TextStart(m + 1)
        BY <1>7, <2>3
      <3>2. TextEnd(m) \in Nat /\ TextEnd(m) <= N /\ TextStart(m + 1) = TextEnd(m)
        BY <1>3, <1>9, <2>3
      <3> QED
        BY <1>3, <1>4, <2>3, <3>1, <3>2
    <2> QED
      BY <1>3, <2>1, <2>2, <2>3
  <1>11. ASSUME NEW m \in 1..(S + 1), NEW k \in 1..Len(Encoded(KindOf(m)'))
         PROVE  text'[TextStart(m)' + k] = Encoded(KindOf(m)')[k]
    <2>1. CASE m = S + 1
      BY <1>0, <1>5, <1>8, <2>1
    <2>2. CASE m \in 1..S
      <3>1. k \in 1..Len(Encoded(KindOf(m))) /\ Encoded(KindOf(m)')[k] = Encoded(KindOf(m))[k]
        BY <1>7, <2>2
      <3>2. TextStart(m) + k \in 1..N
        <4> DEFINE d == Len(Encoded(KindOf(m)))
                   a == TextStart(m)
        <4>1. d \in Nat /\ TextEnd(m) = a + d
          BY <1>0, <2>2, MessageTypes, EncodedLength DEF TextEnd
        <4>2. k \in 1..d /\ a \in Nat /\ TextEnd(m) <= N
          BY <3>1, <1>9, <2>2
        <4> HIDE DEF a, d
        <4>3. a + k \in 1..N
          BY <1>3, <4>1, <4>2
        <4> QED
          BY <4>3 DEF a
      <3>3. text'[TextStart(m) + k] = text[TextStart(m) + k]
        BY <1>5, <3>2
      <3> QED
        BY <1>7, <1>9, <2>2, <3>1, <3>3
    <2> QED
      BY <1>3, <2>1, <2>2
  <1>12. ASSUME NEW l \in 1..(S + 1), NEW m \in 1..(S + 1), l < m
         PROVE  TextEnd(l)' <= TextStart(m)'
    <2>1. l \in 1..S
      BY <1>3, <1>12
    <2>2. CASE m = S + 1
      BY <1>7, <1>8, <1>9, <2>1, <2>2
    <2>3. CASE m \in 1..S
      BY <1>0, <1>7, <1>12, <2>1, <2>3 DEF Layout
    <2> QED
      BY <1>3, <2>2, <2>3
  <1>13. ASSUME NEW p \in 1..(N + e)
         PROVE  \E m \in 1..(S + 1) : TextStart(m)' < p /\ p <= TextEnd(m)'
    <2>1. CASE p \in 1..N
      <3>1. PICK m \in 1..S : TextStart(m) < p /\ p <= TextEnd(m)
        BY <1>0, <2>1 DEF Layout
      <3>2. m \in 1..(S + 1)
        BY <1>3
      <3> QED
        BY <1>7, <3>1, <3>2
    <2>2. CASE p > N
      <3>1. S + 1 \in 1..(S + 1)
        BY <1>3
      <3>2. TextStart(S + 1)' < p /\ p <= TextEnd(S + 1)'
        BY <1>3, <1>4, <1>8, <2>2
      <3> QED
        BY <3>1, <3>2
    <2> QED
      BY <1>3, <1>4, <2>1, <2>2
  <1>14. Len(stream)' = S + 1 /\ Len(text)' = N + e
    BY <1>0, <1>5, <1>6
  <1> QED
    BY <1>10, <1>11, <1>12, <1>13, <1>14 DEF Layout

LEMMA LayoutKept ==
    ASSUME Layout, UNCHANGED <<stream, text>>
    PROVE  Layout'
  BY DEF Layout, TextEnd, TextStart, KindOf

\* What stands where a message stands.
LEMMA MessageTokens ==
    ASSUME TypeOK, Layout, NEW m \in 1..Len(stream)
    PROVE  /\ TextEnd(m) <= Len(text)
           /\ text[TextStart(m) + 1] = Identifier(KindOf(m))[1]
           /\ text[TextStart(m) + 2] = Identifier(KindOf(m))[2]
           /\ \A k \in 1..Len(Body[KindOf(m)]) :
                 text[TextStart(m) + 2 + k] = Body[KindOf(m)][k]
           /\ m = Len(stream) => TextEnd(m) = Len(text)
           /\ m < Len(stream) => m + 1 \in 1..Len(stream) /\ TextStart(m + 1) = TextEnd(m)
  <1>1. PICK a \in Nat, b \in Nat, e \in Nat :
          /\ a = TextStart(m) /\ b = Len(Body[KindOf(m)]) /\ e = Len(Encoded(KindOf(m)))
          /\ 1 <= b /\ e = b + 2
    BY MessageTypes, BodyLength, EncodedTokens, EncodedLength
  <1>2. \A k \in 1..e : text[a + k] = Encoded(KindOf(m))[k]
    BY <1>1 DEF Layout
  <1>3. /\ Encoded(KindOf(m))[1] = Identifier(KindOf(m))[1]
        /\ Encoded(KindOf(m))[2] = Identifier(KindOf(m))[2]
        /\ \A k \in 1..b : Encoded(KindOf(m))[2 + k] = Body[KindOf(m)][k]
    BY <1>1, MessageTypes, EncodedTokens
  <1>4. text[a + 1] = Identifier(KindOf(m))[1] /\ text[a + 2] = Identifier(KindOf(m))[2]
    <2>1. 1 \in 1..e /\ 2 \in 1..e
      BY <1>1
    <2> QED
      BY <1>2, <1>3, <2>1
  <1>5. ASSUME NEW k \in 1..b
        PROVE  text[a + 2 + k] = Body[KindOf(m)][k]
    <2>1. 2 + k \in 1..e /\ a + (2 + k) = a + 2 + k
      BY <1>1
    <2>2. text[a + (2 + k)] = Encoded(KindOf(m))[2 + k]
      BY <1>2, <2>1
    <2> QED
      BY <1>3, <2>1, <2>2
  <1>6. /\ TextEnd(m) <= Len(text)
        /\ m = Len(stream) => TextEnd(m) = Len(text)
        /\ m < Len(stream) => m + 1 \in 1..Len(stream) /\ TextStart(m + 1) = TextEnd(m)
    <2>1. /\ TextEnd(m) <= Len(text)
          /\ m = Len(stream) => TextEnd(m) = Len(text)
          /\ m < Len(stream) => TextStart(m + 1) = TextEnd(m)
      BY DEF Layout
    <2>2. PICK S \in Nat : S = Len(stream)
      BY LengthTypes
    <2>3. m < S => m + 1 \in 1..S
      BY <2>2
    <2> QED
      BY <2>1, <2>2, <2>3
  <1> QED
    BY <1>1, <1>4, <1>5, <1>6

LEMMA Pairs ==
    ASSUME NEW a, NEW b
    PROVE  /\ <<a, b>> = TOOL <=> a = TOOL[1] /\ b = TOOL[2]
           /\ <<a, b>> = TOLY <=> a = TOLY[1] /\ b = TOLY[2]
           /\ TOOL # TOLY
  BY DEF TOOL, TOLY

LEMMA IdentifierPairs ==
    ASSUME NEW kind
    PROVE  /\ Identifier(kind) \in {TOOL, TOLY}
           /\ Identifier(kind) = TOOL <=> kind \in ToolKinds
           /\ \A a, b : <<a, b>> = Identifier(kind) <=>
                            a = Identifier(kind)[1] /\ b = Identifier(kind)[2]
  BY Pairs DEF Identifier

\* An identifier stands where a message begins, and where one is quoted.
LEMMA IdentifierPlaces ==
    ASSUME TypeOK, Layout, NEW p \in Nat, 1 <= p, p <= Len(text),
           text[p] \in {TOOL[1], TOLY[1]}
    PROVE  \E m \in 1..Len(stream) :
              \/ /\ p = TextStart(m) + 1 /\ p < TextEnd(m)
                 /\ <<text[p], text[p + 1]>> = Identifier(KindOf(m))
              \/ /\ KindOf(m) \in Quote /\ p = TextStart(m) + 4 /\ p < TextEnd(m)
  <1>1. PICK m \in 1..Len(stream) : TextStart(m) < p /\ p <= TextEnd(m)
    <2>1. p \in 1..Len(text)
      BY LengthTypes
    <2> QED
      BY <2>1 DEF Layout
  <1>2. PICK a \in Nat, b \in Nat, k \in Nat :
          /\ a = TextStart(m) /\ b = Len(Body[KindOf(m)]) /\ p = a + k
          /\ 1 <= k /\ k <= b + 2 /\ 1 <= b /\ TextEnd(m) = a + 2 + b
    <2>1. PICK a \in Nat, b \in Nat :
            /\ a = TextStart(m) /\ b = Len(Body[KindOf(m)])
            /\ 1 <= b /\ TextEnd(m) = a + 2 + b
      BY MessageTypes, BodyLength
    <2>2. a < p /\ p <= a + 2 + b
      BY <1>1, <2>1
    <2>3. p - a \in Nat /\ p = a + (p - a) /\ 1 <= p - a /\ p - a <= b + 2
      BY <2>2
    <2> QED
      BY <2>1, <2>3
  <1>3. KindOf(m) \in Bodied
    BY MessageTypes
  <1>4. CASE k = 1
    <2>1. p = a + 1 /\ p + 1 = a + 2 /\ p < TextEnd(m)
      BY <1>2, <1>4
    <2>2. text[p] = Identifier(KindOf(m))[1] /\ text[p + 1] = Identifier(KindOf(m))[2]
      BY <1>2, <2>1, MessageTokens
    <2> QED
      BY <1>2, <2>1, <2>2, IdentifierPairs
  <1>5. CASE k = 2
    <2>1. text[p] = Identifier(KindOf(m))[2]
      BY <1>2, <1>5, MessageTokens
    <2> QED
      BY <2>1, TokensDiffer DEF Identifier
  <1>6. CASE k >= 3
    <2>1. k - 2 \in 1..b /\ p = a + 2 + (k - 2)
      BY <1>2, <1>6
    <2>2. text[p] = Body[KindOf(m)][k - 2]
      BY <1>2, <2>1, MessageTokens
    <2>3. KindOf(m) \in Quote /\ k - 2 = 2
      <3>1. PICK j \in 1..b : j = k - 2
        BY <2>1
      <3>2. j \in 1..Len(Body[KindOf(m)]) /\ Body[KindOf(m)][j] = text[p]
        BY <1>2, <2>2, <3>1
      <3>3. /\ text[p] \notin {TOOL[1], TOOL[2], Replacement}
            /\ text[p] = TOLY[1] => KindOf(m) \in Quote /\ j = 2
        BY <1>3, <3>2, BodyTokens
      <3> QED
        BY <3>1, <3>3
    <2>4. b = 4
      BY <1>2, <1>3, <2>3, BodyTokens
    <2>5. p = a + 4 /\ p < TextEnd(m)
      BY <1>2, <2>3, <2>4
    <2> QED
      BY <1>2, <2>3, <2>5
  <1> QED
    BY <1>2, <1>4, <1>5, <1>6

-----------------------------------------------------------------------------
(* The buffer is the end of what has arrived.                               *)

\* How much of the text has left the buffer, or been dropped from it.
Taken == pos - Len(buffer)

BufferInv ==
    /\ Len(buffer) <= pos
    /\ pos > 0 /\ text[pos] = HalfA => split
    /\ \A k \in 1..Len(buffer) :
          \/ buffer[k] = text[Taken + k]
          \/ split /\ buffer[k] = Replacement /\ text[Taken + k] \in {HalfA, HalfB}

LEMMA TakenType ==
    ASSUME TypeOK, BufferInv
    PROVE  Taken \in Nat /\ Taken <= pos /\ pos = Taken + Len(buffer)
  <1>1. PICK L \in Nat, p \in Nat : L = Len(buffer) /\ p = pos /\ L <= p
    BY LengthTypes DEF BufferInv
  <1>2. Taken = p - L
    BY <1>1 DEF Taken
  <1>3. p - L \in Nat /\ p - L <= p /\ p = (p - L) + L
    BY <1>1
  <1> QED
    BY <1>1, <1>2, <1>3

\* An identifier stands in the buffer where it stands in the text.
LEMMA SamePairs ==
    ASSUME TypeOK, BufferInv, NEW i \in Nat, 1 <= i, i < Len(buffer),
           NEW id \in {TOOL, TOLY}
    PROVE  <<buffer[i], buffer[i + 1]>> = id <=>
               <<text[Taken + i], text[Taken + i + 1]>> = id
  <1>1. i \in 1..Len(buffer) /\ i + 1 \in 1..Len(buffer)
    BY LengthTypes
  <1>2. Taken + (i + 1) = Taken + i + 1
    BY TakenType
  <1>3. ASSUME NEW k \in 1..Len(buffer), NEW t \in {TOOL[1], TOOL[2], TOLY[1], TOLY[2]}
        PROVE  buffer[k] = t <=> text[Taken + k] = t
    <2>1. \/ buffer[k] = text[Taken + k]
          \/ buffer[k] = Replacement /\ text[Taken + k] \in {HalfA, HalfB}
      BY DEF BufferInv
    <2>2. t \notin {HalfA, HalfB, Replacement}
      BY TokensDiffer
    <2> QED
      BY <2>1, <2>2
  <1>4. CASE id = TOOL
    <2>1. /\ buffer[i] = TOOL[1] <=> text[Taken + i] = TOOL[1]
          /\ buffer[i + 1] = TOOL[2] <=> text[Taken + i + 1] = TOOL[2]
      BY <1>1, <1>2, <1>3
    <2> QED
      BY <1>4, <2>1, Pairs
  <1>5. CASE id = TOLY
    <2>1. /\ buffer[i] = TOLY[1] <=> text[Taken + i] = TOLY[1]
          /\ buffer[i + 1] = TOLY[2] <=> text[Taken + i + 1] = TOLY[2]
      BY <1>1, <1>2, <1>3
    <2> QED
      BY <1>5, <2>1, Pairs
  <1> QED
    BY <1>4, <1>5

\* An identifier that has arrived and not left the buffer is found there.
LEMMA PositionOf ==
    ASSUME TypeOK, BufferInv, NEW p \in Nat, NEW id \in {TOOL, TOLY},
           NEW ids, id \in ids, NEW from \in Nat,
           Taken < p, Taken + from <= p, p + 1 <= pos, <<text[p], text[p + 1]>> = id
    PROVE  p - Taken \in Positions(buffer, ids, from)
  <1>1. PICK D \in Nat, L \in Nat : D = Taken /\ L = Len(buffer) /\ pos = D + L
    BY TakenType, LengthTypes
  <1>2. PICK i \in Nat : i = p - D /\ 1 <= i /\ i < L /\ from <= i /\ D + i = p
    <2>1. p - D \in Nat /\ 1 <= p - D /\ p - D < L /\ from <= p - D /\ D + (p - D) = p
      BY <1>1
    <2> QED
      BY <2>1
  <1>3. <<buffer[i], buffer[i + 1]>> = id
    BY <1>1, <1>2, SamePairs
  <1>4. i \in from..(Len(buffer) - 1)
    BY <1>1, <1>2
  <1> QED
    BY <1>1, <1>2, <1>3, <1>4 DEF Positions

\* What a turn takes: a message that is no quotation begins where its identifier
\* is found, and ends before the next identifier, if that has arrived.  In a
\* message that quotes one, less than a message is found.
LEMMA FoundInText ==
    ASSUME TypeOK, Layout, BufferInv, loop # 0, MessageStart <= Len(buffer)
    PROVE  LET p == Taken + MessageStart
               q == Taken + FindNextMessageStart(MessageStart)
           IN  \E m \in 1..Len(stream) :
                  \/ /\ KindOf(m) \notin Quote
                     /\ p = TextStart(m) + 1
                     /\ ProcessBufferedData[loop] = Identifier(KindOf(m))
                     /\ IF TextEnd(m) + 2 <= pos
                        THEN q = TextEnd(m) + 1 ELSE q = pos + 1
                  \/ /\ KindOf(m) \in Quote
                     /\ TextStart(m) < p
                     /\ q <= pos \/ pos = Len(text) => q = p + 3
  <1> DEFINE s0 == MessageStart
             n0 == FindNextMessageStart(MessageStart)
             id == ProcessBufferedData[loop]
  <1>1. PICK D \in Nat, L \in Nat, N \in Nat, S \in Nat, s \in Nat, n \in Nat :
          /\ D = Taken /\ L = Len(buffer) /\ pos = D + L /\ N = Len(text) /\ S = Len(stream)
          /\ s = s0 /\ n = n0 /\ pos <= N
          /\ 1 <= s /\ s < L /\ s + 2 <= n /\ n <= L + 1
    BY TakenType, LengthTypes, FoundMessage
  <1>2. /\ <<buffer[s], buffer[s + 1]>> = id
        /\ \A i \in Positions(buffer, {TOOL, TOLY}, s + 2) : n <= i
        /\ n <= L => n < L /\ <<buffer[n], buffer[n + 1]>> \in {TOOL, TOLY}
    BY <1>1, FoundMessage
  <1>3. id \in {TOOL, TOLY}
    <2>1. loop = 1 \/ loop = 2
      BY DEF TypeOK
    <2> QED
      BY <2>1 DEF ProcessBufferedData
  <1>4. PICK p \in Nat, q \in Nat : p = D + s /\ q = D + n
    <2>1. D + s \in Nat /\ D + n \in Nat
      BY <1>1
    <2> QED
      BY <2>1
  <1>0. SUFFICES \E m \in 1..S :
                    \/ /\ KindOf(m) \notin Quote
                       /\ p = TextStart(m) + 1
                       /\ id = Identifier(KindOf(m))
                       /\ IF TextEnd(m) + 2 <= pos THEN q = TextEnd(m) + 1 ELSE q = pos + 1
                    \/ /\ KindOf(m) \in Quote
                       /\ TextStart(m) < p
                       /\ q <= pos \/ pos = N => q = p + 3
    BY <1>1, <1>4
  <1> HIDE DEF s0, n0, id
  <1>5. p + 1 <= pos /\ p + 2 <= q /\ q <= pos + 1 /\ D < p
    BY <1>1, <1>4
  <1>6. <<text[p], text[p + 1]>> = id
    BY <1>1, <1>2, <1>3, <1>4, SamePairs
  <1>7. q <= pos => q + 1 <= pos /\ <<text[q], text[q + 1]>> \in {TOOL, TOLY}
    <2>1. SUFFICES ASSUME q <= pos
                   PROVE  q + 1 <= pos /\ <<text[q], text[q + 1]>> \in {TOOL, TOLY}
      OBVIOUS
    <2>2. n < L
      BY <1>1, <1>2, <1>4, <2>1
    <2>3. 1 <= n /\ q + 1 <= pos
      BY <1>1, <1>4, <2>2
    <2> QED
      BY <1>1, <1>2, <1>4, <2>2, <2>3, SamePairs
  <1>8. ASSUME NEW r \in Nat, p + 2 <= r, r + 1 <= pos,
               <<text[r], text[r + 1]>> \in {TOOL, TOLY}
        PROVE  q <= r
    <2>1. Taken < r /\ Taken + (s + 2) <= r /\ s + 2 \in Nat
      BY <1>1, <1>4, <1>8
    <2>2. r - Taken \in Positions(buffer, {TOOL, TOLY}, s + 2)
      BY <1>8, <2>1, PositionOf
    <2>3. n <= r - D
      BY <1>1, <1>2, <2>2
    <2> QED
      BY <1>1, <1>4, <1>8, <2>3
  <1>9. ASSUME NEW m \in 1..S, TextEnd(m) + 2 <= pos
        PROVE  /\ <<text[TextEnd(m) + 1], text[TextEnd(m) + 2]>> \in {TOOL, TOLY}
               /\ TextEnd(m) + 1 \in Nat
    <2>1. m < S
      BY <1>1, <1>9, MessageTokens, MessageTypes
    <2>2. m + 1 \in 1..Len(stream) /\ TextStart(m + 1) = TextEnd(m)
      BY <1>1, <2>1, MessageTokens
    <2>3. /\ text[TextEnd(m) + 1] = Identifier(KindOf(m + 1))[1]
          /\ text[TextEnd(m) + 2] = Identifier(KindOf(m + 1))[2]
      BY <2>2, MessageTokens
    <2>4. TextEnd(m) + 1 \in Nat
      BY <1>1, MessageTypes
    <2>5. <<text[TextEnd(m) + 1], text[TextEnd(m) + 2]>> = Identifier(KindOf(m + 1))
      BY <2>3, IdentifierPairs
    <2>6. Identifier(KindOf(m + 1)) \in {TOOL, TOLY}
      BY IdentifierPairs
    <2> QED
      BY <2>4, <2>5, <2>6
  <1>10. PICK m \in 1..S :
            \/ /\ p = TextStart(m) + 1 /\ p < TextEnd(m)
               /\ <<text[p], text[p + 1]>> = Identifier(KindOf(m))
            \/ /\ KindOf(m) \in Quote /\ p = TextStart(m) + 4 /\ p < TextEnd(m)
    <2>1. text[p] \in {TOOL[1], TOLY[1]}
      BY <1>3, <1>6, Pairs
    <2>2. 1 <= p /\ p <= Len(text)
      BY <1>1, <1>5
    <2> QED
      BY <1>1, <2>1, <2>2, IdentifierPlaces
  <1>11. PICK a \in Nat, e \in Nat, b \in Nat :
            /\ a = TextStart(m) /\ e = TextEnd(m) /\ b = Len(Body[KindOf(m)])
            /\ a + 3 <= e /\ e = a + 2 + b /\ e <= N /\ 1 <= b
    BY <1>1, MessageTypes, MessageTokens, BodyTokens
  <1>12. CASE KindOf(m) \notin Quote
    <2>1. p = a + 1 /\ id = Identifier(KindOf(m))
      BY <1>6, <1>10, <1>11, <1>12
    <2>2. q <= pos => e + 1 <= q
      <3>1. SUFFICES ASSUME q <= pos
                     PROVE  e + 1 <= q
        OBVIOUS
      <3>2. PICK l \in 1..S :
              \/ q = TextStart(l) + 1 /\ q < TextEnd(l)
              \/ KindOf(l) \in Quote /\ q = TextStart(l) + 4 /\ q < TextEnd(l)
        <4>1. text[q] \in {TOOL[1], TOLY[1]}
          BY <1>7, <3>1, Pairs
        <4>2. 1 <= q /\ q <= Len(text)
          BY <1>1, <1>5, <3>1
        <4> QED
          BY <1>1, <4>1, <4>2, IdentifierPlaces
      <3>3. l # m
        BY <1>5, <1>11, <1>12, <2>1, <3>2
      <3>4. ~(l < m)
        <4>1. SUFFICES ASSUME l < m PROVE FALSE
          OBVIOUS
        <4>2. TextEnd(l) <= a /\ TextEnd(l) \in Nat
          BY <1>1, <1>11, <4>1, MessageTypes DEF Layout
        <4> QED
          BY <1>5, <2>1, <3>2, <4>2
      <3>5. e <= TextStart(l) /\ TextStart(l) \in Nat
        BY <1>1, <1>11, <3>3, <3>4, MessageTypes DEF Layout
      <3> QED
        BY <3>2, <3>5
    <2>3. CASE e + 2 <= pos
      <3>1. q <= e + 1
        <4>1. p + 2 <= e + 1 /\ e + 1 + 1 = e + 2
          BY <1>11, <2>1
        <4> QED
          BY <1>8, <1>9, <1>11, <2>3, <4>1
      <3>2. q = e + 1
        BY <1>1, <2>2, <2>3, <3>1
      <3> QED
        BY <1>11, <1>12, <2>1, <2>3, <3>2
    <2>4. CASE ~(e + 2 <= pos)
      <3>1. q = pos + 1
        BY <1>1, <1>5, <1>7, <2>2, <2>4
      <3> QED
        BY <1>11, <1>12, <2>1, <2>4, <3>1
    <2> QED
      BY <2>3, <2>4
  <1>13. CASE KindOf(m) \in Quote
    <2>1. /\ b = 4 /\ e = a + 6
          /\ \A k \in 1..4 : text[a + 2 + k] = Body[KindOf(m)][k]
      <3>1. b = 4
        BY <1>1, <1>11, <1>13, MessageTypes, BodyTokens
      <3>2. \A k \in 1..b : text[a + 2 + k] = Body[KindOf(m)][k]
        BY <1>1, <1>11, MessageTokens
      <3> QED
        BY <1>11, <3>1, <3>2
    <2>2. /\ text[a + 3] \notin {TOOL[1], TOLY[1]} /\ text[a + 6] \notin {TOOL[1], TOLY[1]}
          /\ text[a + 4] = TOLY[1] /\ text[a + 5] = TOLY[2]
      <3>1. KindOf(m) \in Bodied
        BY <1>1, MessageTypes
      <3>2. /\ Body[KindOf(m)][1] \notin {TOOL[1], TOLY[1]}
            /\ Body[KindOf(m)][2] = TOLY[1] /\ Body[KindOf(m)][3] = TOLY[2]
            /\ Body[KindOf(m)][4] = Close
        <4>1. 1 \in 1..Len(Body[KindOf(m)])
          BY <1>11, <2>1
        <4> QED
          BY <1>13, <3>1, <4>1, BodyTokens
      <3>3. /\ 1 \in 1..4 /\ 2 \in 1..4 /\ 3 \in 1..4 /\ 4 \in 1..4
            /\ a + 2 + 1 = a + 3 /\ a + 2 + 2 = a + 4 /\ a + 2 + 3 = a + 5
            /\ a + 2 + 4 = a + 6
        OBVIOUS
      <3>4. /\ text[a + 3] = Body[KindOf(m)][1] /\ text[a + 4] = Body[KindOf(m)][2]
            /\ text[a + 5] = Body[KindOf(m)][3] /\ text[a + 6] = Body[KindOf(m)][4]
        BY <2>1, <3>3
      <3> QED
        BY <3>2, <3>4, TokensDiffer
    <2>3. SUFFICES ASSUME q <= pos \/ pos = N
                   PROVE  q = p + 3
      BY <1>10, <1>11, <1>13
    <2>4. q <= pos => text[q] \in {TOOL[1], TOLY[1]}
      BY <1>7, Pairs
    <2>5. CASE p = a + 1
      <3>1. ~(q <= pos /\ q = a + 3)
        BY <2>2, <2>4
      <3>2. a + 5 <= pos
        <4>1. CASE q <= pos
          <5>1. q + 1 <= pos
            BY <1>7, <4>1
          <5> QED
            BY <1>1, <1>5, <2>5, <3>1, <4>1, <5>1
        <4>2. CASE pos = N
          BY <1>11, <2>1, <4>2
        <4> QED
          BY <2>3, <4>1, <4>2
      <3>3. q <= a + 4
        <4>1. p + 2 <= a + 4 /\ a + 4 + 1 = a + 5
          BY <2>5
        <4>2. <<text[a + 4], text[a + 5]>> \in {TOOL, TOLY}
          BY <2>2, Pairs
        <4> QED
          BY <1>8, <3>2, <4>1, <4>2
      <3> QED
        BY <1>1, <1>5, <2>5, <3>1, <3>2, <3>3
    <2>6. CASE p = a + 4
      <3>1. ~(q <= pos /\ q = a + 6)
        BY <2>2, <2>4
      <3>2. CASE e + 2 <= pos
        <4>1. q <= a + 7
          <5>1. p + 2 <= e + 1 /\ e + 1 + 1 = e + 2 /\ e + 1 = a + 7
            BY <2>1, <2>6
          <5> QED
            BY <1>8, <1>9, <1>11, <3>2, <5>1
        <4> QED
          BY <1>1, <1>5, <2>1, <2>6, <3>1, <3>2, <4>1
      <3>3. CASE ~(e + 2 <= pos)
        <4>1. ~(q <= pos)
          BY <1>1, <1>5, <1>7, <2>1, <2>6, <3>1, <3>3
        <4>2. pos = N /\ q = pos + 1
          BY <1>1, <1>5, <2>3, <4>1
        <4>3. e = N
          <5>1. CASE m < S
            <6>1. m + 1 \in 1..S /\ TextStart(m + 1) = e
              BY <1>1, <1>11, <5>1, MessageTokens
            <6>2. e + 3 <= TextEnd(m + 1) /\ TextEnd(m + 1) <= N /\ TextEnd(m + 1) \in Nat
              BY <1>1, <6>1, MessageTypes, MessageTokens
            <6> QED
              BY <1>1, <3>3, <4>2, <6>2
          <5>2. CASE m = S
            BY <1>1, <1>11, <5>2, MessageTokens
          <5> QED
            BY <5>1, <5>2
        <4> QED
          BY <2>1, <2>6, <4>2, <4>3
      <3> QED
        BY <3>2, <3>3
    <2> QED
      BY <1>10, <1>11, <2>5, <2>6
  <1> QED
    BY <1>12, <1>13

\* The second half of a character stands behind the first.
LEMMA HalfBefore ==
    ASSUME TypeOK, Layout, NEW p \in Nat, 1 <= p, p <= Len(text), text[p] = HalfB
    PROVE  p > 1 /\ text[p - 1] = HalfA
  <1>1. PICK m \in 1..Len(stream) : TextStart(m) < p /\ p <= TextEnd(m)
    <2>1. p \in 1..Len(text)
      BY LengthTypes
    <2> QED
      BY <2>1 DEF Layout
  <1>2. PICK a \in Nat, b \in Nat, k \in Nat :
          /\ a = TextStart(m) /\ b = Len(Body[KindOf(m)]) /\ p = a + k
          /\ 1 <= k /\ k <= b + 2
    <2>1. PICK a \in Nat, b \in Nat :
            a = TextStart(m) /\ b = Len(Body[KindOf(m)]) /\ TextEnd(m) = a + 2 + b
      BY MessageTypes, BodyLength
    <2>2. a < p /\ p <= a + 2 + b
      BY <1>1, <2>1
    <2>3. p - a \in Nat /\ p = a + (p - a) /\ 1 <= p - a /\ p - a <= b + 2
      BY <2>2
    <2> QED
      BY <2>1, <2>3
  <1>3. KindOf(m) \in Bodied
    BY MessageTypes
  <1>4. k >= 3
    <2>1. text[a + 1] # HalfB /\ text[a + 2] # HalfB
      BY <1>2, MessageTokens, TokensDiffer DEF Identifier
    <2> QED
      BY <1>2, <2>1
  <1>5. PICK j \in 1..b : j = k - 2 /\ p = a + 2 + j
    BY <1>2, <1>4
  <1>6. text[p] = Body[KindOf(m)][j]
    BY <1>2, <1>5, MessageTokens
  <1>7. j \in 1..Len(Body[KindOf(m)]) /\ Body[KindOf(m)][j] = HalfB
    BY <1>2, <1>5, <1>6
  <1>8. j > 1 /\ Body[KindOf(m)][j - 1] = HalfA
    <2>1. CASE KindOf(m) \in Wide
      <3>1. b = 3 /\ Body[KindOf(m)][1] = HalfA /\ Body[KindOf(m)][3] = Close
        BY <1>2, <1>3, <2>1, BodyTokens
      <3>2. j # 1 /\ j # 3
        BY <1>7, <3>1, TokensDiffer
      <3> QED
        BY <3>1, <3>2
    <2>2. CASE KindOf(m) \in Again
      <3>1. /\ b = 4 /\ Body[KindOf(m)][1] \in Words /\ Body[KindOf(m)][2] = HalfA
            /\ Body[KindOf(m)][4] = Close
        BY <1>2, <1>3, <2>2, BodyTokens
      <3>2. j # 1 /\ j # 2 /\ j # 4
        BY <1>7, <3>1, TokensDiffer
      <3>3. j = 3
        BY <3>1, <3>2
      <3> QED
        BY <3>1, <3>3
    <2> QED
      BY <1>3, <1>7, <2>1, <2>2, BodyTokens
  <1>9. j - 1 \in 1..b /\ p - 1 = a + 2 + (j - 1) /\ p > 1
    BY <1>5, <1>8
  <1>10. PICK i : i = j - 1
    OBVIOUS
  <1>11. text[p - 1] = Body[KindOf(m)][i]
    <2>1. i \in 1..Len(Body[KindOf(m)]) /\ p - 1 = TextStart(m) + 2 + i
      BY <1>2, <1>9, <1>10
    <2> QED
      BY <2>1, MessageTokens
  <1> QED
    BY <1>8, <1>9, <1>10, <1>11

LEMMA BufferSend ==
    ASSUME TypeOK, BufferInv, Send
    PROVE  BufferInv' /\ Taken' = Taken
  <1>1. PICK kind \in Kinds : text' = text \o Encoded(kind)
    BY DEF Send
  <1>2. pos' = pos /\ buffer' = buffer /\ split' = split
    BY DEF Send, history
  <1>3. \A p \in 1..Len(text) : text'[p] = text[p]
    <2>1. kind \in Bodied
      BY KindsBodied
    <2>2. text \in Seq(Tokens) /\ Encoded(kind) \in Seq(Tokens)
      BY <2>1, EncodedTokens DEF TypeOK
    <2> QED
      BY <1>1, <2>2, Joined, Zenon
  <1>4. PICK N \in Nat, L \in Nat, D \in Nat :
          /\ N = Len(text) /\ L = Len(buffer) /\ D = Taken /\ pos = D + L /\ pos <= N
    BY TakenType, LengthTypes
  <1>5. Taken' = Taken
    BY <1>2 DEF Taken
  <1>6. Len(buffer') <= pos'
    BY <1>2 DEF BufferInv
  <1>7. pos' > 0 /\ text'[pos'] = HalfA => split'
    <2>1. pos > 0 => pos \in 1..N
      BY <1>4
    <2> QED
      BY <1>2, <1>3, <1>4, <2>1 DEF BufferInv
  <1>8. ASSUME NEW k \in 1..L
        PROVE  \/ buffer'[k] = text'[Taken' + k]
               \/ split' /\ buffer'[k] = Replacement /\ text'[Taken' + k] \in {HalfA, HalfB}
    <2>1. D + k \in 1..N
      BY <1>4
    <2>2. text'[Taken' + k] = text[Taken + k]
      BY <1>3, <1>4, <1>5, <2>1
    <2>3. \/ buffer[k] = text[Taken + k]
          \/ split /\ buffer[k] = Replacement /\ text[Taken + k] \in {HalfA, HalfB}
      BY <1>4 DEF BufferInv
    <2> QED
      BY <1>2, <2>2, <2>3
  <1> QED
    BY <1>2, <1>4, <1>5, <1>6, <1>7, <1>8 DEF BufferInv

LEMMA BufferData ==
    ASSUME TypeOK, Layout, BufferInv, Data
    PROVE  BufferInv' /\ Taken' = Taken
  <1>1. PICK to \in (pos + 1)..Len(text) :
          /\ pos' = to
          /\ buffer' = buffer \o Decoded(SubSeq(text, pos + 1, to))
          /\ split' = (split \/ text[to] = HalfA)
    BY DEF Data
  <1>2. text' = text
    BY DEF Data
  <1>3. PICK N \in Nat, L \in Nat, D \in Nat, p \in Nat, n \in Nat :
          /\ N = Len(text) /\ L = Len(buffer) /\ D = Taken /\ p = pos /\ p = D + L
          /\ to = p + n /\ 1 <= n /\ p + n <= N
    <2>1. PICK N \in Nat, L \in Nat, D \in Nat, p \in Nat :
          /\ N = Len(text) /\ L = Len(buffer) /\ D = Taken /\ p = pos /\ p = D + L
      BY TakenType, LengthTypes
    <2>2. to - p \in Nat /\ to = p + (to - p) /\ 1 <= to - p /\ p + (to - p) <= N
      BY <2>1
    <2> QED
      BY <2>1, <2>2
  <1> DEFINE c == SubSeq(text, pos + 1, to)
             d == Decoded(c)
  <1>4. /\ c \in Seq(Tokens) /\ Len(c) = n
        /\ \A i \in 1..n : c[i] = text[p + i]
    <2>1. /\ text \in Seq(Tokens) /\ p + 1 \in Nat /\ p + n \in Nat
          /\ 1 <= p + 1 /\ p + 1 <= p + n + 1 /\ p + n <= Len(text)
      BY <1>3 DEF TypeOK
    <2>2. c = SubSeq(text, p + 1, p + n)
      BY <1>3
    <2> HIDE DEF c
    <2>3. /\ c \in Seq(Tokens) /\ Len(c) = (p + n) - (p + 1) + 1
          /\ \A i \in 1..((p + n) - (p + 1) + 1) : c[i] = text[p + 1 + i - 1]
      BY <2>1, <2>2, CutOut
    <2>4. (p + n) - (p + 1) + 1 = n /\ \A i \in 1..n : p + 1 + i - 1 = p + i
      BY <1>3
    <2> QED
      BY <2>3, <2>4
  <1>5. /\ d \in Seq(Tokens) /\ Len(d) = n
        /\ \A i \in 1..n : d[i] =
              IF (i = n /\ c[i] = HalfA) \/ (i = 1 /\ c[i] = HalfB) THEN Replacement ELSE c[i]
    <2> HIDE DEF c
    <2> QED
      BY <1>4, DecodedTokens
  <1>6. /\ buffer' = buffer \o d
        /\ Len(buffer') = L + n
        /\ \A k \in 1..L : buffer'[k] = buffer[k]
        /\ \A i \in 1..n : buffer'[L + i] = d[i]
    <2>1. buffer' = buffer \o d /\ buffer \in Seq(Tokens)
      BY <1>1 DEF TypeOK
    <2> HIDE DEF d
    <2>2. /\ Len(buffer \o d) = Len(buffer) + Len(d)
          /\ \A k \in 1..Len(buffer) : (buffer \o d)[k] = buffer[k]
          /\ \A i \in 1..Len(d) : (buffer \o d)[Len(buffer) + i] = d[i]
      BY <1>5, <2>1, Joined
    <2> QED
      BY <1>3, <1>5, <2>1, <2>2
  <1> HIDE DEF c, d
  <1>7. Taken' = D
    <2>1. Taken' = (p + n) - (L + n)
      BY <1>1, <1>3, <1>6 DEF Taken
    <2> QED
      BY <1>3, <2>1
  <1>8. Len(buffer') <= pos'
    BY <1>1, <1>3, <1>6
  <1>9. pos' > 0 /\ text'[pos'] = HalfA => split'
    BY <1>1, <1>2
  <1>10. ASSUME NEW k \in 1..(L + n)
         PROVE  \/ buffer'[k] = text[D + k]
                \/ split' /\ buffer'[k] = Replacement /\ text[D + k] \in {HalfA, HalfB}
    <2>1. CASE k \in 1..L
      <3>1. buffer'[k] = buffer[k]
        BY <1>6, <2>1
      <3>2. \/ buffer[k] = text[Taken + k]
            \/ split /\ buffer[k] = Replacement /\ text[Taken + k] \in {HalfA, HalfB}
        BY <1>3, <2>1 DEF BufferInv
      <3> QED
        BY <1>1, <1>3, <3>1, <3>2
    <2>2. CASE k > L
      <3>1. PICK i \in 1..n : k = L + i /\ D + k = p + i
        <4>1. k - L \in 1..n /\ k = L + (k - L) /\ D + k = p + (k - L)
          BY <1>3, <2>2
        <4> QED
          BY <4>1
      <3>2. buffer'[k] = d[i] /\ c[i] = text[D + k]
        BY <1>4, <1>6, <3>1
      <3>3. CASE i = n /\ c[i] = HalfA
        <4>1. split' /\ d[i] = Replacement
          BY <1>1, <1>3, <1>5, <3>1, <3>2, <3>3
        <4> QED
          BY <3>2, <3>3, <4>1
      <3>4. CASE i = 1 /\ c[i] = HalfB
        <4>1. d[i] = Replacement
          BY <1>5, <3>4
        <4>2. text[p + 1] = HalfB
          BY <3>1, <3>2, <3>4
        <4>3. p + 1 > 1 /\ text[(p + 1) - 1] = HalfA
          <5>1. p + 1 \in Nat /\ 1 <= p + 1 /\ p + 1 <= Len(text)
            BY <1>3
          <5> QED
            BY <4>2, <5>1, HalfBefore
        <4>4. p > 0 /\ (p + 1) - 1 = p
          BY <1>3, <4>3
        <4>5. split
          BY <1>3, <4>3, <4>4 DEF BufferInv
        <4> QED
          BY <1>1, <3>2, <3>4, <4>1, <4>5
      <3> QED
        BY <1>5, <3>2, <3>3, <3>4
    <2> QED
      BY <1>3, <2>1, <2>2
  <1> QED
    BY <1>2, <1>3, <1>6, <1>7, <1>8, <1>9, <1>10 DEF BufferInv

\* A turn moves Taken to the next identifier.
LEMMA BufferTurn ==
    ASSUME TypeOK, BufferInv, ProcessMessages
    PROVE  BufferInv' /\ Taken' + 1 = Taken + FindNextMessageStart(MessageStart)
                      /\ Taken' \in Nat /\ Taken < Taken'
  <1>1. loop # 0 /\ MessageStart <= Len(buffer)
    BY DEF ProcessMessages
  <1>2. PICK L \in Nat, D \in Nat, p \in Nat, n \in Nat :
          /\ L = Len(buffer) /\ D = Taken /\ p = pos /\ p = D + L
          /\ n = FindNextMessageStart(MessageStart) /\ 3 <= n /\ n <= L + 1
    <2>1. PICK L \in Nat, D \in Nat, p \in Nat, n \in Nat, s \in Nat :
            /\ L = Len(buffer) /\ D = Taken /\ p = pos /\ p = D + L
            /\ n = FindNextMessageStart(MessageStart) /\ s = MessageStart
            /\ 1 <= s /\ s + 2 <= n /\ n <= L + 1
      BY <1>1, FoundMessage, TakenType, LengthTypes
    <2>2. 3 <= n
      BY <2>1
    <2> QED
      BY <2>1, <2>2
  <1>3. UNCHANGED <<text, pos, split>>
    BY DEF ProcessMessages, history
  <1>4. buffer' = SubSeq(buffer, n, L) /\ buffer \in Seq(Tokens)
    BY <1>2 DEF ProcessMessages, TypeOK
  <1>5. /\ Len(buffer') = L - n + 1
        /\ \A k \in 1..(L - n + 1) : buffer'[k] = buffer[n + k - 1]
    BY <1>2, <1>4, CutOut
  <1>6. PICK M \in Nat, E \in Nat :
          /\ M = L - n + 1 /\ M + n = L + 1
          /\ E = p - M /\ E + 1 = D + n /\ D < E /\ M <= p
    <2>1. p = D + L /\ 3 <= n /\ n <= L + 1
      BY <1>2
    <2>2. PICK M \in Nat : M = L - n + 1 /\ M + n = L + 1
      BY <2>1
    <2>3. p - M \in Nat /\ (p - M) + 1 = D + n /\ D < p - M /\ M <= p
      BY <2>1, <2>2
    <2> QED
      BY <2>2, <2>3
  <1>7. Len(buffer') = M /\ Taken' = E
    BY <1>2, <1>3, <1>5, <1>6 DEF Taken
  <1>8. Len(buffer') <= pos'
    BY <1>2, <1>3, <1>6, <1>7
  <1>9. ASSUME NEW k \in 1..M
        PROVE  \/ buffer'[k] = text'[Taken' + k]
               \/ split' /\ buffer'[k] = Replacement /\ text'[Taken' + k] \in {HalfA, HalfB}
    <2>1. n + k - 1 \in 1..L /\ E + k = D + (n + k - 1)
      <3>1. 3 <= n /\ M + n = L + 1 /\ E + 1 = D + n
        BY <1>2, <1>6
      <3> QED
        BY <3>1
    <2>2. buffer'[k] = buffer[n + k - 1]
      BY <1>5, <1>6
    <2>3. \A i \in 1..L : \/ buffer[i] = text[D + i]
                          \/ split /\ buffer[i] = Replacement /\ text[D + i] \in {HalfA, HalfB}
      BY <1>2 DEF BufferInv
    <2> QED
      BY <1>3, <1>7, <2>1, <2>2, <2>3
  <1> QED
    BY <1>2, <1>3, <1>6, <1>7, <1>8, <1>9 DEF BufferInv
LEMMA BufferKept ==
    ASSUME BufferInv, UNCHANGED <<text, pos, buffer, split>>
    PROVE  BufferInv' /\ Taken' = Taken
  BY DEF BufferInv, Taken

-----------------------------------------------------------------------------
(* The status of the subscription.                                          *)

Open == status = "open"
Over == status = "complete"
AtEnd == status = "ended"

\* The end of the stream is processed once all of it has arrived, and before the
\* handler returns.
StatusInv ==
    /\ AtEnd \/ Over => pos = Len(text)
    /\ AtEnd => loop # 0
    /\ loop # 0 => Open \/ AtEnd

LEMMA StatusDiffers ==
    /\ ~(Open /\ AtEnd) /\ ~(Open /\ Over) /\ ~(AtEnd /\ Over)
  BY DEF Open, Over, AtEnd

\* What each action does to the status and to the loop.
LEMMA StatusSteps ==
    /\ Send => Open /\ loop = 0 /\ status' = status /\ loop' = loop
    /\ Data => Open /\ loop = 0 /\ status' = status /\ loop' = 1
    /\ End => Open /\ loop = 0 /\ pos = Len(text) /\ AtEnd' /\ loop' = 1
    /\ Error => Open /\ loop = 0 /\ ~Open' /\ ~AtEnd' /\ ~Over' /\ loop' = loop
    /\ ProcessMessages => loop # 0 /\ status' = status /\ loop' = loop
  BY DEF Send, Data, End, Error, ProcessMessages, Open, AtEnd, Over

LEMMA LeaveSteps ==
    ASSUME TypeOK, LeaveLoop
    PROVE  \/ loop = 1 /\ loop' = 2 /\ status' = status
           \/ loop = 2 /\ loop' = 0 /\ ~AtEnd /\ status' = status
           \/ loop = 2 /\ loop' = 0 /\ AtEnd /\ Over'
  <1>1. Len(ProcessBufferedData) = 2
    BY DEF ProcessBufferedData
  <1>2. loop \in 0..2 /\ loop # 0
    BY DEF TypeOK, LeaveLoop
  <1>3. loop' = IF loop < 2 THEN loop + 1 ELSE 0
    BY <1>1 DEF LeaveLoop
  <1>4. status' = IF loop = 2 /\ AtEnd THEN "complete" ELSE status
    BY <1>1 DEF LeaveLoop, AtEnd
  <1>5. loop = 1 \/ loop = 2
    BY <1>2
  <1>6. CASE loop = 1
    BY <1>3, <1>4, <1>6
  <1>7. CASE loop = 2
    BY <1>3, <1>4, <1>7 DEF Over
  <1> QED
    BY <1>5, <1>6, <1>7

LEMMA StatusSame ==
    ASSUME status' = status
    PROVE  Open' = Open /\ Over' = Over /\ AtEnd' = AtEnd
  BY DEF Open, Over, AtEnd

LEMMA StatusNext ==
    ASSUME TypeOK, StatusInv, [Next]_vars
    PROVE  StatusInv'
  <1>1. CASE Send
    BY <1>1, StatusSteps, StatusSame, StatusDiffers DEF StatusInv
  <1>2. CASE Data
    BY <1>2, StatusSteps, StatusSame, StatusDiffers DEF StatusInv
  <1>3. CASE End
    <2>1. pos' = pos /\ text' = text
      BY <1>3 DEF End
    <2> QED
      BY <1>3, <2>1, StatusSteps DEF StatusInv
  <1>4. CASE Error
    BY <1>4, StatusSteps DEF StatusInv
  <1>5. CASE ProcessMessages
    <2>1. pos' = pos /\ text' = text
      BY <1>5 DEF ProcessMessages
    <2> QED
      BY <1>5, <2>1, StatusSteps, StatusSame DEF StatusInv
  <1>6. CASE LeaveLoop
    <2>1. pos' = pos /\ text' = text
      BY <1>6 DEF LeaveLoop
    <2>2. \/ loop = 1 /\ loop' = 2 /\ status' = status
          \/ loop = 2 /\ loop' = 0 /\ ~AtEnd /\ status' = status
          \/ loop = 2 /\ loop' = 0 /\ AtEnd /\ Over'
      BY <1>6, LeaveSteps
    <2>3. ~(AtEnd' /\ Over')
      BY DEF AtEnd, Over
    <2> QED
      BY <2>1, <2>2, <2>3, StatusSame DEF StatusInv
  <1>7. CASE UNCHANGED vars
    <2>1. status' = status /\ loop' = loop /\ pos' = pos /\ text' = text
      BY <1>7 DEF vars
    <2> QED
      BY <2>1, StatusSame DEF StatusInv
  <1> QED
    BY <1>1, <1>2, <1>3, <1>4, <1>5, <1>6, <1>7 DEF Next

Base == TypeOK /\ Layout /\ BufferInv /\ StatusInv

LEMMA BaseInit == Init => Base
  <1> SUFFICES ASSUME Init
               PROVE  Base
    OBVIOUS
  <1>1. TypeOK
    BY TypeInit
  <1>2. Len(stream) = 0 /\ Len(text) = 0 /\ Len(buffer) = 0 /\ pos = 0
    BY DEF Init
  <1>3. \A m : m \notin 1..0
    OBVIOUS
  <1>4. Layout
    BY <1>2, <1>3 DEF Layout
  <1>5. BufferInv
    BY <1>2, <1>3 DEF BufferInv
  <1>6. StatusInv
    BY <1>2 DEF Init, StatusInv, Open, AtEnd, Over
  <1> QED
    BY <1>1, <1>4, <1>5, <1>6 DEF Base

LEMMA BaseNext ==
    ASSUME Base, [Next]_vars
    PROVE  Base'
  <1>1. TypeOK' /\ StatusInv'
    BY TypeNext, StatusNext DEF Base
  <1>2. CASE Send
    BY <1>1, <1>2, LayoutSend, BufferSend DEF Base
  <1>3. CASE Data
    <2>1. UNCHANGED <<stream, text>>
      BY <1>3 DEF Data
    <2> QED
      BY <1>1, <1>3, <2>1, LayoutKept, BufferData DEF Base
  <1>4. CASE ProcessMessages
    <2>1. UNCHANGED <<stream, text>>
      BY <1>4 DEF ProcessMessages
    <2> QED
      BY <1>1, <1>4, <2>1, LayoutKept, BufferTurn DEF Base
  <1>5. CASE End \/ Error \/ LeaveLoop \/ UNCHANGED vars
    <2>1. UNCHANGED <<stream, text, pos, buffer, split>>
      BY <1>5 DEF End, Error, LeaveLoop, vars, history
    <2> QED
      BY <1>1, <2>1, LayoutKept, BufferKept DEF Base
  <1> QED
    BY <1>2, <1>3, <1>4, <1>5 DEF Next
-----------------------------------------------------------------------------
(* What a turn takes.                                                       *)

\* When all of a message is taken, its body parses unless it is broken, and is what
\* was sent but for characters that have been cut.
LEMMA WholeBody ==
    ASSUME Base, loop # 0, MessageStart <= Len(buffer), NEW m \in 1..Len(stream),
           Taken + MessageStart = TextStart(m) + 1,
           Taken + FindNextMessageStart(MessageStart) = TextEnd(m) + 1
    PROVE  /\ Parses(MessageContent) <=> KindOf(m) \notin Broken
           /\ MessageContent \in Seq(Tokens) /\ IsBodyOf(MessageContent, m)
  <1> DEFINE body == MessageContent
             K == KindOf(m)
             B == Body[K]
  <1>1. PICK D \in Nat, L \in Nat, a \in Nat, b \in Nat, s \in Nat, n \in Nat :
          /\ D = Taken /\ L = Len(buffer) /\ a = TextStart(m) /\ b = Len(B)
          /\ s = MessageStart /\ n = FindNextMessageStart(MessageStart)
          /\ D + s = a + 1 /\ D + n = a + 3 + b /\ n <= L + 1 /\ 1 <= s
    <2>1. PICK D \in Nat, L \in Nat, s \in Nat, n \in Nat :
            /\ D = Taken /\ L = Len(buffer) /\ s = MessageStart
            /\ n = FindNextMessageStart(MessageStart) /\ n <= L + 1 /\ 1 <= s
      BY TakenType, LengthTypes, FoundMessage DEF Base
    <2>2. PICK a \in Nat, b \in Nat, c \in Nat :
            a = TextStart(m) /\ b = Len(B) /\ c = TextEnd(m) /\ c = a + 2 + b
      BY MessageTypes, BodyLength DEF Base
    <2>3. D + s = a + 1 /\ D + n = c + 1
      BY <2>1, <2>2
    <2>4. D + n = a + 3 + b
      <3>1. c = a + 2 + b /\ D + n = c + 1
        BY <2>2, <2>3
      <3> QED
        BY <3>1
    <2> QED
      BY <2>1, <2>2, <2>3, <2>4
  <1>2. K \in Bodied
    BY MessageTypes DEF Base
  <1>3. B \in Seq(Tokens) /\ B = BodyOf(m)
    BY <1>1, <1>2, BodyTokens DEF BodyOf, KindOf
  <1>4. body \in Seq(Tokens) /\ Len(body) = b /\ \A k \in 1..b : body[k] = buffer[s + 1 + k]
    <2>1. /\ body \in Seq(Tokens)
          /\ Len(body) = n - s - 2
          /\ \A k \in 1..(n - s - 2) : body[k] = buffer[s + 1 + k]
      BY <1>1, FoundMessage DEF Base
    <2>2. D + s = a + 1 /\ D + n = a + 3 + b
      BY <1>1
    <2>3. n - s - 2 = b
      BY <2>2
    <2> QED
      BY <2>1, <2>3
  <1>5. ASSUME NEW k \in 1..b
        PROVE  Resembles(body[k], B[k])
    <2>1. PICK i \in Nat : i = s + 1 + k /\ D + i = a + 2 + k /\ 1 <= i /\ i <= L
      <3>1. D + s = a + 1 /\ D + n = a + 3 + b /\ n <= L + 1
        BY <1>1
      <3>2. s + 1 + k \in Nat /\ D + (s + 1 + k) = a + 2 + k /\ 1 <= s + 1 + k /\ s + 1 + k <= L
        BY <3>1
      <3> QED
        BY <3>2
    <2>2. text[D + i] = B[k]
      <3>1. k \in 1..Len(B) /\ TextStart(m) + 2 + k = D + i
        BY <1>1, <2>1
      <3> QED
        BY <3>1, MessageTokens DEF Base
    <2>3. i \in 1..Len(buffer)
      BY <1>1, <2>1
    <2>4. \/ buffer[i] = text[D + i]
          \/ split /\ buffer[i] = Replacement /\ text[D + i] \in {HalfA, HalfB}
      BY <1>1, <2>3 DEF Base, BufferInv
    <2>5. body[k] = buffer[i]
      BY <1>4, <2>1
    <2> QED
      BY <2>2, <2>4, <2>5 DEF Resembles
  <1> HIDE DEF body, B, K
  <1>6. Parses(body) <=> K \notin Broken
    <2>1. Len(body) = Len(B)
      BY <1>1, <1>4
    <2>2. \A k \in 1..Len(body) : body[k] = Close <=> B[k] = Close
      BY <1>4, <1>5, TokensDiffer DEF Resembles
    <2> QED
      BY <1>2, <1>4, <2>1, <2>2, WholeBodyParses DEF B
  <1>7. IsBodyOf(body, m)
    <2>1. Len(B) = b /\ DOMAIN body = 1..b
      BY <1>1, <1>4, LenProperties
    <2> QED
      BY <1>3, <1>4, <1>5, <2>1 DEF IsBodyOf
  <1> QED
    BY <1>4, <1>6, <1>7 DEF body, K

\* A turn takes one whole message, or a piece of one that quotes an identifier,
\* which does not parse.
LEMMA TurnTakes ==
    ASSUME Base, ProcessMessages
    PROVE  \E m \in 1..Len(stream) :
              \/ /\ KindOf(m) \notin Quote
                 /\ Taken + MessageStart = TextStart(m) + 1
                 /\ Taken <= TextStart(m) /\ Taken' = TextEnd(m)
                 /\ ProcessBufferedData[loop] = Identifier(KindOf(m))
                 /\ TextStart(m) + 2 <= pos
                 /\ Open => TextEnd(m) + 2 <= pos
                 /\ Parses(MessageContent) <=> KindOf(m) \notin Broken
                 /\ MessageContent \in Seq(Tokens) /\ IsBodyOf(MessageContent, m)
              \/ KindOf(m) \in Quote /\ ~Parses(MessageContent)
  <1>1. loop # 0 /\ MessageStart <= Len(buffer) /\ ~Waits
    BY DEF ProcessMessages
  <1>2. PICK m \in 1..Len(stream) :
           \/ /\ KindOf(m) \notin Quote
              /\ Taken + MessageStart = TextStart(m) + 1
              /\ ProcessBufferedData[loop] = Identifier(KindOf(m))
              /\ IF TextEnd(m) + 2 <= pos
                 THEN Taken + FindNextMessageStart(MessageStart) = TextEnd(m) + 1
                 ELSE Taken + FindNextMessageStart(MessageStart) = pos + 1
           \/ /\ KindOf(m) \in Quote
              /\ \/ Taken + FindNextMessageStart(MessageStart) <= pos
                 \/ pos = Len(text)
                 => Taken + FindNextMessageStart(MessageStart) = Taken + MessageStart + 3
    BY <1>1, FoundInText DEF Base
  <1>3. PICK D \in Nat, L \in Nat, N \in Nat, S \in Nat, s \in Nat, n \in Nat, P \in Nat :
          /\ D = Taken /\ L = Len(buffer) /\ N = Len(text) /\ S = Len(stream) /\ P = pos
          /\ s = MessageStart /\ n = FindNextMessageStart(MessageStart)
          /\ P = D + L /\ P <= N /\ 1 <= s /\ s < L /\ n <= L + 1
    BY <1>1, TakenType, LengthTypes, FoundMessage DEF Base
  <1>4. P = D + L /\ P <= N /\ 1 <= s /\ s < L /\ n <= L + 1
    BY <1>3
  <1>5. PICK a \in Nat, c \in Nat : a = TextStart(m) /\ c = TextEnd(m) /\ c <= N /\ a + 3 <= c
    BY <1>3, MessageTypes, MessageTokens DEF Base
  <1>6. n <= L \/ (P = N /\ ~Open)
    <2>1. CASE n <= L
      BY <2>1
    <2>2. CASE n > Len(buffer)
      <3>1. ~Open
        BY <1>1, <1>3, <2>2 DEF Waits, Open
      <3> QED
        BY <1>1, <1>3, <3>1 DEF Base, StatusInv
    <2> QED
      BY <1>3, <1>4, <2>1, <2>2
  <1>7. CASE KindOf(m) \notin Quote
    <2>1. /\ D + s = a + 1
          /\ IF c + 2 <= P THEN D + n = c + 1 ELSE D + n = P + 1
      BY <1>2, <1>3, <1>5, <1>7
    <2>2. D <= a /\ a + 2 <= P
      BY <1>4, <2>1
    <2>3. D + n = c + 1 /\ (Open => c + 2 <= P)
      <3>1. CASE c + 2 <= P
        BY <2>1, <3>1
      <3>2. CASE ~(c + 2 <= P)
        <4>1. D + n = P + 1
          BY <2>1, <3>2
        <4>2. ~(n <= L)
          BY <1>4, <4>1
        <4>3. P = N /\ ~Open
          BY <1>6, <4>2
        <4>4. ~(m < S)
          <5>1. ASSUME m < S
                PROVE  FALSE
            <6>1. m + 1 \in 1..Len(stream) /\ TextStart(m + 1) = c
              BY <1>3, <1>5, <5>1, MessageTokens DEF Base
            <6>2. PICK e \in Nat : e = TextEnd(m + 1) /\ c + 3 <= e /\ e <= N
              BY <1>3, <6>1, MessageTypes, MessageTokens DEF Base
            <6> QED
              BY <3>2, <4>3, <6>2
          <5> QED
            BY <5>1
        <4>5. m = S
          BY <1>3, <4>4
        <4>6. c = N
          BY <1>3, <1>5, <4>5, MessageTokens DEF Base
        <4> QED
          BY <4>1, <4>3, <4>6
      <3> QED
        BY <3>1, <3>2
    <2>4. /\ Parses(MessageContent) <=> KindOf(m) \notin Broken
          /\ MessageContent \in Seq(Tokens) /\ IsBodyOf(MessageContent, m)
      BY <1>1, <1>3, <1>5, <2>1, <2>3, WholeBody
    <2>5. PICK E \in Nat : E = Taken' /\ E + 1 = D + n
      BY <1>3, BufferTurn DEF Base
    <2>6. Taken' = c
      <3>1. D + n = c + 1 /\ E + 1 = D + n
        BY <2>3, <2>5
      <3>2. E = c
        BY <3>1
      <3> QED
        BY <2>5, <3>2
    <2> QED
      BY <1>2, <1>3, <1>5, <1>7, <2>1, <2>2, <2>3, <2>4, <2>6
  <1>8. CASE KindOf(m) \in Quote
    <2>1. D + n <= P \/ P = N => D + n = D + s + 3
      BY <1>2, <1>3, <1>8
    <2>2. n = s + 3
      BY <1>4, <1>6, <2>1
    <2>3. /\ MessageContent \in Seq(Tokens)
          /\ Len(MessageContent) = n - s - 2
      BY <1>1, <1>3, FoundMessage DEF Base
    <2>4. n - s - 2 = 1
      BY <2>2
    <2> QED
      BY <1>8, <2>3, <2>4, ShortBody
  <1> QED
    BY <1>7, <1>8
-----------------------------------------------------------------------------
(* What a step leaves alone, and what a turn relays.                        *)

Event == "event"

LEMMA KindSets ==
    /\ Bodied = ToolKinds \cup ChatKinds \cup {Event}
    /\ ToolKinds \cap (Quote \cup ChatKinds \cup {Event}) = {}
    /\ Event \notin ChatKinds
    /\ Broken \subseteq ToolKinds /\ Quote \subseteq ChatKinds
  BY DEF Bodied, Body, ToolKinds, ChatKinds, Event, Quote, Broken

\* The client can tell content from an event, even with a character cut.
LEMMA EventBody ==
    /\ Body[Event] = <<"event", Close>>
    /\ \A kind \in ChatKinds : Body[kind][1] \in {"hello", "world", HalfA, "say"}
  <1>1. \A a, b : <<a, b>>[1] = a
    OBVIOUS
  <1>2. \A a, b, c : <<a, b, c>>[1] = a
    OBVIOUS
  <1>3. \A a, b, c, d : <<a, b, c, d>>[1] = a
    OBVIOUS
  <1>4. Body["hello"] = <<"hello", Close>> /\ Body["world"] = <<"world", Close>>
    BY DEF Body
  <1>5. /\ Body["wide"] = <<HalfA, HalfB, Close>>
        /\ Body["quote"] = <<"say", TOLY[1], TOLY[2], Close>>
    BY DEF Body
  <1>6. /\ Body["hello"][1] = "hello" /\ Body["world"][1] = "world"
        /\ Body["wide"][1] = HalfA /\ Body["quote"][1] = "say"
    <2>1. /\ <<"hello", Close>>[1] = "hello" /\ <<"world", Close>>[1] = "world"
          /\ <<HalfA, HalfB, Close>>[1] = HalfA
          /\ <<"say", TOLY[1], TOLY[2], Close>>[1] = "say"
      BY <1>1, <1>2, <1>3
    <2> QED
      BY <1>4, <1>5, <2>1, Zenon
  <1>7. \A kind \in ChatKinds : Body[kind][1] \in {"hello", "world", HalfA, "say"}
    BY <1>6, Zenon DEF ChatKinds
  <1>8. Body[Event] = <<"event", Close>>
    BY DEF Body, Event
  <1> QED
    BY <1>7, <1>8

\* What resembles a body begins as the body does.
LEMMA FirstToken ==
    ASSUME TypeOK, NEW m \in 1..Len(stream), NEW body \in Seq(Tokens), IsBodyOf(body, m)
    PROVE  1 \in DOMAIN body /\ Resembles(body[1], BodyOf(m)[1])
  <1>1. Len(BodyOf(m)) \in Nat /\ 1 <= Len(BodyOf(m))
    BY MessageTypes, BodyLength DEF BodyOf, KindOf
  <1>2. DOMAIN body = 1..Len(body) /\ Len(body) = Len(BodyOf(m))
    BY LenProperties DEF IsBodyOf
  <1>3. 1 \in DOMAIN body
    BY <1>1, <1>2
  <1> QED
    BY <1>3 DEF IsBodyOf

LEMMA EventTold ==
    ASSUME TypeOK, NEW m \in 1..Len(stream), NEW body \in Seq(Tokens), IsBodyOf(body, m),
           KindOf(m) \notin ToolKinds
    PROVE  body = Body[Event] <=> KindOf(m) \notin ChatKinds
  <1>1. KindOf(m) \in Bodied /\ BodyOf(m) = Body[KindOf(m)]
    BY MessageTypes DEF BodyOf, KindOf
  <1>2. CASE KindOf(m) \in ChatKinds
    <2>1. Resembles(body[1], BodyOf(m)[1]) /\ BodyOf(m)[1] \in {"hello", "world", HalfA, "say"}
      BY <1>1, <1>2, FirstToken, EventBody
    <2>2. body[1] \in {"hello", "world", HalfA, "say", Replacement}
      BY <2>1 DEF Resembles
    <2>3. "event" \notin {"hello", "world", HalfA, "say", Replacement}
      BY DEF HalfA, Replacement
    <2>4. Body[Event][1] = "event"
      <3>1. \A a, b : <<a, b>>[1] = a
        OBVIOUS
      <3> QED
        BY <3>1, EventBody
    <2>5. body # Body[Event]
      BY <2>2, <2>3, <2>4, Zenon
    <2> QED
      BY <1>2, <2>5
  <1>3. CASE KindOf(m) = Event
    <2>1. PICK B : B = BodyOf(m) /\ B = Body[Event]
      BY <1>1, <1>3
    <2>2. B \in Seq(Tokens) /\ Len(B) = 2 /\ B[1] = "event" /\ B[2] = Close
      BY <2>1, EventBody, TokensAll DEF Tokens
    <2>3. "event" \notin {HalfA, HalfB} /\ Close \notin {HalfA, HalfB}
      BY DEF HalfA, HalfB, Close
    <2>4. DOMAIN body = 1..Len(body) /\ Len(body) = 2
      BY <2>1, <2>2, LenProperties DEF IsBodyOf
    <2>5. \A k \in DOMAIN body : Resembles(body[k], B[k])
      BY <2>1 DEF IsBodyOf
    <2>6. body[1] = "event" /\ body[2] = Close
      BY <2>2, <2>3, <2>4, <2>5 DEF Resembles
    <2>7. body = B
      BY <2>2, <2>4, <2>6, SeqEqual
    <2> QED
      BY <1>3, <2>1, <2>7, KindSets
  <1> QED
    BY <1>1, <1>2, <1>3, KindSets

LEMMA WellFormedKinds ==
    ASSUME TypeOK
    PROVE  WellFormed <=> \A m \in 1..Len(stream) : KindOf(m) \notin Broken \cup Quote
  <1>1. {"broken", "quote"} = Broken \cup Quote
    BY DEF Broken, Quote
  <1>2. WellFormed <=> \A m \in 1..Len(stream) : stream[m].kind \notin {"broken", "quote"}
    BY LengthTypes DEF WellFormed, Sent
  <1> QED
    BY <1>1, <1>2 DEF KindOf

LEMMA SentType ==
    ASSUME TypeOK
    PROVE  \A kinds : \A m : m \in Sent(kinds) <=> m \in 1..Len(stream) /\ KindOf(m) \in kinds
  BY LengthTypes DEF Sent, KindOf

\* A message that has been sent stays as it is.
LEMMA MessagesKept ==
    ASSUME Base, [Next]_vars
    PROVE  /\ \A m \in 1..Len(stream) :
                 /\ m \in 1..Len(stream')
                 /\ TextStart(m)' = TextStart(m) /\ TextEnd(m)' = TextEnd(m)
                 /\ KindOf(m)' = KindOf(m) /\ BodyOf(m)' = BodyOf(m)
           /\ \A kinds : Sent(kinds) \subseteq Sent(kinds)'
           /\ WellFormed' => WellFormed
  <1>1. TypeOK'
    BY BaseNext DEF Base
  <1>2. \A m \in 1..Len(stream) : m \in 1..Len(stream') /\ stream'[m] = stream[m]
    <2>1. CASE Send
      <3> DEFINE T == [kind : Kinds, at : Nat]
      <3>1. PICK kind \in Kinds : stream' = Append(stream, [kind |-> kind, at |-> Len(text)])
        BY <2>1 DEF Send
      <3>2. PICK r : r = [kind |-> kind, at |-> Len(text)]
        OBVIOUS
      <3>3. r \in T /\ stream \in Seq(T)
        BY <3>2, LengthTypes DEF Base, TypeOK
      <3> HIDE DEF T
      <3>4. stream' = Append(stream, r)
        BY <3>1, <3>2
      <3> QED
        BY <3>3, <3>4
    <2>2. CASE ~Send
      <3>1. stream' = stream
        BY <2>2 DEF Next, Data, End, Error, ProcessMessages, LeaveLoop, vars
      <3> QED
        BY <3>1
    <2> QED
      BY <2>1, <2>2
  <1>3. \A m \in 1..Len(stream) :
           /\ TextStart(m)' = TextStart(m) /\ TextEnd(m)' = TextEnd(m)
           /\ KindOf(m)' = KindOf(m) /\ BodyOf(m)' = BodyOf(m)
    BY <1>2 DEF TextStart, TextEnd, KindOf, BodyOf
  <1>4. DOMAIN stream = 1..Len(stream) /\ DOMAIN stream' = 1..Len(stream')
    BY <1>1, LengthTypes DEF Base
  <1>5. \A kinds : Sent(kinds) \subseteq Sent(kinds)'
    BY <1>2, <1>4 DEF Sent
  <1>6. WellFormed' => WellFormed
    BY <1>5 DEF WellFormed
  <1> QED
    BY <1>2, <1>3, <1>5, <1>6

\* A new message stands behind all that has arrived.
LEMMA NewMessage ==
    ASSUME Base, [Next]_vars, NEW m \in 1..Len(stream'), m \notin 1..Len(stream)
    PROVE  Send /\ Taken' <= TextStart(m)' /\ pos' <= TextStart(m)'
           /\ pos' = pos /\ TextStart(m)' = Len(text)
  <1>1. Send
    BY DEF Next, Data, End, Error, ProcessMessages, LeaveLoop, vars
  <1> DEFINE T == [kind : Kinds, at : Nat]
  <1>2. PICK kind \in Kinds : stream' = Append(stream, [kind |-> kind, at |-> Len(text)])
    BY <1>1 DEF Send
  <1>3. PICK r : r = [kind |-> kind, at |-> Len(text)]
    OBVIOUS
  <1>4. r \in T /\ stream \in Seq(T)
    BY <1>3, LengthTypes DEF Base, TypeOK
  <1>5. stream' = Append(stream, r)
    BY <1>2, <1>3
  <1> HIDE DEF T
  <1>6. stream'[m] = r
    BY <1>4, <1>5
  <1>7. TextStart(m)' = Len(text)
    BY <1>3, <1>6 DEF TextStart
  <1>8. pos' = pos /\ Taken' = Taken
    BY <1>1, BufferSend DEF Base, Send
  <1>9. PICK D \in Nat, P \in Nat, N \in Nat :
          D = Taken /\ P = pos /\ N = Len(text) /\ D <= P /\ P <= N
    BY TakenType, LengthTypes DEF Base
  <1>10. D <= N
    BY <1>9
  <1> QED
    BY <1>1, <1>7, <1>8, <1>9, <1>10

\* Nothing comes back into the buffer.
LEMMA TakenGrows ==
    ASSUME Base, [Next]_vars
    PROVE  Taken \in Nat /\ Taken' \in Nat /\ Taken <= Taken'
           /\ (~ProcessMessages => Taken' = Taken)
  <1>1. Taken \in Nat
    BY TakenType DEF Base
  <1>2. CASE Send
    BY <1>1, <1>2, BufferSend DEF Base
  <1>3. CASE Data
    BY <1>1, <1>3, BufferData DEF Base
  <1>4. CASE ProcessMessages
    BY <1>1, <1>4, BufferTurn DEF Base
  <1>5. CASE End \/ Error \/ LeaveLoop \/ UNCHANGED vars
    <2>1. UNCHANGED <<text, pos, buffer, split>>
      BY <1>5 DEF End, Error, LeaveLoop, vars, history
    <2> QED
      BY <1>1, <2>1, BufferKept DEF Base
  <1> QED
    BY <1>2, <1>3, <1>4, <1>5 DEF Next

\* What a turn relays of the message it takes.
LEMMA TurnRelays ==
    ASSUME Base, ProcessMessages
    PROVE  \E m \in 1..Len(stream) :
              \/ KindOf(m) \in Quote /\ UNCHANGED <<tools, content>>
              \/ /\ KindOf(m) \notin Quote
                 /\ Taken + MessageStart = TextStart(m) + 1
                 /\ Taken <= TextStart(m) /\ Taken' = TextEnd(m)
                 /\ ProcessBufferedData[loop] = Identifier(KindOf(m))
                 /\ TextStart(m) + 2 <= pos
                 /\ Open => TextEnd(m) + 2 <= pos
                 /\ MessageContent \in Seq(Tokens) /\ IsBodyOf(MessageContent, m)
                 /\ \/ KindOf(m) \in Broken /\ UNCHANGED <<tools, content>>
                    \/ /\ KindOf(m) \in ToolKinds \ Broken
                       /\ content' = content
                       /\ ProcessToolMessage(MessageContent)
                    \/ /\ KindOf(m) \notin ToolKinds
                       /\ tools' = tools
                       /\ content' = IF KindOf(m) \in ChatKinds
                                     THEN Append(content, MessageContent) ELSE content
  <1>1. PICK m \in 1..Len(stream) :
              \/ /\ KindOf(m) \notin Quote
                 /\ Taken + MessageStart = TextStart(m) + 1
                 /\ Taken <= TextStart(m) /\ Taken' = TextEnd(m)
                 /\ ProcessBufferedData[loop] = Identifier(KindOf(m))
                 /\ TextStart(m) + 2 <= pos
                 /\ Open => TextEnd(m) + 2 <= pos
                 /\ Parses(MessageContent) <=> KindOf(m) \notin Broken
                 /\ MessageContent \in Seq(Tokens) /\ IsBodyOf(MessageContent, m)
              \/ KindOf(m) \in Quote /\ ~Parses(MessageContent)
    BY TurnTakes
  <1>2. BodyOf(m) = Body[KindOf(m)] /\ KindOf(m) \in Bodied
    BY MessageTypes DEF BodyOf, KindOf, Base
  <1>3. Process(ProcessBufferedData[loop], MessageContent)
    BY DEF ProcessMessages
  <1>4. CASE KindOf(m) \in Quote
    <2>1. ~Parses(MessageContent)
      BY <1>1, <1>4
    <2>2. UNCHANGED <<tools, content>>
      BY <1>3, <2>1 DEF Process
    <2> QED
      BY <1>4, <2>2
  <1>5. CASE KindOf(m) \notin Quote
    <2>1. /\ ProcessBufferedData[loop] = Identifier(KindOf(m))
          /\ Parses(MessageContent) <=> KindOf(m) \notin Broken
          /\ MessageContent \in Seq(Tokens) /\ IsBodyOf(MessageContent, m)
      BY <1>1, <1>2, <1>5
    <2>2. \/ KindOf(m) \in Broken /\ UNCHANGED <<tools, content>>
          \/ /\ KindOf(m) \in ToolKinds \ Broken
             /\ content' = content
             /\ ProcessToolMessage(MessageContent)
          \/ /\ KindOf(m) \notin ToolKinds
             /\ tools' = tools
             /\ content' = IF KindOf(m) \in ChatKinds
                           THEN Append(content, MessageContent) ELSE content
      <3>1. CASE KindOf(m) \in Broken
        BY <1>3, <2>1, <3>1 DEF Process
      <3>2. CASE KindOf(m) \in ToolKinds \ Broken
        <4>1. Parses(MessageContent)
          BY <2>1, <3>2, KindSets
        <4>2. ProcessBufferedData[loop] = TOOL
          BY <2>1, <3>2, IdentifierPairs
        <4>3. ProcessToolMessage(MessageContent)
          BY <1>3, <4>1, <4>2 DEF Process
        <4> QED
          BY <3>2, <4>1, <4>3 DEF ProcessToolMessage
      <3>3. CASE KindOf(m) \notin ToolKinds
        <4>1. Parses(MessageContent)
          BY <2>1, <3>3, KindSets
        <4>2. ProcessBufferedData[loop] # TOOL
          BY <2>1, <3>3, IdentifierPairs
        <4>3. ProcessTolyMessage(MessageContent)
          BY <1>3, <4>1, <4>2 DEF Process
        <4>4. /\ tools' = tools
              /\ content' = IF MessageContent = Body[Event] THEN content
                                                ELSE Append(content, MessageContent)
          BY <4>3 DEF ProcessTolyMessage, Event
        <4>5. MessageContent = Body[Event] <=> KindOf(m) \notin ChatKinds
          BY <2>1, <3>3, EventTold DEF Base
        <4> QED
          BY <3>3, <4>1, <4>4, <4>5
      <3> QED
        BY <3>1, <3>2, <3>3
    <2> QED
      BY <1>1, <1>5, <2>2
  <1> QED
    BY <1>4, <1>5
-----------------------------------------------------------------------------
(* What is in the buffer of a well-formed stream.                           *)

\* The buffer begins with a message.
Uncut ==
    WellFormed => \A m \in 1..Len(stream) : TextEnd(m) <= Taken \/ Taken <= TextStart(m)

\* The first loop leaves no tool call, but for one whose end is not in sight.
NoToolLeft ==
    WellFormed /\ loop = 2 =>
        \A m \in 1..Len(stream) :
            KindOf(m) \in ToolKinds /\ Taken <= TextStart(m) =>
                Open /\ ~(TextEnd(m) + 2 <= pos)

\* The second leaves nothing at the end of the stream.
NothingLeft ==
    WellFormed /\ Over => \A m \in 1..Len(stream) : TextEnd(m) <= Taken

InBuffer(m) == Taken <= TextStart(m) /\ TextStart(m) + 2 <= pos

\* With one identifier completed by a chunk, there is never more than one that a
\* loop could jump over.
FewInBuffer ==
    WellFormed /\ ~coalesced =>
        \A l, m \in 1..Len(stream) : InBuffer(l) /\ InBuffer(m) =>
            /\ m <= l + 1
            /\ loop = 0 \/ AtEnd => l = m

\* A loop finds the first of its messages.
LEMMA FirstFound ==
    ASSUME Base, loop # 0, NEW m \in 1..Len(stream), InBuffer(m),
           ProcessBufferedData[loop] = Identifier(KindOf(m))
    PROVE  MessageStart <= Len(buffer) /\ Taken + MessageStart <= TextStart(m) + 1
  <1> DEFINE id == ProcessBufferedData[loop]
  <1>1. PICK D \in Nat, L \in Nat, a \in Nat :
          D = Taken /\ L = Len(buffer) /\ a = TextStart(m) /\ pos = D + L
    BY TakenType, LengthTypes, MessageTypes DEF Base
  <1>2. D <= a /\ a + 2 <= D + L
    BY <1>1 DEF InBuffer
  <1>3. PICK p \in Nat : p = a + 1
    OBVIOUS
  <1>4. <<text[p], text[p + 1]>> = id /\ id \in {TOOL, TOLY}
    <2>1. text[a + 1] = Identifier(KindOf(m))[1] /\ text[a + 2] = Identifier(KindOf(m))[2]
      BY <1>1, MessageTokens DEF Base
    <2>2. p + 1 = a + 2
      BY <1>3
    <2> QED
      BY <1>3, <2>1, <2>2, IdentifierPairs
  <1> HIDE DEF id
  <1>5. p - Taken \in Positions(buffer, {id}, 1)
    <2>1. D < p /\ D + 1 <= p /\ p + 1 <= D + L
      BY <1>2, <1>3
    <2> QED
      BY <1>1, <1>4, <2>1, PositionOf DEF Base
  <1>6. buffer \in Seq(Tokens) /\ MessageStart = IndexOf(buffer, {id}, 1)
    BY DEF Base, TypeOK, MessageStart, id
  <1>7. PICK s \in Nat : s = MessageStart /\ s < L /\ s <= p - D
    <2>1. /\ MessageStart \in Nat
          /\ \/ Positions(buffer, {id}, 1) = {}
             \/ MessageStart < L /\ \A i \in Positions(buffer, {id}, 1) : MessageStart <= i
      BY <1>1, <1>6, IndexOfFirst
    <2> QED
      BY <1>1, <1>5, <2>1
  <1>8. s <= L /\ D + s <= a + 1
    BY <1>3, <1>7
  <1> QED
    BY <1>1, <1>7, <1>8

\* What a loop leaves of its messages is one without an end, as long as there may
\* be more data.
LEMMA Unfinished ==
    ASSUME Base, WellFormed, loop # 0, MessageStart > Len(buffer) \/ Waits,
           NEW m \in 1..Len(stream), InBuffer(m),
           ProcessBufferedData[loop] = Identifier(KindOf(m))
    PROVE  Open /\ ~(TextEnd(m) + 2 <= pos)
  <1>1. MessageStart <= Len(buffer) /\ Taken + MessageStart <= TextStart(m) + 1
    BY FirstFound
  <1>2. PICK D \in Nat, L \in Nat, S \in Nat, s \in Nat, n \in Nat, P \in Nat, a \in Nat :
          /\ D = Taken /\ L = Len(buffer) /\ S = Len(stream) /\ P = pos
          /\ s = MessageStart /\ n = FindNextMessageStart(MessageStart)
          /\ a = TextStart(m) /\ P = D + L /\ s < L /\ n <= L + 1
    BY <1>1, TakenType, LengthTypes, FoundMessage, MessageTypes DEF Base
  <1>3. P = D + L /\ s < L /\ D + s <= a + 1
    BY <1>1, <1>2
  <1>4. Waits
    BY <1>1, <1>2
  <1>5. Open
    BY <1>4 DEF Waits, Open
  <1>6. PICK o \in 1..Len(stream) :
           \/ /\ KindOf(o) \notin Quote
              /\ Taken + MessageStart = TextStart(o) + 1
              /\ IF TextEnd(o) + 2 <= pos
                 THEN Taken + FindNextMessageStart(MessageStart) = TextEnd(o) + 1
                 ELSE Taken + FindNextMessageStart(MessageStart) = pos + 1
           \/ KindOf(o) \in Quote
    BY <1>1, FoundInText DEF Base
  <1>7. KindOf(o) \notin Broken \cup Quote
    BY WellFormedKinds DEF Base
  <1>8. PICK b \in Nat, c \in Nat : b = TextStart(o) /\ c = TextEnd(o) /\ b + 3 <= c
    BY MessageTypes DEF Base
  <1>9. PICK d \in Nat : d = TextEnd(m) /\ a + 3 <= d
    BY <1>2, MessageTypes DEF Base
  <1>10. D + s = b + 1 /\ IF c + 2 <= P THEN D + n = c + 1 ELSE D + n = P + 1
    BY <1>2, <1>6, <1>7, <1>8
  <1>11. c <= d
    <2>1. b <= a
      BY <1>3, <1>10
    <2>2. CASE m < o
      <3>1. d <= b
        BY <1>8, <1>9, <2>2 DEF Base, Layout
      <3> QED
        BY <1>9, <2>1, <3>1
    <2>3. CASE m = o
      BY <1>8, <1>9, <2>3
    <2>4. CASE o < m
      <3>1. c <= a
        BY <1>2, <1>8, <2>4 DEF Base, Layout
      <3> QED
        BY <1>9, <3>1
    <2> QED
      BY <1>2, <2>2, <2>3, <2>4
  <1>12. ~(c + 2 <= P)
    <2>1. ASSUME c + 2 <= P
          PROVE  FALSE
      <3>1. D + n = c + 1
        BY <1>10, <2>1
      <3>2. ~(n > L)
        BY <1>3, <2>1, <3>1
      <3>3. Parses(MessageContent)
        BY <1>1, <1>2, <1>7, <1>8, <1>10, <3>1, WholeBody
      <3> QED
        BY <1>2, <1>4, <3>2, <3>3 DEF Waits
    <2> QED
      BY <2>1
  <1>13. ~(d + 2 <= P)
    BY <1>11, <1>12
  <1> QED
    BY <1>2, <1>5, <1>9, <1>13

LEMMA UncutNext ==
    ASSUME Base, Uncut, [Next]_vars
    PROVE  Uncut'
  <1> SUFFICES ASSUME WellFormed', NEW m \in 1..Len(stream')
               PROVE  TextEnd(m)' <= Taken' \/ Taken' <= TextStart(m)'
    BY DEF Uncut
  <1>1. WellFormed /\ \A l \in 1..Len(stream) : TextEnd(l) <= Taken \/ Taken <= TextStart(l)
    BY MessagesKept DEF Uncut
  <1>2. CASE m \notin 1..Len(stream)
    BY <1>2, NewMessage
  <1>3. CASE m \in 1..Len(stream)
    <2>1. TextEnd(m)' = TextEnd(m) /\ TextStart(m)' = TextStart(m)
      BY <1>3, MessagesKept
    <2>2. CASE ~ProcessMessages
      BY <1>1, <1>3, <2>1, <2>2, TakenGrows
    <2>3. CASE ProcessMessages
      <3>1. PICK o \in 1..Len(stream) : KindOf(o) \in Quote \/ Taken' = TextEnd(o)
        BY <2>3, TurnTakes
      <3>2. Taken' = TextEnd(o)
        BY <1>1, <3>1, WellFormedKinds DEF Base
      <3>3. PICK a \in Nat, c \in Nat : a = TextStart(m) /\ c = TextEnd(m) /\ a + 3 <= c
        BY <1>3, MessageTypes DEF Base
      <3>4. PICK b \in Nat, d \in Nat : b = TextStart(o) /\ d = TextEnd(o) /\ b + 3 <= d
        BY MessageTypes DEF Base
      <3>5. c <= d \/ d <= a
        <4>1. CASE m < o
          <5>1. c <= b
            BY <1>3, <3>3, <3>4, <4>1 DEF Base, Layout
          <5> QED
            BY <3>4, <5>1
        <4>2. CASE m = o
          BY <3>3, <3>4, <4>2
        <4>3. CASE o < m
          BY <1>3, <3>3, <3>4, <4>3 DEF Base, Layout
        <4> QED
          BY <1>3, <4>1, <4>2, <4>3, LengthTypes DEF Base
      <3> QED
        BY <2>1, <3>2, <3>3, <3>4, <3>5
    <2> QED
      BY <2>2, <2>3
  <1> QED
    BY <1>2, <1>3

\* In each loop, the messages it is for.
LEMMA LoopFor ==
    ASSUME NEW kind
    PROVE  /\ ProcessBufferedData[1] = Identifier(kind) <=> kind \in ToolKinds
           /\ ProcessBufferedData[2] = Identifier(kind) <=> kind \notin ToolKinds
  BY IdentifierPairs, Pairs DEF ProcessBufferedData

LEMMA NoToolLeftNext ==
    ASSUME Base, NoToolLeft, [Next]_vars
    PROVE  NoToolLeft'
  <1> SUFFICES ASSUME WellFormed', loop' = 2, NEW m \in 1..Len(stream'),
                      KindOf(m)' \in ToolKinds, Taken' <= TextStart(m)'
               PROVE  Open' /\ ~(TextEnd(m)' + 2 <= pos')
    BY DEF NoToolLeft
  <1>1. ~Send /\ ~Data /\ ~End /\ ~Error
    BY StatusSteps
  <1>2. m \in 1..Len(stream)
    BY <1>1, NewMessage
  <1>3. WellFormed /\ KindOf(m) \in ToolKinds
        /\ TextEnd(m)' = TextEnd(m) /\ TextStart(m)' = TextStart(m)
    BY <1>2, MessagesKept
  <1>4. PICK D \in Nat, E \in Nat, a \in Nat : D = Taken /\ E = Taken' /\ D <= E /\ a = TextStart(m)
    BY <1>2, TakenGrows, MessageTypes DEF Base
  <1>5. D <= a
    <2>1. E <= a
      BY <1>3, <1>4
    <2> QED
      BY <1>4, <2>1
  <1>6. pos' = pos
    BY <1>1 DEF Next, ProcessMessages, LeaveLoop, vars
  <1>7. CASE loop = 2 /\ status' = status
    <2>1. Open /\ ~(TextEnd(m) + 2 <= pos)
      BY <1>2, <1>3, <1>4, <1>5, <1>7 DEF NoToolLeft
    <2> QED
      BY <1>3, <1>6, <1>7, <2>1, StatusSame
  <1>8. CASE LeaveLoop
    <2>1. loop = 1 /\ status' = status
      BY <1>8, LeaveSteps DEF Base
    <2>2. MessageStart > Len(buffer) \/ Waits
      BY <1>8 DEF LeaveLoop
    <2>3. CASE InBuffer(m)
      <3>1. Open /\ ~(TextEnd(m) + 2 <= pos)
        BY <1>2, <1>3, <2>1, <2>2, <2>3, LoopFor, Unfinished
      <3> QED
        BY <1>3, <1>6, <2>1, <3>1, StatusSame
    <2>4. CASE ~InBuffer(m)
      <3>1. PICK c \in Nat, N \in Nat, P \in Nat :
              c = TextEnd(m) /\ N = Len(text) /\ P = pos /\ a + 3 <= c /\ c <= N
        BY <1>2, <1>4, MessageTypes, MessageTokens, LengthTypes DEF Base
      <3>2. ~(a + 2 <= P)
        BY <1>4, <1>5, <2>4, <3>1 DEF InBuffer
      <3>3. ~(c + 2 <= P) /\ ~(P = N)
        BY <3>1, <3>2
      <3>4. Open
        BY <2>1, <3>1, <3>3 DEF Base, StatusInv
      <3> QED
        BY <1>3, <1>6, <2>1, <3>1, <3>3, <3>4, StatusSame
    <2> QED
      BY <2>3, <2>4
  <1> QED
    <2>1. CASE ProcessMessages
      BY <1>7, <2>1, StatusSteps
    <2>2. CASE UNCHANGED vars
      BY <1>7, <2>2 DEF vars
    <2> QED
      BY <1>1, <1>8, <2>1, <2>2 DEF Next
\* All that has arrived stands in the buffer or has left it.
LEMMA AllArrived ==
    ASSUME Base, pos = Len(text), NEW m \in 1..Len(stream), Taken <= TextStart(m)
    PROVE  InBuffer(m)
  <1>1. PICK a \in Nat, c \in Nat, N \in Nat :
          a = TextStart(m) /\ c = TextEnd(m) /\ N = Len(text) /\ a + 3 <= c /\ c <= N
    BY MessageTypes, MessageTokens, LengthTypes DEF Base
  <1>2. a + 2 <= N
    BY <1>1
  <1> QED
    BY <1>1, <1>2 DEF InBuffer

LEMMA NothingLeftNext ==
    ASSUME Base, Uncut, NoToolLeft, NothingLeft, [Next]_vars
    PROVE  NothingLeft'
  <1> SUFFICES ASSUME WellFormed', Over', NEW m \in 1..Len(stream')
               PROVE  TextEnd(m)' <= Taken'
    BY DEF NothingLeft
  <1>1. CASE UNCHANGED vars
    <2>1. stream' = stream /\ status' = status
      BY <1>1 DEF vars
    <2>2. Over /\ m \in 1..Len(stream)
      BY <2>1, StatusSame
    <2>3. WellFormed /\ TextEnd(m)' = TextEnd(m)
      BY <2>2, MessagesKept
    <2>4. Taken' = Taken
      BY <1>1 DEF vars, Taken
    <2> QED
      BY <2>2, <2>3, <2>4 DEF NothingLeft
  <1>2. CASE ~UNCHANGED vars
    <2>1. LeaveLoop
      <3>1. Over => loop = 0 /\ ~Open
        BY StatusDiffers DEF Base, StatusInv
      <3>2. status' = status => Over
        BY StatusSame
      <3>3. End => ~Over'
        BY StatusSteps DEF AtEnd, Over
      <3> QED
        BY <1>2, <3>1, <3>2, <3>3, StatusSteps DEF Next
    <2>2. loop = 2 /\ AtEnd
      <3>1. CASE status' = status
        <4>1. Over /\ loop # 0
          BY <2>1, <3>1, StatusSame DEF LeaveLoop
        <4> QED
          BY <4>1, StatusDiffers DEF Base, StatusInv
      <3> QED
        BY <2>1, <3>1, LeaveSteps DEF Base
    <2>3. m \in 1..Len(stream)
      BY <2>1 DEF LeaveLoop
    <2>4. /\ WellFormed /\ TextEnd(m)' = TextEnd(m)
          /\ Taken' = Taken
      BY <2>1, <2>2, <2>3, MessagesKept, TakenGrows, StatusSteps DEF LeaveLoop, Taken
    <2>5. TextEnd(m) <= Taken \/ Taken <= TextStart(m)
      BY <2>3, <2>4 DEF Uncut
    <2>6. ~(Taken <= TextStart(m))
      <3>1. ASSUME Taken <= TextStart(m)
            PROVE  FALSE
        <4>1. ~Open /\ pos = Len(text)
          BY <2>2, StatusDiffers DEF Base, StatusInv
        <4>2. InBuffer(m)
          BY <2>3, <3>1, <4>1, AllArrived
        <4>3. KindOf(m) \notin ToolKinds
          BY <2>2, <2>3, <2>4, <3>1, <4>1 DEF NoToolLeft
        <4>4. Open
          BY <2>1, <2>2, <2>3, <2>4, <4>2, <4>3, LoopFor, Unfinished DEF LeaveLoop
        <4> QED
          BY <4>1, <4>4
      <3> QED
        BY <3>1
    <2> QED
      BY <2>4, <2>5, <2>6
  <1> QED
    BY <1>1, <1>2

\* Of two messages the first ends before the second begins.
LEMMA Before ==
    ASSUME Base, NEW l \in 1..Len(stream), NEW m \in 1..Len(stream)
    PROVE  /\ l < m => TextEnd(l) <= TextStart(m)
           /\ TextStart(l) < TextStart(m) <=> l < m
  <1>1. PICK a \in Nat, b \in Nat, c \in Nat, d \in Nat :
          /\ a = TextStart(l) /\ b = TextEnd(l) /\ a + 3 <= b
          /\ c = TextStart(m) /\ d = TextEnd(m) /\ c + 3 <= d
    BY MessageTypes DEF Base
  <1>2. (l < m => b <= c) /\ (m < l => d <= a)
    BY <1>1 DEF Base, Layout
  <1>3. l < m \/ l = m \/ m < l
    BY LengthTypes DEF Base
  <1>4. (l < m => a < c) /\ (m < l => c < a) /\ (l = m => a = c)
    BY <1>1, <1>2
  <1>5. a < c <=> l < m
    BY <1>3, <1>4
  <1> QED
    BY <1>1, <1>2, <1>5

\* Steps that bring nothing new into the buffer.
LEMMA FewStays ==
    ASSUME Base, FewInBuffer, [Next]_vars, ~Data,
           loop' = 0 \/ AtEnd' => loop = 0 \/ AtEnd
    PROVE  FewInBuffer'
  <1> SUFFICES ASSUME WellFormed', ~coalesced',
                      NEW l \in 1..Len(stream'), NEW m \in 1..Len(stream'),
                      InBuffer(l)', InBuffer(m)'
               PROVE  m <= l + 1 /\ (loop' = 0 \/ AtEnd' => l = m)
    BY DEF FewInBuffer
  <1>1. pos' = pos /\ coalesced' = coalesced
    BY DEF Next, Send, End, Error, ProcessMessages, LeaveLoop, vars, history
  <1>2. ASSUME NEW o \in 1..Len(stream'), InBuffer(o)'
        PROVE  o \in 1..Len(stream) /\ InBuffer(o)
    <2>1. o \in 1..Len(stream)
      <3>1. ASSUME o \notin 1..Len(stream)
            PROVE  FALSE
        <4>1. PICK P \in Nat, N \in Nat :
                P = pos' /\ N = TextStart(o)' /\ P <= N
          BY <1>2, <3>1, NewMessage, LengthTypes DEF Base
        <4>2. N + 2 <= P
          BY <1>2, <4>1 DEF InBuffer
        <4> QED
          BY <4>1, <4>2
      <3> QED
        BY <3>1
    <2>2. TextStart(o)' = TextStart(o)
      BY <2>1, MessagesKept
    <2>3. PICK D \in Nat, E \in Nat, a \in Nat :
            D = Taken /\ E = Taken' /\ D <= E /\ a = TextStart(o)
      BY <2>1, TakenGrows, MessageTypes DEF Base
    <2>4. E <= a /\ a + 2 <= pos
      BY <1>1, <1>2, <2>2, <2>3 DEF InBuffer
    <2>5. D <= a
      BY <2>3, <2>4
    <2> QED
      BY <2>1, <2>3, <2>4, <2>5 DEF InBuffer
  <1>3. l \in 1..Len(stream) /\ m \in 1..Len(stream) /\ InBuffer(l) /\ InBuffer(m)
    BY <1>2
  <1>4. WellFormed /\ ~coalesced
    BY <1>1, MessagesKept
  <1> QED
    BY <1>3, <1>4 DEF FewInBuffer

\* A chunk that completes one identifier adds one message.
LEMMA FewData ==
    ASSUME Base, FewInBuffer, Data
    PROVE  FewInBuffer'
  <1> SUFFICES ASSUME WellFormed', ~coalesced',
                      NEW l \in 1..Len(stream'), NEW m \in 1..Len(stream'),
                      InBuffer(l)', InBuffer(m)'
               PROVE  m <= l + 1 /\ (loop' = 0 \/ AtEnd' => l = m)
    BY DEF FewInBuffer
  <1>1. loop' = 1 /\ loop = 0 /\ ~AtEnd' /\ stream' = stream /\ Taken' = Taken
    BY StatusSteps, StatusSame, StatusDiffers, BufferData DEF Data, Base
  <1>2. WellFormed /\ ~coalesced
    BY <1>1, MessagesKept DEF Data, Next
  <1>3. ASSUME NEW o \in 1..Len(stream), InBuffer(o)'
        PROVE  TextStart(o) + 2 <= pos' /\ (TextStart(o) + 2 <= pos => InBuffer(o))
    BY <1>1, <1>3 DEF InBuffer, TextStart
  <1>4. ASSUME NEW i \in 1..Len(stream), NEW j \in 1..Len(stream), i < j,
               TextStart(i) + 2 <= pos', TextStart(j) + 2 <= pos'
        PROVE  TextStart(i) + 2 <= pos \/ TextStart(j) + 2 <= pos
    <2>1. PICK to : pos' = to /\
             coalesced' = (coalesced \/
                \E x, y \in DOMAIN stream :
                    x < y /\ \A o \in {x, y} : Identified(o, to) /\ ~Identified(o, pos))
      BY DEF Data
    <2>2. ~(\A o \in {i, j} : Identified(o, to) /\ ~Identified(o, pos))
      BY <1>4, <2>1, LengthTypes DEF Base
    <2>3. Identified(i, to) /\ Identified(j, to)
      BY <1>4, <2>1 DEF Identified, TextStart, IDENTIFIER_LENGTH
    <2> QED
      BY <2>2, <2>3 DEF Identified, TextStart, IDENTIFIER_LENGTH
  <1>5. m <= l + 1
    <2>1. ASSUME l + 1 < m
          PROVE  FALSE
      <3>1. PICK o \in 1..Len(stream) : o = l + 1 /\ l < o /\ o < m /\ l < m
        BY <1>1, <2>1, LengthTypes DEF Base
      <3>2. l \in 1..Len(stream) /\ m \in 1..Len(stream)
        BY <1>1
      <3>3. PICK a \in Nat, b \in Nat, c \in Nat, P \in Nat, Q \in Nat, D \in Nat :
              /\ a = TextStart(l) /\ b = TextStart(o) /\ c = TextStart(m)
              /\ P = pos /\ Q = pos' /\ D = Taken
        <4>1. pos' \in Nat
          BY LengthTypes DEF Base, Data
        <4> QED
          BY <1>1, <3>1, <3>2, <4>1, MessageTypes, LengthTypes, TakenType DEF Base
      <3>4. a < b /\ b < c
        BY <3>1, <3>2, <3>3, Before
      <3>5. D <= a /\ a + 2 <= Q /\ c + 2 <= Q
        BY <1>1, <3>3 DEF InBuffer, TextStart
      <3>6. /\ a + 2 <= P \/ b + 2 <= P
            /\ b + 2 <= P \/ c + 2 <= P
        <4>1. a + 2 <= Q /\ b + 2 <= Q /\ c + 2 <= Q
          BY <3>4, <3>5
        <4> QED
          BY <1>4, <3>1, <3>2, <3>3, <4>1
      <3>7. a + 2 <= P /\ b + 2 <= P /\ D <= b
        BY <3>4, <3>5, <3>6
      <3>8. InBuffer(l) /\ InBuffer(o)
        BY <3>3, <3>5, <3>7 DEF InBuffer
      <3>9. l = o
        BY <1>1, <1>2, <3>2, <3>8 DEF FewInBuffer
      <3> QED
        BY <3>1, <3>9
    <2> QED
      BY <1>1, <2>1, LengthTypes DEF Base
  <1> QED
    BY <1>1, <1>5

\* At the end of the second loop, the first of two messages would have had its end
\* in sight.
LEMMA FewLeave ==
    ASSUME Base, NoToolLeft, FewInBuffer, LeaveLoop, loop = 2, loop' = 0, ~AtEnd,
           status' = status
    PROVE  FewInBuffer'
  <1> SUFFICES ASSUME WellFormed', ~coalesced',
                      NEW l \in 1..Len(stream'), NEW m \in 1..Len(stream'),
                      InBuffer(l)', InBuffer(m)'
               PROVE  m <= l + 1 /\ (loop' = 0 \/ AtEnd' => l = m)
    BY DEF FewInBuffer
  <1>1. UNCHANGED <<stream, text, pos, buffer, split, coalesced>>
    BY DEF LeaveLoop, history
  <1>2. WellFormed /\ ~coalesced
    BY <1>1, MessagesKept DEF Next
  <1>3. /\ l \in 1..Len(stream) /\ m \in 1..Len(stream)
        /\ InBuffer(l) /\ InBuffer(m)
    BY <1>1 DEF InBuffer, Taken, TextStart
  <1>4. ASSUME NEW i \in 1..Len(stream), NEW j \in 1..Len(stream), i < j,
               InBuffer(i), InBuffer(j)
        PROVE  FALSE
    <2>1. PICK c \in Nat, d \in Nat, P \in Nat :
            c = TextEnd(i) /\ d = TextStart(j) /\ P = pos /\ c <= d
      BY <1>4, Before, MessageTypes, LengthTypes DEF Base
    <2>2. d + 2 <= P
      BY <1>4, <2>1 DEF InBuffer
    <2>3. c + 2 <= P
      BY <2>1, <2>2
    <2>4. Taken <= TextStart(i)
      BY <1>4 DEF InBuffer
    <2>5. KindOf(i) \notin ToolKinds
      BY <1>2, <2>1, <2>3, <2>4 DEF NoToolLeft
    <2>6. ~(TextEnd(i) + 2 <= pos)
      BY <1>2, <1>4, <2>5, LoopFor, Unfinished DEF LeaveLoop
    <2> QED
      BY <2>1, <2>3, <2>6
  <1>5. l = m
    <2>1. l < m \/ l = m \/ m < l
      BY <1>3, LengthTypes DEF Base
    <2> QED
      BY <1>3, <1>4, <2>1
  <1>6. l \in Nat
    BY <1>3
  <1> QED
    BY <1>5, <1>6

LEMMA FewNext ==
    ASSUME Base, NoToolLeft, FewInBuffer, [Next]_vars
    PROVE  FewInBuffer'
  <1>1. CASE Data
    BY <1>1, FewData
  <1>2. CASE LeaveLoop
    <2>1. ~Data
      BY <1>2, StatusSteps DEF LeaveLoop
    <2>2. CASE loop = 2 /\ loop' = 0 /\ ~AtEnd /\ status' = status
      BY <1>2, <2>2, FewLeave
    <2>3. CASE loop = 1 /\ loop' = 2 /\ status' = status
      BY <2>1, <2>3, FewStays, StatusSame
    <2>4. CASE loop = 2 /\ loop' = 0 /\ AtEnd /\ Over'
      BY <2>1, <2>4, FewStays
    <2> QED
      BY <1>2, <2>2, <2>3, <2>4, LeaveSteps DEF Base
  <1>3. CASE ~Data /\ ~LeaveLoop
    <2>1. loop' = 0 \/ AtEnd' => loop = 0 \/ AtEnd
      <3>1. CASE status' = status /\ loop' = loop
        BY <3>1, StatusSame
      <3>2. UNCHANGED vars => status' = status /\ loop' = loop
        BY DEF vars
      <3> QED
        BY <1>3, <3>1, <3>2, StatusSteps DEF Next
    <2> QED
      BY <1>3, <2>1, FewStays
  <1> QED
    BY <1>1, <1>2, <1>3
-----------------------------------------------------------------------------
(* What has been relayed.                                                   *)

\* A chunk that has ended inside a character has ended there for good.
LEMMA ResemblesKept ==
    ASSUME [Next]_vars
    PROVE  \A seen, sent : Resembles(seen, sent) => Resembles(seen, sent)'
  <1>1. split => split'
    <2>1. CASE Data
      <3>1. PICK to : split' = (split \/ text[to] = HalfA)
        BY <2>1, Zenon DEF Data
      <3> QED
        BY <3>1, Zenon
    <2>2. CASE ~Data
      <3>1. split' = split
        BY <2>2 DEF Next, Send, End, Error, ProcessMessages, LeaveLoop, vars, history
      <3> QED
        BY <3>1
    <2> QED
      BY <2>1, <2>2
  <1> QED
    BY <1>1 DEF Resembles

\* What is relayed from messages that have left the buffer stays what it is.
LEMMA RelayedKept ==
    ASSUME Base, [Next]_vars, NEW relayed, NEW kinds,
           NEW from \in [DOMAIN relayed -> Sent(kinds)], RelayedFrom(relayed, from),
           \A i \in DOMAIN relayed : TextEnd(from[i]) <= Taken
    PROVE  /\ from \in [DOMAIN relayed -> Sent(kinds)']
           /\ \A i, j \in DOMAIN relayed :
                 IsBodyOf(relayed[i], from[i])' /\ (i < j => from[i] < from[j])
           /\ \A i \in DOMAIN relayed : TextEnd(from[i])' <= Taken'
  <1>1. from \in [DOMAIN relayed -> Sent(kinds)']
    BY MessagesKept
  <1>2. ASSUME NEW i \in DOMAIN relayed
        PROVE  /\ from[i] \in 1..Len(stream)
               /\ BodyOf(from[i])' = BodyOf(from[i])
               /\ TextEnd(from[i])' = TextEnd(from[i])
    <2>1. PICK m : m = from[i]
      OBVIOUS
    <2>2. m \in 1..Len(stream)
      BY <2>1, SentType DEF Base
    <2> QED
      BY <2>1, <2>2, MessagesKept
  <1>3. ASSUME NEW i \in DOMAIN relayed
        PROVE  TextEnd(from[i])' <= Taken'
    <2>1. PICK c \in Nat, D \in Nat, E \in Nat :
            c = TextEnd(from[i]) /\ D = Taken /\ E = Taken' /\ c <= D /\ D <= E
      BY <1>2, MessageTypes, TakenGrows DEF Base
    <2>2. c <= E
      BY <2>1
    <2> QED
      BY <1>2, <2>1, <2>2
  <1>4. \A i, j \in DOMAIN relayed :
           IsBodyOf(relayed[i], from[i]) /\ (i < j => from[i] < from[j])
    BY DEF RelayedFrom
  <1>5. \A i, j \in DOMAIN relayed :
           IsBodyOf(relayed[i], from[i])' /\ (i < j => from[i] < from[j])
    <2>1. ASSUME NEW i \in DOMAIN relayed
          PROVE  IsBodyOf(relayed[i], from[i])'
      BY <1>2, <1>4, ResemblesKept, Zenon DEF IsBodyOf
    <2> QED
      BY <1>4, <2>1
  <1> QED
    BY <1>1, <1>3, <1>5

Sources(relayed, kinds, from) ==
    from \in [DOMAIN relayed -> Sent(kinds)] /\ RelayedFrom(relayed, from)

\* f is from, and m for what comes after it.
Continues(relayed, from, m, more, f) ==
    /\ \A i \in DOMAIN more : f[i] = m \/ (i \in DOMAIN relayed /\ f[i] = from[i])
    /\ \A i \in DOMAIN relayed : i \in DOMAIN more /\ f[i] = from[i]
    /\ \E i \in DOMAIN more : f[i] = m

\* What is relayed next comes from a later message.
LEMMA RelayedMore ==
    ASSUME Base, NEW relayed \in Seq(Seq(Tokens)), NEW kinds,
           NEW from, Sources(relayed, kinds, from),
           \A i \in DOMAIN relayed : TextEnd(from[i]) <= Taken,
           NEW m \in 1..Len(stream), KindOf(m) \in kinds, Taken <= TextStart(m),
           NEW b \in Seq(Tokens), IsBodyOf(b, m), NEW more, more = Append(relayed, b)
    PROVE  \E f : Sources(more, kinds, f) /\ Continues(relayed, from, m, more, f)
  <1>0. from \in [DOMAIN relayed -> Sent(kinds)] /\ RelayedFrom(relayed, from)
    BY DEF Sources
  <1>1. PICK n \in Nat : n = Len(relayed)
    BY LenProperties
  <1> DEFINE f == [i \in 1..(n + 1) |-> IF i = n + 1 THEN m ELSE from[i]]
  <1>3. /\ DOMAIN relayed = 1..n /\ DOMAIN more = 1..(n + 1)
        /\ more[n + 1] = b /\ \A i \in 1..n : more[i] = relayed[i]
    BY <1>1
  <1>4. m \in Sent(kinds) /\ \A i \in 1..n : from[i] \in Sent(kinds)
    BY <1>0, <1>3, SentType DEF Base
  <1>5. \A i \in 1..n : i \in 1..(n + 1) /\ i # n + 1
    BY <1>1
  <1>6. n + 1 \in 1..(n + 1)
    BY <1>1
  <1>7. \A i \in 1..(n + 1) : i = n + 1 \/ i \in 1..n
    BY <1>1
  <1>8. f \in [1..(n + 1) -> Sent(kinds)]
    BY <1>4, <1>7
  <1>9. f[n + 1] = m /\ \A i \in 1..n : f[i] = from[i]
    BY <1>5, <1>6
  <1> HIDE DEF f
  <1>10. ASSUME NEW i \in 1..n
         PROVE  from[i] < m
    <2>1. PICK o \in 1..Len(stream) : o = from[i]
      BY <1>4, SentType DEF Base
    <2>2. PICK a \in Nat, c \in Nat, d \in Nat, D \in Nat :
            /\ a = TextStart(m) /\ c = TextEnd(o) /\ d = TextStart(o) /\ D = Taken
            /\ c <= D /\ D <= a /\ d + 3 <= c
      BY <1>3, <2>1, MessageTypes, TakenType DEF Base
    <2>3. d < a
      BY <2>2
    <2> QED
      BY <2>1, <2>2, <2>3, Before
  <1>11. ASSUME NEW i \in 1..(n + 1), NEW j \in 1..(n + 1)
         PROVE  IsBodyOf(more[i], f[i]) /\ (i < j => f[i] < f[j])
    <2>1. IsBodyOf(more[i], f[i])
      <3>1. CASE i = n + 1
        BY <1>1, <1>3, <1>9, <3>1
      <3>2. CASE i \in 1..n
        BY <1>0, <1>3, <1>9, <3>2 DEF RelayedFrom
      <3> QED
        BY <1>7, <3>1, <3>2
    <2>2. ASSUME i < j
          PROVE  f[i] < f[j]
      <3>1. i \in 1..n
        BY <1>1, <2>2
      <3>2. CASE j = n + 1
        BY <1>9, <1>10, <3>1, <3>2
      <3>3. CASE j \in 1..n
        BY <1>0, <1>3, <1>9, <2>2, <3>1, <3>3 DEF RelayedFrom
      <3> QED
        BY <1>7, <3>2, <3>3
    <2> QED
      BY <2>1, <2>2
  <1>12. Sources(more, kinds, f)
    BY <1>3, <1>8, <1>11 DEF RelayedFrom, Sources
  <1>13. Continues(relayed, from, m, more, f)
    BY <1>3, <1>5, <1>6, <1>7, <1>9 DEF Continues
  <1> QED
    BY <1>12, <1>13, Zenon

KeyRelayed(m) ==
    \E i \in DOMAIN tools : Resembles(ToolKey(tools[i]), ToolKey(BodyOf(m)))

\* Of every tool call that has left the buffer of a well-formed stream, the name and
\* arguments are relayed.
ToolsInv ==
    /\ \E from \in [DOMAIN tools -> Sent(ToolKinds)] :
          RelayedFrom(tools, from) /\ \A i \in DOMAIN tools : TextEnd(from[i]) <= Taken
    /\ \A i, j \in DOMAIN tools : ToolKey(tools[i]) = ToolKey(tools[j]) => i = j
    /\ WellFormed => \A m \in 1..Len(stream) :
          KindOf(m) \in ToolKinds /\ TextEnd(m) <= Taken => KeyRelayed(m)

\* So is every piece of content, as long as no chunk has completed two identifiers.
ContentInv ==
    \E from \in [DOMAIN content -> Sent(ChatKinds)] :
        /\ RelayedFrom(content, from)
        /\ \A i \in DOMAIN content : TextEnd(from[i]) <= Taken
        /\ WellFormed /\ ~coalesced => \A m \in 1..Len(stream) :
              KindOf(m) \in ChatKinds /\ TextEnd(m) <= Taken =>
                  \E i \in DOMAIN content : from[i] = m

\* A message that has left the buffer after a step without a turn had left before.
LEMMA LeftBefore ==
    ASSUME Base, [Next]_vars, Taken' = Taken, NEW m \in 1..Len(stream'),
           TextEnd(m)' <= Taken'
    PROVE  /\ m \in 1..Len(stream) /\ TextEnd(m) <= Taken
           /\ KindOf(m)' = KindOf(m) /\ BodyOf(m)' = BodyOf(m)
  <1>1. m \in 1..Len(stream)
    <2>1. ASSUME m \notin 1..Len(stream)
          PROVE  FALSE
      <3>1. PICK D \in Nat, a \in Nat : D = Taken' /\ a = TextStart(m)' /\ D <= a
        BY <2>1, NewMessage, TakenGrows, LengthTypes DEF Base
      <3>2. TypeOK'
        BY BaseNext DEF Base
      <3>3. stream'[m] \in [kind : Kinds, at : Nat]
        <4> DEFINE T == [kind : Kinds, at : Nat]
        <4>1. stream' \in Seq(T)
          BY <3>2 DEF TypeOK
        <4> HIDE DEF T
        <4>2. stream'[m] \in T
          BY <4>1, ElementOfSeq
        <4> QED
          BY <4>2 DEF T
      <3>4. PICK e \in Nat : e = Len(Encoded(KindOf(m)')) /\ 3 <= e
        <4>1. KindOf(m)' \in Bodied
          BY <3>3, KindsBodied DEF KindOf
        <4> QED
          BY <4>1, EncodedLength
      <3>5. a + e <= D
        BY <3>1, <3>4 DEF TextEnd
      <3> QED
        BY <3>1, <3>4, <3>5
    <2> QED
      BY <2>1
  <1> QED
    BY <1>1, MessagesKept
LEMMA ToolsStay ==
    ASSUME Base, ToolsInv, [Next]_vars, ~ProcessMessages
    PROVE  ToolsInv'
  <1>1. Taken' = Taken
    BY TakenGrows
  <1>2. PICK T : T = tools /\ tools' = T
    BY DEF Next, Send, Data, End, Error, LeaveLoop, vars
  <1>3. PICK from \in [DOMAIN T -> Sent(ToolKinds)] :
          RelayedFrom(T, from) /\ \A i \in DOMAIN T : TextEnd(from[i]) <= Taken
    BY <1>2 DEF ToolsInv
  <1>4. /\ from \in [DOMAIN T -> Sent(ToolKinds)']
        /\ \A i, j \in DOMAIN T :
              IsBodyOf(T[i], from[i])' /\ (i < j => from[i] < from[j])
        /\ \A i \in DOMAIN T : TextEnd(from[i])' <= Taken'
    BY <1>3, RelayedKept
  <1>5. RelayedFrom(tools, from)'
    BY <1>2, <1>4 DEF RelayedFrom
  <1>6. \A i, j \in DOMAIN tools' : (ToolKey(tools[i]) = ToolKey(tools[j]))' => i = j
    BY <1>2 DEF ToolsInv, ToolKey
  <1>7. ASSUME WellFormed', NEW m \in 1..Len(stream'), KindOf(m)' \in ToolKinds,
               TextEnd(m)' <= Taken'
        PROVE  KeyRelayed(m)'
    <2>1. /\ m \in 1..Len(stream) /\ TextEnd(m) <= Taken
          /\ KindOf(m)' = KindOf(m) /\ BodyOf(m)' = BodyOf(m)
      BY <1>1, <1>7, LeftBefore
    <2>2. WellFormed
      BY <1>7, MessagesKept
    <2>3. KeyRelayed(m)
      BY <1>7, <2>1, <2>2 DEF ToolsInv
    <2> QED
      BY <1>2, <2>1, <2>3, ResemblesKept, Zenon DEF KeyRelayed, ToolKey
  <1> QED
    BY <1>2, <1>4, <1>5, <1>6, <1>7 DEF ToolsInv

\* Of the messages a turn takes, all but the last stand in front of the message it
\* finds.
LEMMA TakenBefore ==
    ASSUME Base, Uncut, WellFormed, NEW m \in 1..Len(stream), NEW l \in 1..Len(stream),
           TextStart(m) + 2 <= pos, TextEnd(l) <= TextEnd(m), ~(TextEnd(l) <= Taken)
    PROVE  \/ l = m
           \/ l < m /\ InBuffer(l) /\ TextEnd(l) + 2 <= pos /\ TextStart(l) < TextStart(m)
  <1>1. Taken <= TextStart(l)
    BY DEF Uncut
  <1>2. PICK a \in Nat, b \in Nat, c \in Nat, d \in Nat, P \in Nat :
          /\ a = TextStart(l) /\ b = TextEnd(l) /\ a + 3 <= b
          /\ c = TextStart(m) /\ d = TextEnd(m) /\ c + 3 <= d
          /\ P = pos /\ c + 2 <= P /\ b <= d
    BY MessageTypes, LengthTypes DEF Base
  <1>3. ~(m < l)
    <2>1. m < l => d <= a
      BY <1>2, Before
    <2>2. ~(d <= a)
      BY <1>2
    <2> QED
      BY <2>1, <2>2
  <1>4. CASE l < m
    <2>1. b <= c /\ a < c
      BY <1>2, <1>4, Before
    <2>2. b + 2 <= P /\ a + 2 <= P
      BY <1>2, <2>1
    <2> QED
      BY <1>1, <1>2, <1>4, <2>1, <2>2 DEF InBuffer
  <1> QED
    BY <1>3, <1>4, LengthTypes DEF Base

LEMMA ToolsTurn ==
    ASSUME Base, Uncut, NoToolLeft, ToolsInv, ProcessMessages
    PROVE  ToolsInv'
  <1>1. stream' = stream /\ loop # 0
    BY DEF ProcessMessages
  <1>2. [Next]_vars
    BY DEF Next
  <1>3. PICK m \in 1..Len(stream) :
              \/ KindOf(m) \in Quote /\ UNCHANGED <<tools, content>>
              \/ /\ KindOf(m) \notin Quote
                 /\ Taken + MessageStart = TextStart(m) + 1
                 /\ Taken <= TextStart(m) /\ Taken' = TextEnd(m)
                 /\ TextStart(m) + 2 <= pos
                 /\ MessageContent \in Seq(Tokens) /\ IsBodyOf(MessageContent, m)
                 /\ \/ KindOf(m) \notin ToolKinds \ Broken /\ tools' = tools
                    \/ /\ KindOf(m) \in ToolKinds \ Broken
                       /\ ProcessToolMessage(MessageContent)
    BY TurnRelays, KindSets
  <1>4. PICK T : T = tools /\ T \in Seq(Seq(Tokens))
    BY DEF Base, TypeOK
  <1>5. PICK from \in [DOMAIN T -> Sent(ToolKinds)] :
          RelayedFrom(T, from) /\ \A i \in DOMAIN T : TextEnd(from[i]) <= Taken
    BY <1>4 DEF ToolsInv
  <1>6. PICK D \in Nat, E \in Nat : D = Taken /\ E = Taken' /\ D <= E
    BY <1>2, TakenGrows
  <1>7. /\ Sent(ToolKinds)' = Sent(ToolKinds)
        /\ \A l : BodyOf(l)' = BodyOf(l) /\ TextEnd(l)' = TextEnd(l) /\ KindOf(l)' = KindOf(l)
    BY <1>1 DEF Sent, BodyOf, TextEnd, TextStart, KindOf
  <1>8. PICK b : b = MessageContent
    OBVIOUS
  <1> DEFINE Seen == \E i \in DOMAIN T : ToolKey(T[i]) = ToolKey(b)
  <1>14. ProcessToolMessage(MessageContent) => tools' = IF Seen THEN T ELSE Append(T, b)
    BY <1>4, <1>8 DEF ProcessToolMessage
  <1>9. \/ tools' = T
        \/ /\ tools' = Append(T, b) /\ ~Seen /\ Taken' = TextEnd(m)
           /\ KindOf(m) \in ToolKinds /\ Taken <= TextStart(m)
           /\ b \in Seq(Tokens) /\ IsBodyOf(b, m)
    BY <1>3, <1>4, <1>8, <1>14
  <1>10. /\ \E f \in [DOMAIN tools' -> Sent(ToolKinds)'] :
              RelayedFrom(tools, f)' /\ \A i \in DOMAIN tools' : TextEnd(f[i])' <= Taken'
         /\ \A i, j \in DOMAIN tools' : ToolKey(tools'[i]) = ToolKey(tools'[j]) => i = j
         /\ \A i \in DOMAIN T : i \in DOMAIN tools' /\ tools'[i] = T[i]
    <2>1. CASE tools' = T
      <3>1. /\ from \in [DOMAIN T -> Sent(ToolKinds)']
            /\ \A i, j \in DOMAIN T :
                  IsBodyOf(T[i], from[i])' /\ (i < j => from[i] < from[j])
            /\ \A i \in DOMAIN T : TextEnd(from[i])' <= Taken'
        BY <1>2, <1>5, RelayedKept
      <3>2. RelayedFrom(tools, from)'
        BY <2>1, <3>1 DEF RelayedFrom
      <3> QED
        BY <1>4, <2>1, <3>1, <3>2 DEF ToolsInv
    <2>2. CASE /\ tools' = Append(T, b) /\ ~Seen /\ Taken' = TextEnd(m)
               /\ KindOf(m) \in ToolKinds /\ Taken <= TextStart(m)
               /\ b \in Seq(Tokens) /\ IsBodyOf(b, m)
      <3>1. PICK M : M = Append(T, b)
        OBVIOUS
      <3>2. PICK f : Sources(M, ToolKinds, f) /\ Continues(T, from, m, M, f)
        <4>1. Sources(T, ToolKinds, from)
          BY <1>5 DEF Sources
        <4> QED
          BY <1>4, <1>5, <2>2, <3>1, <4>1, RelayedMore
      <3>3. /\ f \in [DOMAIN M -> Sent(ToolKinds)] /\ RelayedFrom(M, f)
             /\ \A i \in DOMAIN M : f[i] = m \/ (i \in DOMAIN T /\ f[i] = from[i])
        BY <3>2 DEF Sources, Continues
      <3>4. ASSUME NEW i \in DOMAIN M
            PROVE  TextEnd(f[i])' <= Taken'
        <4>1. CASE f[i] = m
          BY <1>6, <1>7, <2>2, <4>1
        <4>2. CASE i \in DOMAIN T /\ f[i] = from[i]
          <5>1. PICK o \in 1..Len(stream) : o = from[i]
            BY <4>2, SentType DEF Base
          <5>2. PICK c \in Nat : c = TextEnd(o) /\ c <= D
            BY <1>5, <1>6, <4>2, <5>1, MessageTypes DEF Base
          <5>3. c <= E
            BY <1>6, <5>2
          <5> QED
            BY <1>6, <1>7, <4>2, <5>1, <5>2, <5>3
        <4> QED
          BY <3>3, <4>1, <4>2
      <3>5. RelayedFrom(tools, f)'
        <4>1. ASSUME NEW i \in DOMAIN M
              PROVE  IsBodyOf(M[i], f[i])'
          BY <1>2, <1>7, <3>3, ResemblesKept, Zenon DEF RelayedFrom, IsBodyOf
        <4> QED
          BY <2>2, <3>1, <3>3, <4>1 DEF RelayedFrom
      <3>6. b \in Seq(Tokens)
        BY <2>2
      <3>7. PICK n \in Nat : n = Len(T)
        BY <1>4, LenProperties
      <3>8. /\ DOMAIN T = 1..n /\ DOMAIN M = 1..(n + 1)
            /\ M[n + 1] = b /\ \A i \in 1..n : M[i] = T[i]
        BY <1>4, <3>1, <3>6, <3>7
      <3>9. \A i \in 1..n : ToolKey(T[i]) # ToolKey(b)
        BY <2>2, <3>8
      <3>10. \A i, j \in 1..n : ToolKey(T[i]) = ToolKey(T[j]) => i = j
        BY <1>4, <3>8 DEF ToolsInv
      <3>11. \A i \in 1..(n + 1) : i = n + 1 \/ i \in 1..n
        BY <3>7
      <3>12. \A i, j \in 1..(n + 1) : ToolKey(M[i]) = ToolKey(M[j]) => i = j
        BY <3>8, <3>9, <3>10, <3>11
      <3>13. \A i \in 1..n : i \in 1..(n + 1)
        BY <3>7
      <3> QED
        <4>1. tools' = M
          BY <2>2, <3>1
        <4>2. f \in [DOMAIN tools' -> Sent(ToolKinds)']
          BY <1>7, <3>3, <4>1
        <4>3. \A i \in DOMAIN tools' : TextEnd(f[i])' <= Taken'
          BY <3>4, <4>1
        <4>4. \A i, j \in DOMAIN tools' : ToolKey(tools'[i]) = ToolKey(tools'[j]) => i = j
          BY <3>8, <3>12, <4>1
        <4>5. \A i \in DOMAIN T : i \in DOMAIN tools' /\ tools'[i] = T[i]
          BY <3>8, <3>13, <4>1
        <4> QED
          BY <3>5, <4>2, <4>3, <4>4, <4>5
    <2> QED
      BY <1>9, <2>1, <2>2
  <1>11. ASSUME WellFormed, NEW l \in 1..Len(stream), KindOf(l) \in ToolKinds,
                TextEnd(l) <= Taken'
         PROVE  KeyRelayed(l)'
    <2>1. CASE TextEnd(l) <= Taken
      <3>1. KeyRelayed(l)
        BY <1>11, <2>1 DEF ToolsInv
      <3>2. PICK i \in DOMAIN T : Resembles(ToolKey(T[i]), ToolKey(BodyOf(l)))
        BY <1>4, <3>1 DEF KeyRelayed
      <3> QED
        BY <1>2, <1>7, <1>10, <3>2, ResemblesKept, Zenon DEF KeyRelayed, ToolKey
    <2>2. CASE ~(TextEnd(l) <= Taken)
      <3>1. /\ Taken + MessageStart = TextStart(m) + 1
            /\ Taken' = TextEnd(m) /\ TextStart(m) + 2 <= pos
            /\ b \in Seq(Tokens) /\ IsBodyOf(b, m)
            /\ KindOf(m) \in ToolKinds => tools' = IF Seen THEN T ELSE Append(T, b)
        BY <1>3, <1>8, <1>11, <1>14, WellFormedKinds DEF Base
      <3>2. \/ l = m
            \/ l < m /\ InBuffer(l) /\ TextEnd(l) + 2 <= pos /\ TextStart(l) < TextStart(m)
        BY <1>11, <2>2, <3>1, TakenBefore
      <3>3. CASE l = m
        <4>1. tools' = IF Seen THEN T ELSE Append(T, b)
          BY <1>11, <3>1, <3>3
        <4>2. \E i \in DOMAIN tools' : ToolKey(tools'[i]) = ToolKey(b)
          <5>1. CASE Seen
            BY <4>1, <5>1
          <5>2. CASE ~Seen
            <6>1. /\ Len(T) + 1 \in DOMAIN Append(T, b)
                  /\ Append(T, b)[Len(T) + 1] = b
              BY <1>4, <3>1
            <6> QED
              BY <4>1, <5>2, <6>1
          <5> QED
            BY <5>1, <5>2
        <4>3. Resembles(ToolKey(b), ToolKey(BodyOf(m)))
          BY <3>1, FirstToken DEF Base, ToolKey
        <4> QED
          BY <1>2, <1>7, <3>3, <4>2, <4>3, ResemblesKept, Zenon DEF KeyRelayed, ToolKey
      <3>4. CASE l < m /\ InBuffer(l) /\ TextEnd(l) + 2 <= pos /\ TextStart(l) < TextStart(m)
        <4>1. loop = 1 \/ loop = 2
          BY <1>1 DEF Base, TypeOK
        <4>2. loop # 1
          <5>1. ASSUME loop = 1
                PROVE  FALSE
            <6>1. MessageStart <= Len(buffer) /\ Taken + MessageStart <= TextStart(l) + 1
              BY <1>11, <3>4, <5>1, LoopFor, FirstFound
            <6>2. PICK a \in Nat, c \in Nat, x \in Nat :
                    /\ a = TextStart(l) /\ c = TextStart(m) /\ x = Taken + MessageStart
                    /\ a < c /\ x = c + 1 /\ x <= a + 1
              <7>1. PICK a \in Nat, c \in Nat :
                    a = TextStart(l) /\ c = TextStart(m) /\ a < c
                BY <3>4, MessageTypes DEF Base
              <7>2. c + 1 = Taken + MessageStart /\ c + 1 <= a + 1 /\ c + 1 \in Nat
                BY <3>1, <6>1, <7>1
              <7> QED
                BY <7>1, <7>2
            <6> QED
              BY <6>2
          <5> QED
            BY <5>1
        <4>3. Taken <= TextStart(l)
          BY <3>4 DEF InBuffer
        <4> QED
          BY <1>11, <3>4, <4>1, <4>2, <4>3 DEF NoToolLeft
      <3> QED
        BY <3>2, <3>3, <3>4
    <2> QED
      BY <2>1, <2>2
  <1>12. WellFormed' => WellFormed
    BY <1>2, MessagesKept
  <1>13. WellFormed' => \A l \in 1..Len(stream') :
            KindOf(l)' \in ToolKinds /\ TextEnd(l)' <= Taken' => KeyRelayed(l)'
    BY <1>1, <1>7, <1>11, <1>12
  <1>15. \A i, j \in DOMAIN tools' : (ToolKey(tools[i]) = ToolKey(tools[j]))' => i = j
    BY <1>10 DEF ToolKey
  <1> QED
    BY <1>10, <1>13, <1>15 DEF ToolsInv
LEMMA ContentStay ==
    ASSUME Base, ContentInv, [Next]_vars, ~ProcessMessages
    PROVE  ContentInv'
  <1> SUFFICES \E from \in [DOMAIN content' -> Sent(ChatKinds)'] :
                         /\ RelayedFrom(content, from)'
                         /\ \A i \in DOMAIN content' : TextEnd(from[i])' <= Taken'
                         /\ WellFormed' /\ ~coalesced' => \A m \in 1..Len(stream') :
                               KindOf(m)' \in ChatKinds /\ TextEnd(m)' <= Taken' =>
                                   \E i \in DOMAIN content' : from[i] = m
    BY DEF ContentInv
  <1>1. Taken' = Taken
    BY TakenGrows
  <1>2. PICK T : T = content /\ content' = T
    BY DEF Next, Send, Data, End, Error, LeaveLoop, vars
  <1>3. ~coalesced' => ~coalesced
    <2>1. CASE Data
      <3>1. PICK to : coalesced' = (coalesced \/
                    \E m, n \in DOMAIN stream :
                        m < n /\ \A l \in {m, n} : Identified(l, to) /\ ~Identified(l, pos))
        BY <2>1, Zenon DEF Data
      <3> QED
        BY <3>1, Zenon
    <2>2. CASE ~Data
      <3>1. coalesced' = coalesced
        BY <2>2 DEF Next, Send, End, Error, LeaveLoop, vars, history
      <3> QED
        BY <3>1
    <2> QED
      BY <2>1, <2>2
  <1>4. PICK from \in [DOMAIN T -> Sent(ChatKinds)] :
          /\ RelayedFrom(T, from)
          /\ \A i \in DOMAIN T : TextEnd(from[i]) <= Taken
          /\ WellFormed /\ ~coalesced => \A m \in 1..Len(stream) :
                KindOf(m) \in ChatKinds /\ TextEnd(m) <= Taken => \E i \in DOMAIN T : from[i] = m
    BY <1>2, <1>3 DEF ContentInv
  <1>5. /\ from \in [DOMAIN T -> Sent(ChatKinds)']
        /\ \A i, j \in DOMAIN T :
              IsBodyOf(T[i], from[i])' /\ (i < j => from[i] < from[j])
        /\ \A i \in DOMAIN T : TextEnd(from[i])' <= Taken'
    BY <1>4, RelayedKept
  <1>6. RelayedFrom(content, from)'
    BY <1>2, <1>5 DEF RelayedFrom
  <1>7. ASSUME WellFormed', ~coalesced', NEW m \in 1..Len(stream'), KindOf(m)' \in ChatKinds,
               TextEnd(m)' <= Taken'
        PROVE  \E i \in DOMAIN T : from[i] = m
    <2>1. /\ m \in 1..Len(stream) /\ TextEnd(m) <= Taken
          /\ KindOf(m)' = KindOf(m)
      BY <1>1, <1>7, LeftBefore
    <2>2. WellFormed /\ ~coalesced
      BY <1>3, <1>7, MessagesKept
    <2> QED
      BY <1>4, <1>7, <2>1, <2>2
  <1> QED
    BY <1>2, <1>5, <1>6, <1>7

\* A loop that is not coalesced jumps over nothing.
LEMMA NothingBefore ==
    ASSUME Base, FewInBuffer, WellFormed, ~coalesced, loop # 0,
           NEW l \in 1..Len(stream), NEW m \in 1..Len(stream), l < m,
           InBuffer(l), InBuffer(m), Open => TextEnd(m) + 2 <= pos
    PROVE  FALSE
  <1>1. m <= l + 1 /\ (AtEnd => l = m)
    BY DEF FewInBuffer
  <1>2. Open
    BY <1>1 DEF Base, StatusInv
  <1>3. PICK S \in Nat, N \in Nat, P \in Nat, D \in Nat, a \in Nat, c \in Nat :
          /\ S = Len(stream) /\ N = Len(text) /\ P = pos /\ D = Taken /\ P <= N
          /\ a = TextStart(m) /\ c = TextEnd(m) /\ a + 3 <= c
    BY LengthTypes, TakenType, MessageTypes DEF Base
  <1>4. c + 2 <= P /\ D <= a
    BY <1>2, <1>3 DEF InBuffer
  <1>5. m # S
    <2>1. m = S => c = N
      BY <1>3, MessageTokens DEF Base
    <2> QED
      BY <1>3, <1>4, <2>1
  <1>6. PICK o \in 1..Len(stream) : o = m + 1 /\ TextStart(o) = c
    <2>1. m < S
      BY <1>3, <1>5
    <2> QED
      BY <1>3, <2>1, MessageTokens DEF Base
  <1>7. D <= c
    BY <1>3, <1>4
  <1>8. InBuffer(o)
    BY <1>3, <1>4, <1>6, <1>7 DEF InBuffer
  <1>9. o <= l + 1
    BY <1>8 DEF FewInBuffer
  <1> QED
    BY <1>6, <1>9

LEMMA ContentTurn ==
    ASSUME Base, Uncut, FewInBuffer, ContentInv, ProcessMessages
    PROVE  ContentInv'
  <1> SUFFICES \E from \in [DOMAIN content' -> Sent(ChatKinds)'] :
                         /\ RelayedFrom(content, from)'
                         /\ \A i \in DOMAIN content' : TextEnd(from[i])' <= Taken'
                         /\ WellFormed' /\ ~coalesced' => \A l \in 1..Len(stream') :
                               KindOf(l)' \in ChatKinds /\ TextEnd(l)' <= Taken' =>
                                   \E i \in DOMAIN content' : from[i] = l
    BY DEF ContentInv
  <1>1. stream' = stream /\ loop # 0 /\ coalesced' = coalesced
    BY DEF ProcessMessages, history
  <1>2. [Next]_vars
    BY DEF Next
  <1>3. PICK m \in 1..Len(stream) :
              \/ KindOf(m) \in Quote /\ UNCHANGED <<tools, content>>
              \/ /\ KindOf(m) \notin Quote
                 /\ Taken <= TextStart(m) /\ Taken' = TextEnd(m)
                 /\ TextStart(m) + 2 <= pos
                 /\ Open => TextEnd(m) + 2 <= pos
                 /\ MessageContent \in Seq(Tokens) /\ IsBodyOf(MessageContent, m)
                 /\ content' = IF KindOf(m) \in ChatKinds
                               THEN Append(content, MessageContent) ELSE content
    BY TurnRelays, KindSets
  <1>4. PICK T : T = content /\ T \in Seq(Seq(Tokens))
    BY DEF Base, TypeOK
  <1>5. PICK from \in [DOMAIN T -> Sent(ChatKinds)] :
          /\ RelayedFrom(T, from)
          /\ \A i \in DOMAIN T : TextEnd(from[i]) <= Taken
          /\ WellFormed /\ ~coalesced => \A l \in 1..Len(stream) :
                KindOf(l) \in ChatKinds /\ TextEnd(l) <= Taken => \E i \in DOMAIN T : from[i] = l
    BY <1>1, <1>4 DEF ContentInv
  <1>6. PICK D \in Nat, E \in Nat : D = Taken /\ E = Taken' /\ D <= E
    BY <1>2, TakenGrows
  <1>7. /\ Sent(ChatKinds)' = Sent(ChatKinds)
        /\ \A l : BodyOf(l)' = BodyOf(l) /\ TextEnd(l)' = TextEnd(l) /\ KindOf(l)' = KindOf(l)
    BY <1>1 DEF Sent, BodyOf, TextEnd, TextStart, KindOf
  <1>8. WellFormed' => WellFormed
    BY <1>2, MessagesKept
  <1>9. ASSUME WellFormed, ~coalesced, NEW l \in 1..Len(stream), KindOf(l) \in ChatKinds,
               TextEnd(l) <= Taken', ~(TextEnd(l) <= Taken)
        PROVE  l = m
    <2>1. /\ Taken <= TextStart(m) /\ Taken' = TextEnd(m) /\ TextStart(m) + 2 <= pos
          /\ Open => TextEnd(m) + 2 <= pos
      BY <1>3, <1>9, WellFormedKinds DEF Base
    <2>2. l = m \/ (l < m /\ InBuffer(l))
      BY <1>9, <2>1, TakenBefore
    <2>3. InBuffer(m)
      BY <2>1 DEF InBuffer
    <2> QED
      BY <1>1, <1>9, <2>1, <2>2, <2>3, NothingBefore
  <1>10. CASE content' = T /\ (WellFormed => KindOf(m) \notin ChatKinds)
    <2>1. /\ from \in [DOMAIN T -> Sent(ChatKinds)']
          /\ \A i, j \in DOMAIN T :
                IsBodyOf(T[i], from[i])' /\ (i < j => from[i] < from[j])
          /\ \A i \in DOMAIN T : TextEnd(from[i])' <= Taken'
      BY <1>2, <1>5, RelayedKept
    <2>2. RelayedFrom(content, from)'
      BY <1>10, <2>1 DEF RelayedFrom
    <2>3. ASSUME WellFormed', ~coalesced', NEW l \in 1..Len(stream'), KindOf(l)' \in ChatKinds,
                 TextEnd(l)' <= Taken'
          PROVE  \E i \in DOMAIN T : from[i] = l
      <3>1. WellFormed /\ ~coalesced /\ l \in 1..Len(stream) /\ KindOf(l) \in ChatKinds
            /\ TextEnd(l) <= Taken'
        BY <1>1, <1>7, <1>8, <2>3
      <3>2. TextEnd(l) <= Taken
        BY <1>9, <1>10, <3>1
      <3> QED
        BY <1>5, <3>1, <3>2
    <2> QED
      BY <1>10, <2>1, <2>2, <2>3
  <1>11. CASE /\ content' = Append(T, MessageContent) /\ Taken' = TextEnd(m)
              /\ KindOf(m) \in ChatKinds /\ Taken <= TextStart(m)
              /\ MessageContent \in Seq(Tokens) /\ IsBodyOf(MessageContent, m)
    <2>1. PICK M : M = Append(T, MessageContent)
      OBVIOUS
    <2>2. PICK f : Sources(M, ChatKinds, f) /\ Continues(T, from, m, M, f)
      <3>1. Sources(T, ChatKinds, from)
        BY <1>5 DEF Sources
      <3> QED
        BY <1>4, <1>5, <1>11, <2>1, <3>1, RelayedMore
    <2>3. f \in [DOMAIN M -> Sent(ChatKinds)] /\ RelayedFrom(M, f)
      BY <2>2 DEF Sources
    <2>4. /\ \A i \in DOMAIN M : f[i] = m \/ (i \in DOMAIN T /\ f[i] = from[i])
          /\ \A i \in DOMAIN T : i \in DOMAIN M /\ f[i] = from[i]
          /\ \E i \in DOMAIN M : f[i] = m
      BY <2>2 DEF Continues
    <2>5. ASSUME NEW i \in DOMAIN M
          PROVE  TextEnd(f[i])' <= Taken'
      <3>1. CASE f[i] = m
        BY <1>6, <1>7, <1>11, <3>1
      <3>2. CASE i \in DOMAIN T /\ f[i] = from[i]
        <4>1. PICK o \in 1..Len(stream) : o = from[i]
          BY <3>2, SentType DEF Base
        <4>2. PICK c \in Nat : c = TextEnd(o) /\ c <= D
          BY <1>5, <1>6, <3>2, <4>1, MessageTypes DEF Base
        <4>3. c <= E
          BY <1>6, <4>2
        <4> QED
          BY <1>6, <1>7, <3>2, <4>1, <4>2, <4>3
      <3> QED
        BY <2>4, <3>1, <3>2
    <2>6. RelayedFrom(content, f)'
      <3>1. ASSUME NEW i \in DOMAIN M
            PROVE  IsBodyOf(M[i], f[i])'
        BY <1>2, <1>7, <2>3, ResemblesKept, Zenon DEF RelayedFrom, IsBodyOf
      <3> QED
        BY <1>11, <2>1, <2>3, <3>1 DEF RelayedFrom
    <2>7. ASSUME WellFormed', ~coalesced', NEW l \in 1..Len(stream'), KindOf(l)' \in ChatKinds,
                 TextEnd(l)' <= Taken'
          PROVE  \E i \in DOMAIN M : f[i] = l
      <3>1. WellFormed /\ ~coalesced /\ l \in 1..Len(stream) /\ KindOf(l) \in ChatKinds
            /\ TextEnd(l) <= Taken'
        BY <1>1, <1>7, <1>8, <2>7
      <3>2. CASE TextEnd(l) <= Taken
        <4>1. \E i \in DOMAIN T : from[i] = l
          BY <1>5, <3>1, <3>2
        <4> QED
          BY <2>4, <4>1
      <3>3. CASE ~(TextEnd(l) <= Taken)
        BY <1>9, <2>4, <3>1, <3>3
      <3> QED
        BY <3>2, <3>3
    <2>8. content' = M /\ f \in [DOMAIN content' -> Sent(ChatKinds)']
      BY <1>7, <1>11, <2>1, <2>3
    <2> QED
      BY <2>5, <2>6, <2>7, <2>8
  <1> QED
    <2>1. KindOf(m) \in Quote => ~WellFormed
      BY WellFormedKinds DEF Base
    <2> QED
      BY <1>3, <1>4, <1>10, <1>11, <2>1

-----------------------------------------------------------------------------

StreamInv ==
    /\ Base
    /\ Uncut
    /\ NoToolLeft
    /\ NothingLeft
    /\ FewInBuffer
    /\ ToolsInv
    /\ ContentInv

LEMMA StreamInit == Init => StreamInv
  <1> SUFFICES ASSUME Init
               PROVE  StreamInv
    OBVIOUS
  <1>1. Base
    BY BaseInit
  <1>2. /\ Len(stream) = 0 /\ DOMAIN tools = {} /\ DOMAIN content = {}
        /\ loop = 0 /\ status = "open"
    BY DEF Init
  <1>3. \A m : m \notin 1..0
    OBVIOUS
  <1>4. Uncut /\ NoToolLeft /\ NothingLeft /\ FewInBuffer
    BY <1>2, <1>3 DEF Uncut, NoToolLeft, NothingLeft, FewInBuffer
  <1>5. \A S : \E from \in [{} -> S] : TRUE
    <2> SUFFICES ASSUME NEW S
                 PROVE  \E from \in [{} -> S] : TRUE
      OBVIOUS
    <2>1. [i \in {} |-> i] \in [{} -> S]
      OBVIOUS
    <2> QED
      BY <2>1
  <1>6. \A relayed, from : DOMAIN relayed = {} => RelayedFrom(relayed, from)
    BY DEF RelayedFrom
  <1>7. ToolsInv
    <2>1. PICK from \in [DOMAIN tools -> Sent(ToolKinds)] : TRUE
      BY <1>2, <1>5
    <2>2. RelayedFrom(tools, from) /\ \A i \in DOMAIN tools : TextEnd(from[i]) <= Taken
      BY <1>2, <1>6
    <2> QED
      BY <1>2, <1>3, <2>1, <2>2 DEF ToolsInv
  <1>8. ContentInv
    <2>1. PICK from \in [DOMAIN content -> Sent(ChatKinds)] : TRUE
      BY <1>2, <1>5
    <2>2. RelayedFrom(content, from) /\ \A i \in DOMAIN content : TextEnd(from[i]) <= Taken
      BY <1>2, <1>6
    <2> QED
      BY <1>2, <1>3, <2>1, <2>2 DEF ContentInv
  <1> QED
    BY <1>1, <1>4, <1>7, <1>8 DEF StreamInv

LEMMA StreamNext == StreamInv /\ [Next]_vars => StreamInv'
  <1> SUFFICES ASSUME StreamInv, [Next]_vars
               PROVE  StreamInv'
    OBVIOUS
  <1>1. /\ Base /\ Uncut /\ NoToolLeft /\ NothingLeft /\ FewInBuffer
        /\ ToolsInv /\ ContentInv
    BY DEF StreamInv
  <1>2. Base' /\ Uncut' /\ NoToolLeft' /\ NothingLeft' /\ FewInBuffer'
    BY <1>1, BaseNext, UncutNext, NoToolLeftNext, NothingLeftNext, FewNext
  <1>3. ToolsInv' /\ ContentInv'
    BY <1>1, ToolsStay, ToolsTurn, ContentStay, ContentTurn
  <1> QED
    BY <1>2, <1>3 DEF StreamInv

LEMMA StreamAlways == Spec => []StreamInv
  BY StreamInit, StreamNext, PTL DEF Spec

\* Whatever the agent sends and wherever the chunks are cut, what reaches the client
\* of tool calls and of content is in the order sent, each message at most once, and
\* no two tool calls have the same key.
THEOREM OrderKept == Spec => []RelayedInOrder
  <1>1. StreamInv => RelayedInOrder
    <2> SUFFICES ASSUME ToolsInv, ContentInv
                 PROVE  RelayedInOrder
      BY DEF StreamInv
    <2>1. InOrder(tools, ToolKinds)
      BY DEF ToolsInv, InOrder
    <2>2. InOrder(content, ChatKinds)
      BY DEF ContentInv, InOrder
    <2>3. \A i, j \in DOMAIN tools : ToolKey(tools[i]) = ToolKey(tools[j]) => i = j
      BY DEF ToolsInv
    <2> QED
      BY <2>1, <2>2, <2>3 DEF RelayedInOrder
  <1> QED
    BY <1>1, StreamAlways, PTL

\* Each name and arguments with which a well-formed stream calls a tool are relayed:
\* the handler takes all tool calls out of its buffer before it looks for content.
THEOREM ToolsKept == Spec => []ToolsComplete
  <1>1. StreamInv => ToolsComplete
    <2> SUFFICES ASSUME StreamInv, Over, WellFormed, NEW m \in Sent(ToolKinds)
                 PROVE  KeyRelayed(m)
      BY DEF ToolsComplete, Over, KeyRelayed
    <2>1. m \in 1..Len(stream) /\ KindOf(m) \in ToolKinds
      BY SentType DEF StreamInv, Base
    <2>2. TextEnd(m) <= Taken
      BY <2>1 DEF StreamInv, NothingLeft
    <2> QED
      BY <2>1, <2>2 DEF StreamInv, ToolsInv
  <1> QED
    BY <1>1, StreamAlways, PTL

\* No content of a well-formed stream is lost as long as no chunk completes more
\* than one identifier.
THEOREM ContentKept == Spec => []ContentComplete
  <1>1. StreamInv => ContentComplete
    <2> SUFFICES ASSUME StreamInv, Over, WellFormed, ~coalesced
                 PROVE  AllInOrder(content, ChatKinds)
      BY DEF ContentComplete, Over
    <2>1. PICK from \in [DOMAIN content -> Sent(ChatKinds)] :
            /\ RelayedFrom(content, from)
            /\ \A m \in 1..Len(stream) :
                  KindOf(m) \in ChatKinds /\ TextEnd(m) <= Taken =>
                      \E i \in DOMAIN content : from[i] = m
      BY DEF StreamInv, ContentInv
    <2>2. ASSUME NEW m \in Sent(ChatKinds)
          PROVE  \E i \in DOMAIN content : from[i] = m
      <3>1. m \in 1..Len(stream) /\ KindOf(m) \in ChatKinds
        BY SentType DEF StreamInv, Base
      <3>2. TextEnd(m) <= Taken
        BY <3>1 DEF StreamInv, NothingLeft
      <3> QED
        BY <2>1, <3>1, <3>2
    <2>3. Range(from) = Sent(ChatKinds)
      BY <2>2 DEF Range
    <2> QED
      BY <2>1, <2>3 DEF AllInOrder
  <1> QED
    BY <1>1, StreamAlways, PTL
=============================================================================
