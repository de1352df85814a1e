------------------------------- MODULE HTTPReader -------------------------------
(***************************************************************************)
(* HTTPRewriteHeaderWrapper.Read (http-resolver.go): what a pipe reads     *)
(* from a client, or from a target, passes through it.  It cuts the bytes  *)
(* of the inner connection into messages, to rewrite the head of each one  *)
(* and to pass its body on untouched, and closes the inner connection when *)
(* something comes after the first message.                                *)
(*                                                                         *)
(* A byte is a record that says where it belongs; a head and a chunk line  *)
(* are as few bytes as can be cut in two.  One action is one call of Read, *)
(* by what it finds in the state the last one left.  A call that reads the *)
(* inner connection blocks until there are bytes, and gets some of them.   *)
(***************************************************************************)
EXTENDS Integers, SequencesExt

CONSTANTS
    Messages,        \* what may be sent: [framing, size] or [framing, chunks]
    ReadLen,         \* len(r.buff)
    BuffLen          \* len(buff), the caller's

HeadLen == 2
LineLen == 2
CRLF == 2

\* What can be sent: a chunk of no bytes ends a chunked body, it is none of its chunks.
Message ==
    [framing : {"empty"}]
      \cup [framing : {"length", "upgrade", "unsized"}, size : Nat]
      \cup [framing : {"chunked"}, chunks : Seq(Nat \ {0})]

\* A head, and a chunk's line, fit in the caller's buffer (64 KB in a pipe).
ASSUME ReaderAssumption ==
    /\ Messages \subseteq Message
    /\ ReadLen \in Nat \ {0}
    /\ BuffLen \in Nat /\ BuffLen >= HeadLen /\ BuffLen >= LineLen + CRLF

VARIABLES
    messages,        \* the two messages sent, known to nobody
    source,          \* the bytes of the inner connection not read yet
    state,           \* r.state
    input,           \* r.input
    output,          \* r.output
    bodyToRead,      \* r.bodyToRead
    lastBodyParse,   \* r.lastBodyParse
    finalChunk,      \* r.finalChunk
    headerParsed,    \* r.headerParsed
    result,          \* "ok", or how the last call of Read failed
    got              \* all the caller has got

counters == <<bodyToRead, lastBodyParse, finalChunk, headerParsed>>
vars == <<messages, source, state, input, output, counters, result, got>>

-----------------------------------------------------------------------------
(* Messages. *)

Bytes(i, part, val, n) == [k \in 1..n |-> [msg |-> i, part |-> part, val |-> val, at |-> k]]

\* val is what the parser makes of it: the framing the head declares, the size
\* on a chunk's line.
HeadOf(i, part, m) == Bytes(i, part, m, HeadLen)

Chunk(i, size) == Bytes(i, "line", size, LineLen) \o Bytes(i, "data", size, size + CRLF)

BodyOf(i, m) ==
    CASE m.framing = "empty" -> <<>>
      [] m.framing \in {"length", "upgrade", "unsized"} -> Bytes(i, "data", 0, m.size)
      [] m.framing = "chunked" ->
            FlattenSeq([c \in 1..Len(m.chunks) |-> Chunk(i, m.chunks[c])]) \o Chunk(i, 0)

\* What is sent, and what the caller has to get of it: the head written anew.
Sent(i, m) == HeadOf(i, "head", m) \o BodyOf(i, m)
Wanted(i, m) == HeadOf(i, "rewritten", m) \o BodyOf(i, m)

Rest(q, n) == SubSeq(q, n + 1, Len(q))

Least(m, n) == IF m < n THEN m ELSE n

-----------------------------------------------------------------------------
Init ==
    /\ messages \in [1..2 -> Messages]
    /\ source = Sent(1, messages[1]) \o Sent(2, messages[2])
    /\ state = "Head" /\ input = <<>> /\ output = <<>>
    /\ bodyToRead = 0 /\ lastBodyParse = 0
    /\ finalChunk = FALSE /\ headerParsed = FALSE
    /\ result = "ok" /\ got = <<>>

\* A read of at most n bytes of the inner connection.
Reads(n) == {SubSeq(source, 1, k) : k \in 1..Least(n, Len(source))}

\* The inner connection is read when what is left of it is not enough.
Stale == input = <<>> \/ lastBodyParse = Len(input)

\* The first bytes of q are the caller's, and the rest stays in the output.
Return(q) ==
    /\ got' = got \o SubSeq(q, 1, Least(BuffLen, Len(q)))
    /\ output' = Rest(q, BuffLen)

Fails(r) ==
    /\ result' = r
    /\ UNCHANGED <<messages, state, output, counters, got>>

-----------------------------------------------------------------------------
(* A head. *)

\* The state the head of message m sets, and the bytes of body to come.  A
\* response that has no length is taken to be chunked.
After(m) ==
    CASE m.framing = "empty" -> <<"Body", 0>>
      [] m.framing = "length" -> <<"Body", m.size>>
      [] m.framing \in {"chunked", "unsized"} -> <<"ChunkedBody", 0>>
      [] m.framing = "upgrade" -> <<"Upgraded", 0>>

\* Something comes after the first message: the inner connection is closed.
CloseSecond ==
    /\ state = "Head" /\ Stale /\ headerParsed
    /\ \E p \in Reads(ReadLen) : source' = Rest(source, Len(p))
    /\ Fails("closed") /\ UNCHANGED input

\* The bytes a call has to parse, with those it reads first.
ParseInput ==
    IF Stale THEN {input \o p : p \in Reads(ReadLen)} ELSE {input}

Take(q) == source' = Rest(source, Len(q) - Len(input))

IsHead(q) == Head(q).part = "head"

ReadHeadPart ==
    /\ state = "Head" /\ ~(Stale /\ headerParsed)
    /\ \E q \in ParseInput :
        /\ IsHead(q) /\ Len(q) < HeadLen
        /\ Take(q) /\ input' = q /\ lastBodyParse' = Len(q)
    /\ UNCHANGED <<messages, state, output, bodyToRead, finalChunk, headerParsed, result, got>>

ReadHead ==
    /\ state = "Head" /\ ~(Stale /\ headerParsed)
    /\ \E q \in ParseInput :
        /\ IsHead(q) /\ Len(q) >= HeadLen
        /\ Take(q)
        /\ LET m == Head(q).val
               next == After(m)
               head == HeadOf(Head(q).msg, "rewritten", m)
               left == Rest(q, HeadLen)
           IN /\ state' = IF next = <<"Body", 0>> THEN "Head" ELSE next[1]
              /\ bodyToRead' = next[2]
              /\ IF next[1] = "Upgraded"
                 THEN Return(output \o head \o left) /\ input' = <<>>
                 ELSE Return(output \o head) /\ input' = left
    /\ lastBodyParse' = 0
    /\ headerParsed' = TRUE
    /\ UNCHANGED <<messages, finalChunk, result>>

-----------------------------------------------------------------------------
(* A body of a known length, and an upgraded connection. *)

\* What a call returns of the output buffer, once the head is behind.
ReadOutput ==
    /\ state # "Head" /\ output # <<>>
    /\ Return(output)
    /\ UNCHANGED <<messages, source, state, input, counters, result>>

\* Mutant: nothing keeps the read from going past the end of the body.
BodyReadsLoose ==
    IF input # <<>> THEN {SubSeq(input, 1, Least(BuffLen, Len(input)))} ELSE Reads(BuffLen)

\* The bytes of body a call may get: those of the input buffer that fit, or
\* some of the inner connection, and none of the next message.
BodyReads ==
    LET n == Least(bodyToRead, BuffLen)
    IN IF input # <<>> THEN {SubSeq(input, 1, Least(n, Len(input)))} ELSE Reads(n)

\* The caller gets p, from the input buffer or from the inner connection.
Pass(p) ==
    /\ got' = got \o p
    /\ IF input # <<>> THEN input' = Rest(input, Len(p)) /\ UNCHANGED source
                       ELSE source' = Rest(source, Len(p)) /\ UNCHANGED input

ReadBody ==
    /\ state = "Body" /\ output = <<>>
    /\ \E p \in BodyReads :
        /\ Pass(p)
        /\ bodyToRead' = bodyToRead - Len(p)
        /\ state' = IF bodyToRead = Len(p) THEN "Head" ELSE "Body"
    /\ UNCHANGED <<messages, output, lastBodyParse, finalChunk, headerParsed, result>>

ReadUpgraded ==
    /\ state = "Upgraded" /\ output = <<>>
    /\ \E p \in IF input # <<>> THEN {SubSeq(input, 1, Least(BuffLen, Len(input)))}
                ELSE Reads(BuffLen) : Pass(p)
    /\ UNCHANGED <<messages, state, output, counters, result>>

-----------------------------------------------------------------------------
(* A chunked body. *)

AtLine == state = "ChunkedBody" /\ output = <<>> /\ bodyToRead = 0

\* Mutant: a line that is cut is parsed again before there is more.
ReadLinePartForgets ==
    /\ AtLine
    /\ \E q \in ParseInput :
        /\ Len(q) < LineLen /\ Head(q).part = "line"
        /\ Take(q) /\ input' = q /\ lastBodyParse' = 0
    /\ UNCHANGED <<messages, state, output, bodyToRead, finalChunk, headerParsed, result, got>>

\* A line that is cut is kept and parsed again when there is more.
ReadLinePart ==
    /\ AtLine
    /\ \E q \in ParseInput :
        /\ Len(q) < LineLen /\ Head(q).part = "line"
        /\ Take(q) /\ input' = q /\ lastBodyParse' = Len(q)
    /\ UNCHANGED <<messages, state, output, bodyToRead, finalChunk, headerParsed, result, got>>

\* Bytes that are of no line, those of a body without a length or of the head after
\* it, are kept as well when no line ends among them, as it does in a whole head.
ReadNoLine ==
    /\ AtLine
    /\ \E q \in ParseInput :
        /\ Head(q).part # "line"
        /\ \A k \in 1..Len(q) : ~ (q[k].part = "head" /\ q[k].at = HeadLen)
        /\ Take(q) /\ input' = q /\ lastBodyParse' = Len(q)
    /\ UNCHANGED <<messages, state, output, bodyToRead, finalChunk, headerParsed, result, got>>

\* The line of a chunk, the last one too when its end has not come yet.
LineOf(q) == SubSeq(q, 1, LineLen)

IsLine(q) == Len(q) >= LineLen /\ Head(q).part = "line"

IsLast(q) == Head(q).val = 0

ReadLine ==
    /\ AtLine
    /\ \E q \in ParseInput :
        /\ IsLine(q) /\ (IsLast(q) => Len(q) < LineLen + CRLF)
        /\ Take(q) /\ input' = Rest(q, LineLen)
        /\ finalChunk' = (finalChunk \/ IsLast(q))
        /\ bodyToRead' = Head(q).val + CRLF
        /\ Return(LineOf(q))
    /\ lastBodyParse' = 0
    /\ UNCHANGED <<messages, state, headerParsed, result>>

\* Mutant: the blank line after the last chunk is left in the input buffer.
ReadLastLineOnly ==
    /\ AtLine
    /\ \E q \in ParseInput :
        /\ IsLine(q) /\ IsLast(q) /\ Len(q) >= LineLen + CRLF
        /\ Take(q) /\ input' = Rest(q, LineLen)
        /\ got' = got \o LineOf(q)
    /\ state' = "Head" /\ lastBodyParse' = 0
    /\ UNCHANGED <<messages, output, bodyToRead, finalChunk, headerParsed, result>>

\* The last chunk and its end are there.
ReadLast ==
    /\ AtLine
    /\ \E q \in ParseInput :
        /\ IsLine(q) /\ IsLast(q) /\ Len(q) >= LineLen + CRLF
        /\ Take(q) /\ input' = Rest(q, LineLen + CRLF)
        /\ got' = got \o SubSeq(q, 1, LineLen + CRLF)
    /\ state' = "Head" /\ lastBodyParse' = 0
    /\ UNCHANGED <<messages, output, bodyToRead, finalChunk, headerParsed, result>>

ReadChunk ==
    /\ state = "ChunkedBody" /\ output = <<>> /\ bodyToRead > 0
    /\ \E p \in BodyReads :
        /\ Pass(p)
        /\ bodyToRead' = bodyToRead - Len(p)
        /\ LET last == finalChunk /\ bodyToRead = Len(p)
           IN /\ state' = IF last THEN "Head" ELSE state
              /\ finalChunk' = IF last THEN FALSE ELSE finalChunk
    /\ UNCHANGED <<messages, output, lastBodyParse, headerParsed, result>>

-----------------------------------------------------------------------------
(* Failures. *)

\* What stands where a head or a chunk line should be is neither.  (The data of a
\* body without a length are not taken to look like a chunk line.)
ReadMalformed ==
    /\ \/ state = "Head" /\ ~(Stale /\ headerParsed)
       \/ AtLine
    /\ \E q \in ParseInput :
        /\ Head(q).part # IF state = "Head" THEN "head" ELSE "line"
        /\ Take(q) /\ input' = q
    /\ Fails("malformed")

\* The inner connection has to be read, and its other end has closed it.
ReadsInner ==
    CASE state = "Head" -> Stale
      [] state = "ChunkedBody" /\ bodyToRead = 0 -> output = <<>> /\ Stale
      [] OTHER -> output = <<>> /\ input = <<>>

ReadEnd ==
    /\ ReadsInner /\ source = <<>>
    /\ Fails("end") /\ UNCHANGED <<input, source>>

\* The caller calls Read until it fails.
Next ==
    /\ result = "ok"
    /\ \/ CloseSecond \/ ReadHeadPart \/ ReadHead
       \/ ReadOutput \/ ReadBody \/ ReadUpgraded
       \/ ReadLinePart \/ ReadNoLine \/ ReadLine \/ ReadLast \/ ReadChunk
       \/ ReadMalformed \/ ReadEnd

Spec == Init /\ [][Next]_vars

\* The pipe calls Read again and again, and the other end sends all it has.
FairSpec == Spec /\ WF_vars(Next)

-----------------------------------------------------------------------------
\* Every variable has its type, and what is left to read of a body is never
\* negative.
TypeOK ==
    /\ state \in {"Head", "Body", "ChunkedBody", "Upgraded"}
    /\ bodyToRead \in Nat
    /\ state \in {"Head", "Upgraded"} => bodyToRead = 0
    /\ lastBodyParse \in 0..Len(input)
    /\ result \in {"ok", "closed", "malformed", "end"}

First == Wanted(1, messages[1])
Both == First \o Wanted(2, messages[2])

\* An upgraded connection has no second message to rewrite.
Upgrade == messages[1].framing = "upgrade"

\* Whatever the packets are cut into, the caller gets the messages, in order, in
\* full so far, each with its head rewritten and its body as it was sent.
Transparent ==
    IF Upgrade THEN IsPrefix(got, First \o Sent(2, messages[2])) ELSE IsPrefix(got, Both)

Sized(i) == messages[i].framing # "unsized"

\* Read fails between messages only: nothing of a message the caller has begun to get
\* is lost when the connection is closed, and no message whose length is declared is
\* called malformed.  Of a message without a length the caller gets the head alone
\* (http-resolver.go:236, 382-391).
FailsBetween ==
    /\ result = "malformed" => ~Sized(1) \/ ~Sized(2)
    /\ result \in {"closed", "end"} /\ ~Upgrade /\ Sized(1) =>
         got \in {First, Both, IF Sized(2) THEN Both ELSE First \o HeadOf(2, "rewritten", messages[2])}

\* The first message reaches the caller in full, whatever it is cut into.
FirstArrives == Sized(1) ~> IsPrefix(First, got)

\* "closing connection to reset HTTP/1.1" (http-resolver.go:121): a connection
\* serves one request; the next one is never passed on to the same target, which
\* may be of another image than the one it asks for.
OneMessage == ~Upgrade => Len(got) <= Len(First)
=============================================================================
